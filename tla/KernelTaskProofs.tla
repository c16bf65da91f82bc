-------------------------- MODULE KernelTaskProofs --------------------------
(***************************************************************************)
(* What the kernel and task workflows guarantee for every set of recipes,  *)
(* clock readings, handler invocations, effect operations and crashes: a   *)
(* completed task stands on verified rows, every caller of signal or       *)
(* cancel is told the decision that the task follows, the answer of the    *)
(* run is what the ledger durably says, and a cancelled task did a prefix  *)
(* of its steps.                                                           *)
(***************************************************************************)
EXTENDS KernelTask, TLAPS

InLoop == {"stepStart", "stepWait", "await", "stepResume", "stepComplete", "read",
           "cancel", "cancelWait"}
AfterLoop == {"evidence", "verify", "judge", "finish", "unverified"}

(***************************************************************************)
(* The inductive invariant, by parts.                                      *)
(***************************************************************************)

ControlTypeOK ==
    /\ recipe \in DOMAIN Plans /\ pc \in Steps /\ node \in 1..4 /\ committed \in BOOLEAN
    /\ decision \in {"none", "RESUME", "CANCEL"}
    /\ answers \in [Calls -> {"none", "RESUME", "CANCEL"}]

\* Inside the loop there is a current step; after it, only the canary left early.
LoopIndex ==
    /\ pc \in InLoop => node <= Len(Plan)
    /\ pc \in AfterLoop /\ ~Canary => node > Len(Plan)
    /\ pc \in {"read", "judge", "fail"} => Canary

\* Only a wait is waited at.
WaitsAtWait ==
    pc \in {"stepWait", "await", "stepResume", "cancelWait"} => Operation = "WAIT_FOR_EVENT"

\* A caller was told the decision that stands.
ToldTheDecision == \A c \in Calls : answers[c] \in {"none", decision}

\* Only a CANCEL cancels.
CancelWasDecided ==
    pc \in {"cancel", "cancelWait"} \/ task = "CANCELLED" => decision = "CANCEL"

\* Past the wait, the decision was RESUME.
ResumeWasDecided ==
    Waits(recipe) /\ ( \/ pc = "stepResume" \/ pc \in AfterLoop \/ node > 2
                       \/ node = 2 /\ pc = "stepComplete"
                       \/ task = "COMPLETED")
        => decision = "RESUME"

\* A write that committed left its event and waits for its journal entry.
CommittedHasEvent ==
    /\ committed => pc \in DOMAIN EmitStatus \cup {"finish", "unverified"}
    /\ committed /\ pc \in DOMAIN EmitStatus => Key(pc) \in events

\* Step A of TaskWorkflow, which the ledger does not check itself.
FirstStepStands ==
    Legacy =>
        /\ node > 1 => steps[1] = "COMPLETED"
        /\ <<"stepComplete", 1>> \in events =>
              steps[1] = "COMPLETED" /\ (node > 1 \/ pc = "stepComplete")

\* A completed task is at the end of its handler.
CompletedAtEnd == task = "COMPLETED" => pc \in {"finish", "done"}

KernelInv ==
    /\ ControlTypeOK
    /\ LoopIndex /\ WaitsAtWait /\ ToldTheDecision
    /\ CancelWasDecided /\ ResumeWasDecided
    /\ CommittedHasEvent /\ FirstStepStands /\ CompletedAtEnd
    /\ CompletionIsBacked

-----------------------------------------------------------------------------
(***************************************************************************)
(* Lemmas about the tables.                                                *)
(***************************************************************************)

\* The two recipes with a wait have it as the second of three steps; the
\* others are a single step.
LEMMA PlanShape ==
    ASSUME NEW r \in DOMAIN Plans
    PROVE  /\ Len(Plans[r]) \in 1..3
           /\ Waits(r) <=> r \in {"uppercaseReverse", "taskWorkflow"}
           /\ Waits(r) => /\ Len(Plans[r]) = 3 /\ Plans[r][2] = "WAIT_FOR_EVENT"
                          /\ Plans[r][1] # "WAIT_FOR_EVENT" /\ Plans[r][3] # "WAIT_FOR_EVENT"
           /\ ~Waits(r) => Len(Plans[r]) = 1 /\ Plans[r][1] # "WAIT_FOR_EVENT"
<1>1. r \in {"uppercase", "uppercaseReverse", "repositoryRead", "taskWorkflow"}
  BY DEF Plans
<1>2. CASE r = "uppercase"
  <2>1. Plans[r] = <<"UPPERCASE">>  BY <1>2 DEF Plans
  <2> QED  BY <1>2, <2>1 DEF Waits
<1>3. CASE r = "repositoryRead"
  <2>1. Plans[r] = <<"REPOSITORY_READ">>  BY <1>3 DEF Plans
  <2> QED  BY <1>3, <2>1 DEF Waits
<1>4. CASE r \in {"uppercaseReverse", "taskWorkflow"}
  <2>1. Plans[r] = <<"UPPERCASE", "WAIT_FOR_EVENT", "REVERSE">>  BY <1>4 DEF Plans
  <2> QED  BY <1>4, <2>1 DEF Waits
<1> QED  BY <1>1, <1>2, <1>3, <1>4

\* Where each ledger write leads, for the writes of the step loop.
LEMMA EmitOrder ==
    ASSUME pc \in DOMAIN EmitStatus
    PROVE  /\ AfterEmit(pc) \in {"boundary", "intent", "compile", "ready", "start", "stepWait",
                                  "read", "stepComplete", "await", "verify", "judge", "finish", "done"}
           /\ AfterEmit(pc) = "boundary" /\ pc # "start" =>
                 pc \in {"stepResume", "stepComplete"}
           /\ AfterEmit(pc) = "stepWait" => pc = "stepStart" /\ Operation = "WAIT_FOR_EVENT"
           /\ AfterEmit(pc) = "await" => pc = "stepWait"
           /\ AfterEmit(pc) = "read" => pc = "stepStart" /\ Canary
           /\ AfterEmit(pc) = "stepComplete" =>
                 \/ pc = "stepStart" /\ Operation # "WAIT_FOR_EVENT"
                 \/ pc = "stepResume"
           /\ AfterEmit(pc) = "verify" => pc = "evidence" \/ (pc = "stepComplete" /\ Canary)
           /\ AfterEmit(pc) = "judge" => pc = "verify" /\ Canary
           /\ AfterEmit(pc) = "finish" => pc = "verify" /\ ~Canary
           /\ AfterEmit(pc) = "done" => pc \in {"cancel", "cancelWait", "fail"}
           /\ pc = "stepComplete" /\ ~Canary => AfterEmit(pc) = "boundary"
BY DEF AfterEmit, EmitStatus

\* A ledger write of the run handler either found its event or committed.
LEMMA EmitCommits ==
    ASSUME KernelInv, Emit
    PROVE  /\ UNCHANGED <<recipe, pc, node, finishAt, handlers, receipts>>
           /\ committed' = TRUE /\ pc \in DOMAIN EmitStatus
           /\ Key(pc) \in events'
           /\ \/ UNCHANGED ledger
              \/ /\ task \notin Terminal
                 /\ task' = EmitStatus[pc] /\ events' = events \cup {Key(pc)}
                 /\ Key(pc) \notin events
                 /\ steps' = [t \in StepIds |-> IF t \in DOMAIN Rows(pc) THEN Rows(pc)[t] ELSE steps[t]]
BY DEF Emit, Write, MayWrite, Commit, EmitWrite, ledger, handlers, Terminal

\* The steps that only move the run handler leave the ledger and handlers alone.
LEMMA ControlSteps ==
    ASSUME KernelInv,
           Accept \/ Boundary \/ Unserved \/ LoopEnd \/ Await \/ ReadRepository \/ Judge
           \/ RefuseCompletion \/ FinishJournal
    PROVE  KernelInv'
<1> USE PlanShape DEF ControlTypeOK, Plan, Operation, Canary, Legacy
<1>0. ControlTypeOK  BY DEF KernelInv
<1>1. UNCHANGED <<task, steps, events, evidence, receipts, recipe, node, decision, answers>>
      /\ (committed' = committed \/ committed' = FALSE)
  BY DEF Accept, Boundary, Unserved, LoopEnd, Await, ReadRepository, Judge, RefuseCompletion, Refuse,
         FinishJournal, ledger, handlers
<1>2. task # "COMPLETED" \/ (pc' = "done" /\ finishAt' = finishAt)
  BY DEF KernelInv, CompletedAtEnd, Accept, Boundary, Unserved, LoopEnd, Await, ReadRepository,
         Judge, RefuseCompletion, Refuse, MayWrite, Terminal, FinishJournal
<1>3. ControlTypeOK'
  BY <1>1 DEF KernelInv, Accept, Boundary, Unserved, LoopEnd, Await, ReadRepository, Judge,
         RefuseCompletion, FinishJournal, Steps, EmitStatus, NextNode, AfterWait
<1>4. LoopIndex' /\ WaitsAtWait'
  BY <1>1 DEF KernelInv, LoopIndex, WaitsAtWait, InLoop, AfterLoop, Accept, Boundary, Unserved,
         LoopEnd, Await, ReadRepository, Judge, RefuseCompletion, FinishJournal, NextNode, AfterWait
<1>5. ToldTheDecision' /\ CancelWasDecided'
  BY <1>1 DEF KernelInv, ToldTheDecision, CancelWasDecided, Accept, Boundary, Unserved,
         LoopEnd, Await, ReadRepository, Judge, RefuseCompletion, FinishJournal, NextNode, AfterWait
<1>6. ResumeWasDecided'
  <2> SUFFICES ASSUME Waits(recipe), decision # "RESUME"
               PROVE  /\ pc' # "stepResume" /\ pc' \notin AfterLoop /\ node <= 2
                      /\ ~(node = 2 /\ pc' = "stepComplete") /\ task # "COMPLETED"
    BY <1>0, <1>1 DEF ResumeWasDecided, Waits
  <2>1. /\ pc # "stepResume" /\ pc \notin AfterLoop /\ node <= 2
        /\ ~(node = 2 /\ pc = "stepComplete") /\ task # "COMPLETED"
    BY <1>0 DEF KernelInv, ResumeWasDecided
  <2>2. Len(Plan) = 3 /\ recipe # "repositoryRead"  BY <1>0
  <2>3. ~LoopEnd /\ ~Judge /\ ~ReadRepository /\ ~RefuseCompletion /\ ~FinishJournal
    BY <1>0, <2>1, <2>2 DEF KernelInv, LoopIndex, LoopEnd, Judge, ReadRepository, RefuseCompletion,
       FinishJournal, AfterLoop
  <2>4. pc' \in {"rejected", "create", "cancel", "stepWait", "stepStart", "cancelWait"}
    BY <2>3 DEF Accept, Boundary, Unserved, Await, NextNode, AfterWait
  <2> QED  BY <2>1, <2>4 DEF AfterLoop
<1>7. CommittedHasEvent'
  BY <1>1 DEF KernelInv, Accept, Boundary, Unserved, LoopEnd, Await, ReadRepository, Judge,
         RefuseCompletion, FinishJournal, CommittedHasEvent, EmitStatus
<1>8. FirstStepStands'
  BY <1>1 DEF KernelInv, Accept, Boundary, Unserved, LoopEnd, Await, ReadRepository, Judge,
         RefuseCompletion, FinishJournal, FirstStepStands
<1>9. CompletedAtEnd' /\ CompletionIsBacked'
  BY <1>1, <1>2 DEF KernelInv, CompletedAtEnd, CompletionIsBacked, EffectsResolved
<1> QED  BY <1>3, <1>4, <1>5, <1>6, <1>7, <1>8, <1>9 DEF KernelInv

-----------------------------------------------------------------------------
(***************************************************************************)
(* The steps that touch the ledger or the decision.                        *)
(***************************************************************************)

\* A ledger write of the run handler keeps the invariant.
LEMMA EmitStep ==
    ASSUME KernelInv, Emit
    PROVE  KernelInv'
<1>0. ControlTypeOK /\ pc \notin {"finish", "done"} /\ pc \in DOMAIN EmitStatus
  BY EmitCommits DEF KernelInv, EmitStatus
<1>1. /\ UNCHANGED <<recipe, pc, node, decision, answers>>
      /\ committed' = TRUE /\ Key(pc)' \in events'
  BY EmitCommits DEF handlers, Key
<1>2. task # "COMPLETED" /\ task' # "COMPLETED"
  <2>1. EmitStatus[pc] # "COMPLETED"  BY <1>0 DEF EmitStatus
  <2> QED  BY <1>0, <2>1, EmitCommits DEF KernelInv, CompletedAtEnd, ledger
<1>3. ControlTypeOK' /\ LoopIndex' /\ WaitsAtWait' /\ ToldTheDecision'
  BY <1>1 DEF KernelInv, ControlTypeOK, LoopIndex, WaitsAtWait, ToldTheDecision, Plan, Operation, Canary
<1>4. CancelWasDecided'
  BY <1>0, <1>1, EmitCommits DEF KernelInv, CancelWasDecided, EmitStatus, ledger
<1>5. ResumeWasDecided'
  BY <1>1, <1>2 DEF KernelInv, ResumeWasDecided, Waits
<1>6. CommittedHasEvent'
  BY <1>0, <1>1 DEF CommittedHasEvent
<1>7. FirstStepStands'
  <2> SUFFICES ASSUME Legacy, ~UNCHANGED ledger
               PROVE  /\ node > 1 => steps'[1] = "COMPLETED"
                      /\ <<"stepComplete", 1>> \in events' =>
                            steps'[1] = "COMPLETED" /\ (node > 1 \/ pc = "stepComplete")
    BY <1>1 DEF KernelInv, FirstStepStands, Legacy, ledger
  <2>1. /\ Key(pc) \notin events /\ events' = events \cup {Key(pc)}
        /\ steps' = [t \in StepIds |-> IF t \in DOMAIN Rows(pc) THEN Rows(pc)[t] ELSE steps[t]]
        /\ 1 \in StepIds
    BY EmitCommits, KernelConstants
  <2>2. DOMAIN Rows(pc) \subseteq {node}
    BY DEF Rows
  <2>3. CASE node > 1
    BY <2>1, <2>2, <2>3 DEF KernelInv, FirstStepStands
  <2>4. CASE node = 1
    <3>1. Operation # "WAIT_FOR_EVENT"
      BY <1>0, <2>4, PlanShape DEF Legacy, Plan, Operation, ControlTypeOK
    <3>2. <<"stepComplete", 1>> \in events' => pc = "stepComplete"
      BY <1>0, <2>1, <2>4 DEF KernelInv, FirstStepStands, Key
    <3>3. pc = "stepComplete" => Rows(pc) = [t \in {1} |-> "COMPLETED"]
      BY <2>4, <3>1 DEF Rows, StepStatus
    <3> QED  BY <2>1, <2>4, <3>2, <3>3
  <2> QED  BY <1>0, <2>3, <2>4 DEF ControlTypeOK
<1>8. CompletedAtEnd' /\ CompletionIsBacked'
  BY <1>2 DEF CompletedAtEnd, CompletionIsBacked
<1> QED  BY <1>3, <1>4, <1>5, <1>6, <1>7, <1>8 DEF KernelInv

\* Journaling a ledger write moves the run handler on.
LEMMA EmitJournalStep ==
    ASSUME KernelInv, EmitJournal
    PROVE  KernelInv'
<1>0. ControlTypeOK /\ pc \notin {"finish", "done"} /\ pc \in DOMAIN EmitStatus
  BY DEF KernelInv, EmitJournal, EmitStatus
<1>1. /\ UNCHANGED <<task, steps, events, recipe, decision, answers>>
      /\ committed' = FALSE /\ pc' = AfterEmit(pc) /\ Key(pc) \in events
      /\ node' = IF pc' = "boundary" /\ pc # "start" THEN node + 1 ELSE node
  BY <1>0 DEF EmitJournal, ledger, handlers, KernelInv, CommittedHasEvent
<1>2. task # "COMPLETED"
  BY <1>0 DEF KernelInv, CompletedAtEnd
<1>3. pc \in {"stepResume", "stepComplete"} => node <= 3
  <2>1. PICK n \in 1..3 : Len(Plan) = n  BY <1>0, PlanShape DEF ControlTypeOK, Plan
  <2>2. pc \in {"stepResume", "stepComplete"} => node <= n
    BY <2>1 DEF KernelInv, LoopIndex, InLoop
  <2> QED  BY <1>0, <2>2 DEF ControlTypeOK
<1>4. ControlTypeOK'
  <2>1. pc' \in Steps  BY <1>0, <1>1, EmitOrder DEF Steps, EmitStatus
  <2>2. node' \in 1..4  BY <1>0, <1>1, <1>3, EmitOrder DEF ControlTypeOK
  <2> QED  BY <1>0, <1>1, <2>1, <2>2 DEF ControlTypeOK
<1>5. LoopIndex'
  BY <1>0, <1>1, EmitOrder DEF KernelInv, LoopIndex, InLoop, AfterLoop, Plan, Canary
<1>6. WaitsAtWait'
  BY <1>0, <1>1, EmitOrder DEF KernelInv, WaitsAtWait, Plan, Operation
<1>7. ToldTheDecision' /\ CancelWasDecided'
  BY <1>0, <1>1, EmitOrder DEF KernelInv, ToldTheDecision, CancelWasDecided
<1>8. ResumeWasDecided'
  <2> SUFFICES ASSUME Waits(recipe), decision # "RESUME"
               PROVE  /\ pc' # "stepResume" /\ pc' \notin AfterLoop /\ node' <= 2
                      /\ ~(node' = 2 /\ pc' = "stepComplete")
    BY <1>1, <1>2, <1>4 DEF ResumeWasDecided, ControlTypeOK, Waits
  <2>1. /\ pc # "stepResume" /\ pc \notin AfterLoop /\ node <= 2
        /\ ~(node = 2 /\ pc = "stepComplete")
    BY <1>0 DEF KernelInv, ResumeWasDecided, ControlTypeOK
  <2>2. ~Canary /\ (node = 2 => Operation = "WAIT_FOR_EVENT")
    BY <1>0, PlanShape DEF Canary, ControlTypeOK, Plan, Operation
  <2> QED  BY <1>0, <1>1, <2>1, <2>2, EmitOrder DEF AfterLoop, ControlTypeOK
<1>9. CommittedHasEvent'
  BY <1>1 DEF CommittedHasEvent
<1>10. FirstStepStands'
  <2> SUFFICES ASSUME Legacy
               PROVE  /\ node' > 1 => steps[1] = "COMPLETED"
                      /\ <<"stepComplete", 1>> \in events =>
                            steps[1] = "COMPLETED" /\ (node' > 1 \/ pc' = "stepComplete")
    BY <1>1 DEF FirstStepStands, Legacy
  <2>1. ~Canary /\ (pc = "stepResume" => node > 1)
    BY <1>0, PlanShape DEF KernelInv, WaitsAtWait, Legacy, Canary, ControlTypeOK, Plan, Operation
  <2>2. pc = "stepComplete" => Key(pc) = <<"stepComplete", node>>
    BY DEF Key, StepStatus
  <2>3. pc = "stepComplete" => node' = node + 1
    BY <1>0, <1>1, <2>1, EmitOrder
  <2> QED  BY <1>0, <1>1, <2>1, <2>2, <2>3, EmitOrder DEF KernelInv, FirstStepStands, ControlTypeOK
<1>11. CompletedAtEnd' /\ CompletionIsBacked'
  BY <1>1, <1>2 DEF CompletedAtEnd, CompletionIsBacked
<1> QED  BY <1>4, <1>5, <1>6, <1>7, <1>8, <1>9, <1>10, <1>11 DEF KernelInv

\* The completion transaction commits COMPLETED only over verified rows.
LEMMA FinishStep ==
    ASSUME KernelInv, FinishTask \/ FailUnverified
    PROVE  KernelInv'
<1>0. ControlTypeOK /\ pc \in {"finish", "unverified"}
  BY DEF KernelInv, FinishTask, FailUnverified
<1>1. UNCHANGED <<recipe, pc, node, decision, answers, finishAt>> /\ committed' = TRUE
  BY DEF FinishTask, FailUnverified, handlers
<1>2. \/ UNCHANGED ledger
      \/ /\ task' = "COMPLETED" /\ Verified /\ EffectsResolved /\ pc = "finish"
         /\ steps' = [s \in StepIds |-> steps[s]] /\ evidence' = evidence /\ receipts' = receipts
         /\ events' = events \cup {<<"finish", 0>>}
      \/ /\ task' = "FAILED" /\ steps' = [s \in StepIds |-> steps[s]]
         /\ events' = events \cup {FailedKey}
  <2>1. CASE FinishTask
    BY <2>1 DEF FinishTask, Finish, Complete, Write, Commit, ledger
  <2>2. CASE FailUnverified
    BY <2>2 DEF FailUnverified, Failure, Refused, Complete, Write, Commit, ledger
  <2> QED  BY <2>1, <2>2
<1>3. ControlTypeOK' /\ LoopIndex' /\ WaitsAtWait' /\ ToldTheDecision'
  BY <1>1 DEF KernelInv, ControlTypeOK, LoopIndex, WaitsAtWait, ToldTheDecision, Plan, Operation, Canary
<1>4. CancelWasDecided'
  BY <1>1, <1>2 DEF KernelInv, CancelWasDecided, ledger
<1>5. ResumeWasDecided'
  BY <1>0, <1>1 DEF KernelInv, ResumeWasDecided, AfterLoop, Waits
<1>6. CommittedHasEvent'
  BY <1>0, <1>1 DEF CommittedHasEvent, EmitStatus
<1>7. FirstStepStands'
  <2>1. 1 \in StepIds  BY KernelConstants
  <2>2. <<"stepComplete", 1>> \in events' => <<"stepComplete", 1>> \in events
    BY <1>2 DEF FailedKey, ledger
  <2>3. steps'[1] = steps[1]  BY <1>2, <2>1 DEF ledger
  <2> QED  BY <1>0, <1>1, <2>2, <2>3 DEF KernelInv, FirstStepStands, Legacy
<1>8. CompletedAtEnd'
  BY <1>0, <1>1, <1>2 DEF KernelInv, CompletedAtEnd, ledger
<1>9. CompletionIsBacked'
  <2>1. CASE UNCHANGED ledger
    BY <1>1, <2>1 DEF KernelInv, CompletionIsBacked, EffectsResolved, ledger, Plan, Legacy
  <2>2. CASE task' = "FAILED"
    BY <2>2 DEF CompletionIsBacked
  <2>3. CASE /\ task' = "COMPLETED" /\ Verified /\ EffectsResolved
             /\ steps' = [s \in StepIds |-> steps[s]] /\ evidence' = evidence /\ receipts' = receipts
    <3>1. Len(Plan) \in 1..3 /\ StepIds = 1..3
      BY <1>0, PlanShape, KernelConstants DEF ControlTypeOK, Plan
    <3>2. ASSUME NEW s \in 1..Len(Plan)
          PROVE  steps[s] = "COMPLETED" \/ (Legacy /\ Plan[s] = "WAIT_FOR_EVENT")
      <4> SUFFICES ASSUME Legacy, s < Len(Plan)
                   PROVE  steps[s] = "COMPLETED" \/ Plan[s] = "WAIT_FOR_EVENT"
        BY <2>3 DEF Verified
      <4>1. Len(Plan) = 3 /\ Plan[2] = "WAIT_FOR_EVENT" /\ ~Canary
        BY <1>0, PlanShape DEF Legacy, Plan, Canary, ControlTypeOK
      <4>2. node > 1  BY <1>0, <4>1 DEF KernelInv, LoopIndex, AfterLoop, ControlTypeOK
      <4>3. steps[1] = "COMPLETED"  BY <4>2 DEF KernelInv, FirstStepStands
      <4> QED  BY <4>1, <4>3
    <3>3. \A s \in 1..Len(Plan) : steps'[s] = steps[s]
      <4>1. \A s \in StepIds : steps'[s] = steps[s]  BY <2>3
      <4>2. PICK n \in 1..3 : Len(Plan) = n  BY <3>1
      <4>3. 1..n \subseteq StepIds  BY <3>1
      <4> QED  BY <4>1, <4>2, <4>3
    <3>4. \E e \in evidence : e.step = Len(Plan) /\ e.digest # "drifted"
      BY <2>3 DEF Verified
    <3>5. \A e \in evidence : CreatedAt <= e.at /\ e.at <= finishAt
      BY <2>3 DEF Verified
    <3>6. Plan' = Plan /\ Legacy' = Legacy /\ EffectsResolved'
      BY <1>1, <2>3 DEF Plan, Legacy, EffectsResolved
    <3> QED  BY <1>1, <2>3, <3>2, <3>3, <3>4, <3>5, <3>6 DEF CompletionIsBacked
  <2> QED  BY <1>2, <2>1, <2>2, <2>3
<1> QED  BY <1>3, <1>4, <1>5, <1>6, <1>7, <1>8, <1>9 DEF KernelInv

\* The signal and cancel handlers decide once.
LEMMA DecideStep ==
    ASSUME KernelInv, NEW c \in Calls, Peek(c) \/ Resolve(c)
    PROVE  KernelInv'
<1>0. ControlTypeOK /\ ToldTheDecision  BY DEF KernelInv
<1>1. UNCHANGED <<task, steps, events, evidence, receipts, recipe, pc, node, committed, finishAt>>
  BY DEF Peek, Resolve, ledger, workflow
<1>2. decision' = decision \/ (decision = "none" /\ decision' \in {"RESUME", "CANCEL"})
  BY KernelConstants DEF Peek, Resolve, Resolved
<1>3. answers' = answers \/ answers' = [answers EXCEPT ![c] = decision']
  BY DEF Peek, Resolve
<1>4. ControlTypeOK' /\ ToldTheDecision'
  BY <1>0, <1>1, <1>2, <1>3 DEF ControlTypeOK, ToldTheDecision
<1>5. LoopIndex' /\ WaitsAtWait' /\ CommittedHasEvent' /\ FirstStepStands' /\ CompletedAtEnd'
  BY <1>1 DEF KernelInv, LoopIndex, WaitsAtWait, CommittedHasEvent, FirstStepStands,
     CompletedAtEnd, Key, Plan, Operation, Canary, Legacy
<1>6. CancelWasDecided' /\ ResumeWasDecided'
  BY <1>1, <1>2 DEF KernelInv, CancelWasDecided, ResumeWasDecided, Waits
<1>7. CompletionIsBacked'
  BY <1>1 DEF KernelInv, CompletionIsBacked, EffectsResolved, Plan, Legacy
<1> QED  BY <1>4, <1>5, <1>6, <1>7 DEF KernelInv

\* Effects are recorded for live tasks only; a crash forgets no row.
LEMMA EnvironmentStep ==
    ASSUME KernelInv, Effect \/ Crash \/ Change \/ UNCHANGED vars
    PROVE  KernelInv'
<1>1. /\ UNCHANGED <<task, steps, events, evidence, recipe, node, finishAt, decision, answers>>
      /\ pc' = pc \/ (pc = "unverified" /\ pc' = "finish" /\ committed' = FALSE)
      /\ committed' = committed \/ committed' = FALSE
      /\ receipts' = receipts \/ task # "COMPLETED"
  BY DEF Effect, Crash, Change, RecordEffect, Terminal, vars, ledger, workflow, handlers
<1>2. ControlTypeOK' /\ LoopIndex' /\ WaitsAtWait' /\ ToldTheDecision'
  BY <1>1 DEF KernelInv, ControlTypeOK, Steps, LoopIndex, InLoop, AfterLoop, WaitsAtWait, ToldTheDecision,
         Plan, Operation, Canary
<1>3. CancelWasDecided' /\ ResumeWasDecided'
  BY <1>1 DEF KernelInv, CancelWasDecided, ResumeWasDecided, AfterLoop, Waits
<1>4. CommittedHasEvent' /\ FirstStepStands' /\ CompletedAtEnd'
  BY <1>1 DEF KernelInv, CommittedHasEvent, FirstStepStands, CompletedAtEnd, Key, Legacy
<1>5. CompletionIsBacked'
  BY <1>1 DEF KernelInv, CompletionIsBacked, EffectsResolved, Plan, Legacy
<1> QED  BY <1>2, <1>3, <1>4, <1>5 DEF KernelInv

-----------------------------------------------------------------------------
(***************************************************************************)
(* The theorems.                                                           *)
(***************************************************************************)

\* The invariant holds of every behaviour of the task.
THEOREM KernelInvariant == Spec => []KernelInv
<1>1. Init => KernelInv
  <2> SUFFICES ASSUME Init PROVE KernelInv  OBVIOUS
  <2>1. ControlTypeOK
    <3>1. recipe \in DOMAIN Plans  BY KernelConstants DEF Init
    <3>2. pc \in Steps  BY DEF Init, Steps
    <3>3. node \in 1..4 /\ decision \in {"none", "RESUME", "CANCEL"}  BY DEF Init
    <3>5. committed \in BOOLEAN  BY Zenon DEF Init
    <3>4. answers \in [Calls -> {"none", "RESUME", "CANCEL"}]  BY DEF Init
    <3> QED  BY <3>1, <3>2, <3>3, <3>4, <3>5 DEF ControlTypeOK
  <2>2. pc = "accept" /\ node = 1 /\ task = "none" /\ ~committed /\ events = {}
        /\ \A c \in Calls : answers[c] = "none"
    BY DEF Init, LedgerInit
  <2> QED  BY <2>1, <2>2 DEF KernelInv, LoopIndex, InLoop, AfterLoop, WaitsAtWait, ToldTheDecision,
       CancelWasDecided, ResumeWasDecided, CommittedHasEvent, FirstStepStands, CompletedAtEnd,
       CompletionIsBacked
<1>2. KernelInv /\ [Next]_vars => KernelInv'
  BY ControlSteps, EmitStep, EmitJournalStep, FinishStep, DecideStep, EnvironmentStep DEF Next, Run
<1> QED  BY <1>1, <1>2, PTL DEF Spec

\* A COMPLETED task stands on verified rows, whatever effects, crashes and clock
\* readings there were.
THEOREM KernelCompletionIsBacked == Spec => []CompletionIsBacked
<1>1. KernelInv => CompletionIsBacked  BY DEF KernelInv
<1> QED  BY <1>1, KernelInvariant, PTL

\* What any caller of signal or cancel was told is what the task does.
THEOREM KernelAnswersAreKept == Spec => []AnswersAreKept
<1>1. KernelInv => AnswersAreKept
  BY DEF KernelInv, AnswersAreKept, ToldTheDecision, CancelWasDecided, ResumeWasDecided
<1> QED  BY <1>1, KernelInvariant, PTL

-----------------------------------------------------------------------------
(***************************************************************************)
(* Types.                                                                  *)
(***************************************************************************)

\* What the run handler writes has the types of the ledger's rows.
LEMMA EmitWriteTypes ==
    ASSUME KernelInv, KernelTypeOK, pc \in DOMAIN EmitStatus
    PROVE  /\ Key(pc) \in EventKeys
           /\ EmitStatus[pc] \in Statuses
           /\ \A s \in DOMAIN Rows(pc) : Rows(pc)[s] \in Statuses
           /\ Proof(pc) \subseteq [step : StepIds, at : Int, digest : Digests]
<1>1. node \in 1..4 /\ recipe \in DOMAIN Plans /\ StepIds = 1..3
  BY KernelConstants DEF KernelInv, ControlTypeOK
<1>2. PICK n \in 1..3 : Len(Plan) = n  BY <1>1, PlanShape DEF Plan
<1>3. pc \in InLoop => node \in StepIds
  BY <1>1, <1>2 DEF KernelInv, LoopIndex
<1>4. Key(pc) \in EventKeys
  <2>1. pc \in DOMAIN StepStatus => pc \in InLoop  BY DEF StepStatus, InLoop
  <2>2. Key(pc) \in Keys  BY <1>1, <1>3, <2>1 DEF Key, Keys, Steps, EmitStatus, StepStatus
  <2> QED  BY <2>2, KernelKeys
<1>5. EmitStatus[pc] \in Statuses  BY DEF EmitStatus, Statuses, Transitions
<1>6. \A s \in DOMAIN Rows(pc) : Rows(pc)[s] \in Statuses
  BY DEF Rows, StepStatus, Statuses, Transitions
<1>7. Proof(pc) \subseteq [step : StepIds, at : Int, digest : Digests]
  <2>1. capturedAt \in Int  BY KernelConstants DEF KernelTypeOK
  <2>2. content \in Digests /\ "result" \in Digests  BY DEF KernelTypeOK, Digests
  <2>3. pc = "stepComplete" => node \in StepIds  BY <1>3 DEF InLoop
  <2>4. \/ Proof(pc) = {}
        \/ Proof(pc) = {[step |-> n, at |-> capturedAt, digest |-> "result"]}
        \/ pc = "stepComplete" /\ Proof(pc) = {[step |-> node, at |-> capturedAt, digest |-> content]}
    BY <1>2 DEF Proof
  <2> QED  BY <1>1, <2>1, <2>2, <2>3, <2>4
<1> QED  BY <1>4, <1>5, <1>6, <1>7

\* A ledger write of well-typed rows leaves well-typed rows.
LEMMA WriteTypes ==
    ASSUME LedgerTypeOK, NEW w, Write(w), w.key \in EventKeys, w.status \in Statuses,
           \A s \in DOMAIN w.rows : w.rows[s] \in Statuses,
           w.proof \subseteq [step : StepIds, at : Int, digest : Digests],
           w.outcome \in Terminal \cup {"none"}
    PROVE  LedgerTypeOK'
<1>1. CASE UNCHANGED ledger
  BY <1>1 DEF ledger, LedgerTypeOK
<1>2. CASE Commit(w)
  BY <1>2 DEF Commit, LedgerTypeOK
<1> QED  BY <1>1, <1>2 DEF Write

\* Every step keeps the types.
LEMMA KernelTypeStep == KernelInv /\ KernelTypeOK /\ [Next]_vars => KernelTypeOK'
<1> SUFFICES ASSUME KernelInv, KernelTypeOK, [Next]_vars PROVE KernelTypeOK'
  OBVIOUS
<1>0. KernelInv'
  BY ControlSteps, EmitStep, EmitJournalStep, FinishStep, DecideStep, EnvironmentStep DEF Next, Run
<1>1. pc' \in Steps /\ node' \in 1..4 /\ committed' \in BOOLEAN /\ decision' \in {"none", "RESUME", "CANCEL"}
      /\ answers' \in [Calls -> {"none", "RESUME", "CANCEL"}]
  BY <1>0 DEF KernelInv, ControlTypeOK
<1>2. LedgerTypeOK'
  <2>1. CASE Emit
    <3>1. Write(EmitWrite(pc)) /\ pc \in DOMAIN EmitStatus  BY <2>1 DEF Emit
    <3>2. EmitWrite(pc).outcome \in Terminal \cup {"none"}  BY DEF EmitWrite
    <3> QED  BY <3>1, <3>2, EmitWriteTypes, WriteTypes DEF KernelTypeOK, EmitWrite
  <2>2. CASE FinishTask
    <3>1. UNCHANGED ledger \/ Write(Complete)  BY <2>2 DEF FinishTask, Finish
    <3>2. <<"finish", 0>> \in EventKeys  BY KernelKeys DEF Keys, Steps
    <3>3. CASE UNCHANGED ledger  BY <3>3 DEF KernelTypeOK, LedgerTypeOK, ledger
    <3> QED  BY <3>1, <3>2, <3>3, WriteTypes DEF KernelTypeOK, Complete, Terminal, Statuses, Transitions
  <2>3. CASE FailUnverified
    <3>1. Write(Failure)  BY <2>3 DEF FailUnverified
    <3>2. FailedKey \in EventKeys  BY KernelKeys DEF Keys, FailedKey
    <3> QED  BY <3>1, <3>2, WriteTypes
         DEF KernelTypeOK, Failure, Refused, Complete, Terminal, Statuses, Transitions
  <2>4. CASE Effect
    BY <2>4 DEF Effect, RecordEffect, KernelTypeOK, LedgerTypeOK
  <2>5. CASE Accept \/ EmitJournal \/ Boundary \/ Unserved \/ LoopEnd \/ Await \/ ReadRepository \/ Judge
             \/ RefuseCompletion \/ FinishJournal \/ Crash \/ Change \/ UNCHANGED vars
             \/ \E c \in Calls : Peek(c) \/ Resolve(c)
    <3>1. UNCHANGED ledger
      BY <2>5 DEF Accept, EmitJournal, Boundary, Unserved, LoopEnd, Await, ReadRepository, Judge,
         RefuseCompletion, Refuse, FinishJournal, Crash, Change, vars, Peek, Resolve
    <3> QED  BY <3>1 DEF KernelTypeOK, LedgerTypeOK, ledger
  <2> QED  BY <2>1, <2>2, <2>3, <2>4, <2>5 DEF Next, Run
<1>3. recipe' = recipe
  BY DEF Next, Run, Accept, Emit, EmitJournal, Boundary, Unserved, LoopEnd, Await, ReadRepository, Judge,
     FinishTask, RefuseCompletion, FailUnverified, FinishJournal, Peek, Resolve, Effect, Crash, Change, vars, workflow
<1>4. capturedAt' \in Times \cup {CreatedAt} /\ finishAt' \in Times \cup {CreatedAt}
      /\ content' \in {"none", "approved", "drifted"}
  BY DEF KernelTypeOK, Next, Run, Accept, Emit, EmitJournal, Boundary, Unserved, LoopEnd, Await, ReadRepository, Judge,
     FinishTask, RefuseCompletion, FailUnverified, FinishJournal, Peek, Resolve, Effect, Crash, Change, vars, workflow
<1>5. result' \in Terminal \cup {"none"}
  <2>1. CASE EmitJournal
    <3>1. pc' = "done" => pc \in {"cancel", "cancelWait", "fail"}
      BY <2>1, EmitOrder DEF EmitJournal
    <3> QED  BY <2>1, <3>1 DEF EmitJournal, EmitStatus, Terminal, KernelTypeOK
  <2>2. CASE FinishTask
    BY <2>2 DEF FinishTask, FinishResult, ReadOutcome, Complete, KernelTypeOK, LedgerTypeOK, Terminal
  <2>3. CASE FailUnverified
    BY <2>3 DEF FailUnverified, Failure, Refused, Complete, Terminal
  <2>4. CASE Accept \/ Emit \/ Boundary \/ Unserved \/ LoopEnd \/ Await \/ ReadRepository \/ Judge
             \/ RefuseCompletion \/ FinishJournal \/ Effect \/ Crash \/ Change \/ UNCHANGED vars
             \/ \E c \in Calls : Peek(c) \/ Resolve(c)
    <3>1. result' = result
      BY <2>4 DEF Accept, Emit, Boundary, Unserved, LoopEnd, Await, ReadRepository, Judge,
         RefuseCompletion, FinishJournal, Effect, Crash, Change, vars, Peek, Resolve, workflow
    <3> QED  BY <3>1 DEF KernelTypeOK
  <2> QED  BY <2>1, <2>2, <2>3, <2>4 DEF Next, Run
<1>6. calls' \in [Calls -> {"sent", "resolving", "ended"}]
  BY DEF KernelTypeOK, Next, Run, Accept, Emit, EmitJournal, Boundary, Unserved, LoopEnd, Await, ReadRepository, Judge,
     FinishTask, RefuseCompletion, FailUnverified, FinishJournal, Peek, Resolve, Effect, Crash, Change, vars, handlers
<1>7. /\ refusals' = refusals \/ refusals' \in SUBSET {"membership", "release"}
      /\ crashes' = crashes \/ (crashes < MaxCrashes /\ crashes' = crashes + 1)
  BY DEF Next, Run, Accept, Emit, EmitJournal, Boundary, Unserved, LoopEnd, Await,
     ReadRepository, Judge, FinishTask, RefuseCompletion, FailUnverified, FinishJournal, Peek, Resolve, Effect,
     Crash, Change, vars, world
<1>8. refusals' \subseteq {"membership", "release"} /\ crashes' \in 0..MaxCrashes
  <2>1. refusals \subseteq {"membership", "release"} /\ crashes \in 0..MaxCrashes  BY DEF KernelTypeOK
  <2>2. refusals' \subseteq {"membership", "release"}  BY <1>7, <2>1
  <2>3. crashes' \in 0..MaxCrashes  BY <1>7, <2>1, KernelConstants
  <2> QED  BY <2>2, <2>3
<1> QED  BY <1>1, <1>2, <1>3, <1>4, <1>5, <1>6, <1>8 DEF KernelTypeOK

\* Every row and journal entry of a task keeps its type (KernelTypeOK), for any
\* recipes, clock readings, callers, operations and number of crashes.
THEOREM KernelTypes == Spec => []KernelTypeOK
<1>1. Init => KernelTypeOK
  <2> SUFFICES ASSUME Init PROVE KernelTypeOK  OBVIOUS
  <2>1. LedgerTypeOK  BY DEF Init, LedgerInit, LedgerTypeOK
  <2>2. committed \in BOOLEAN  BY Zenon DEF Init
  <2>3. recipe \in Recipes /\ pc \in Steps /\ node \in 1..4  BY DEF Init, Steps
  <2>4. /\ capturedAt \in Times \cup {CreatedAt} /\ finishAt \in Times \cup {CreatedAt}
        /\ content = "none" /\ result = "none" /\ decision = "none"
        /\ calls \in [Calls -> {"sent", "resolving", "ended"}]
        /\ answers \in [Calls -> {"none", "RESUME", "CANCEL"}]
        /\ refusals \subseteq {"membership", "release"}
    BY DEF Init
  <2>5. crashes \in 0..MaxCrashes  BY KernelConstants DEF Init
  <2> QED  BY <2>1, <2>2, <2>3, <2>4, <2>5 DEF KernelTypeOK
<1> QED  BY <1>1, KernelTypeStep, KernelInvariant, PTL DEF Spec

-----------------------------------------------------------------------------
(***************************************************************************)
(* The outcome that the workflow returns.                                  *)
(***************************************************************************)

\* The outcomes row is written with the terminal status and agrees with it.
OutcomeOfTask == outcome = IF task \in Terminal THEN task ELSE "none"

\* Each write that ends a task leaves its event and its status for good.
EndingEvents ==
    /\ <<"cancel", 0>> \in events => task = "CANCELLED"
    /\ <<"fail", 0>> \in events => task = "FAILED"
    /\ <<"finish", 0>> \in events => task = "COMPLETED"
    /\ FailedKey \in events => task = "FAILED"

\* What the handler holds as its result once it may answer.
ResultOfTask ==
    (committed /\ pc \in {"finish", "unverified"}) \/ pc = "done" =>
        result = task /\ task \in Terminal

DurableInv == OutcomeOfTask /\ EndingEvents /\ ResultOfTask

\* A write of the run handler commits the outcome that its status names.
LEMMA EmitOutcome ==
    ASSUME KernelInv, DurableInv, Emit
    PROVE  DurableInv'
<1>1. /\ UNCHANGED pc /\ pc \in DOMAIN EmitStatus /\ pc \notin {"finish", "unverified", "done"}
  BY DEF Emit, EmitStatus
<1>2. CASE UNCHANGED ledger
  BY <1>1, <1>2 DEF DurableInv, OutcomeOfTask, EndingEvents, ResultOfTask, ledger
<1>3. CASE ~UNCHANGED ledger
  <2>1. /\ Key(pc) \notin events /\ MayWrite(EmitWrite(pc)) /\ Commit(EmitWrite(pc))
    BY <1>3 DEF Emit, Write, EmitWrite
  <2>2. /\ task \notin Terminal /\ task' = EmitStatus[pc] /\ events' = events \cup {Key(pc)}
        /\ outcome' = IF EmitStatus[pc] \in Terminal THEN EmitStatus[pc] ELSE outcome
    BY <1>1, <2>1 DEF MayWrite, Commit, EmitWrite, Terminal
  <2>3. OutcomeOfTask'
    BY <2>2 DEF DurableInv, OutcomeOfTask
  <2>4. /\ Key(pc) = <<"cancel", 0>> => EmitStatus[pc] = "CANCELLED"
        /\ Key(pc) = <<"fail", 0>> => EmitStatus[pc] = "FAILED"
        /\ Key(pc) # <<"finish", 0>> /\ Key(pc) # FailedKey
    BY <1>1 DEF Key, FailedKey, EmitStatus
  <2>5. EndingEvents'
    BY <2>2, <2>4 DEF DurableInv, EndingEvents, Terminal
  <2> QED  BY <1>1, <2>3, <2>5 DEF DurableInv, ResultOfTask
<1> QED  BY <1>2, <1>3

\* The completion returns what it found or committed; so does its refusal.
LEMMA FinishOutcome ==
    ASSUME KernelInv, DurableInv, FinishTask \/ FailUnverified
    PROVE  DurableInv'
<1>1. pc' = pc /\ pc \in {"finish", "unverified"}
  BY DEF FinishTask, FailUnverified
<1>2. CASE FinishTask /\ ReadOutcome # "none"
  <2>1. UNCHANGED ledger /\ result' = ReadOutcome
    BY <1>2 DEF FinishTask, Finish, FinishResult
  <2>2. ReadOutcome = task /\ task \in Terminal
    BY <1>2 DEF DurableInv, OutcomeOfTask, ReadOutcome, Terminal
  <2> QED  BY <1>1, <2>1, <2>2 DEF DurableInv, OutcomeOfTask, EndingEvents, ResultOfTask, ledger
<1>3. CASE FinishTask /\ ReadOutcome = "none"
  <2>1. task \notin Terminal /\ outcome = "none"
    BY <1>3 DEF DurableInv, OutcomeOfTask, ReadOutcome, Terminal
  <2>2. <<"finish", 0>> \notin events
    BY <2>1 DEF DurableInv, EndingEvents, Terminal
  <2>3. Commit(Complete) /\ result' = "COMPLETED"
    BY <1>3, <2>2 DEF FinishTask, Finish, FinishResult, Write, Complete
  <2>4. task' = "COMPLETED" /\ outcome' = "COMPLETED" /\ events' = events \cup {<<"finish", 0>>}
    BY <2>3 DEF Commit, Complete
  <2> QED  BY <1>1, <2>1, <2>3, <2>4
       DEF DurableInv, OutcomeOfTask, EndingEvents, ResultOfTask, Terminal, FailedKey
<1>4. CASE FailUnverified /\ FailedKey \in events
  <2>1. UNCHANGED ledger /\ result' = "FAILED"
    BY <1>4 DEF FailUnverified, Write, Failure, Refused, Complete
  <2> QED  BY <1>1, <1>4, <2>1
       DEF DurableInv, OutcomeOfTask, EndingEvents, ResultOfTask, ledger, Terminal
<1>5. CASE FailUnverified /\ FailedKey \notin events
  <2>1. MayWrite(Failure) /\ Commit(Failure) /\ result' = "FAILED"
    BY <1>5 DEF FailUnverified, Write, Failure, Refused, Complete
  <2>2. task \notin Terminal
    BY <2>1 DEF MayWrite, Terminal
  <2>3. task' = "FAILED" /\ outcome' = "FAILED" /\ events' = events \cup {FailedKey}
    BY <2>1 DEF Commit, Failure, Refused, Complete
  <2> QED  BY <1>1, <2>1, <2>2, <2>3
       DEF DurableInv, OutcomeOfTask, EndingEvents, ResultOfTask, Terminal, FailedKey
<1> QED  BY <1>2, <1>3, <1>4, <1>5

\* The steps between two ledger writes.
LEMMA MoveOutcome ==
    ASSUME KernelInv, DurableInv,
           \/ Accept \/ EmitJournal \/ Boundary \/ Unserved \/ LoopEnd \/ Await \/ ReadRepository \/ Judge
           \/ RefuseCompletion \/ FinishJournal \/ Effect \/ Crash \/ Change \/ UNCHANGED vars
           \/ \E c \in Calls : Peek(c) \/ Resolve(c)
    PROVE  DurableInv'
<1>1. UNCHANGED <<task, events, outcome>>
  BY DEF Accept, EmitJournal, Boundary, Unserved, LoopEnd, Await, ReadRepository, Judge,
     RefuseCompletion, Refuse, FinishJournal, Effect, RecordEffect, Crash, Change, Peek, Resolve, vars, ledger
<1>2. OutcomeOfTask' /\ EndingEvents'
  BY <1>1 DEF DurableInv, OutcomeOfTask, EndingEvents
<1>3. ResultOfTask'
  <2>1. CASE EmitJournal
    <3>1. pc \in DOMAIN EmitStatus /\ committed /\ pc' = AfterEmit(pc) /\ committed' = FALSE
          /\ result' = IF pc' = "done" THEN EmitStatus[pc] ELSE result
      BY <2>1 DEF EmitJournal
    <3>2. pc' = "done" => pc \in {"cancel", "cancelWait", "fail"} /\ Key(pc) \in events
      BY <3>1, EmitOrder DEF KernelInv, CommittedHasEvent
    <3>3. pc' = "done" => task = EmitStatus[pc] /\ task \in Terminal
      BY <3>2 DEF DurableInv, EndingEvents, Key, StepStatus, EmitStatus, Terminal
    <3> QED  BY <1>1, <3>1, <3>3 DEF ResultOfTask
  <2>2. CASE FinishJournal
    BY <1>1, <2>2 DEF FinishJournal, DurableInv, ResultOfTask
  <2>3. CASE Accept \/ Boundary \/ Unserved \/ LoopEnd \/ Await \/ ReadRepository \/ Judge \/ RefuseCompletion
    <3>1. pc' # "done"
      BY <2>3 DEF Accept, Boundary, NextNode, Unserved, LoopEnd, Await, AfterWait, ReadRepository, Judge,
         RefuseCompletion
    <3>2. ~committed'
      BY <2>3 DEF KernelInv, CommittedHasEvent, EmitStatus, Accept, Boundary, Unserved, LoopEnd, Await,
         ReadRepository, Judge, RefuseCompletion
    <3> QED  BY <3>1, <3>2 DEF ResultOfTask
  <2>4. CASE Effect \/ Crash \/ Change \/ UNCHANGED vars \/ \E c \in Calls : Peek(c) \/ Resolve(c)
    <3>1. /\ result' = result
          /\ \/ pc' = pc /\ committed' = committed
             \/ pc' # "done" /\ committed' = FALSE
             \/ pc' = pc /\ committed' = FALSE
      BY <2>4 DEF Effect, Crash, Change, Peek, Resolve, vars, workflow
    <3> QED  BY <1>1, <3>1 DEF DurableInv, ResultOfTask
  <2> QED  BY <2>1, <2>2, <2>3, <2>4
<1> QED  BY <1>2, <1>3 DEF DurableInv

LEMMA DurableInvariant == Spec => []DurableInv
<1>1. Init => DurableInv
  BY DEF Init, LedgerInit, DurableInv, OutcomeOfTask, EndingEvents, ResultOfTask, Terminal
<1>2. KernelInv /\ DurableInv /\ [Next]_vars => DurableInv'
  BY EmitOutcome, FinishOutcome, MoveOutcome DEF Next, Run
<1> QED  BY <1>1, <1>2, KernelInvariant, PTL DEF Spec

\* The outcome a finished run returns is the status of the tasks row and what
\* readOutcome finds, whichever attempt committed it (ResultIsDurable).
THEOREM KernelResultIsDurable == Spec => []ResultIsDurable
<1>1. DurableInv => ResultIsDurable
  BY DEF DurableInv, OutcomeOfTask, ResultOfTask, ResultIsDurable, ReadOutcome, Terminal
<1> QED  BY <1>1, DurableInvariant, PTL

-----------------------------------------------------------------------------
(***************************************************************************)
(* What a cancelled task did.                                              *)
(***************************************************************************)

BeforeLoop == {"accept", "create", "intent", "compile", "ready", "start"}

\* A step that is over, and one that was not begun.  The wait of TaskWorkflow
\* has no row.
Over(s)  == steps[s] = "COMPLETED" \/ (Legacy /\ s = 2 /\ steps[s] = "none")
Fresh(s) == steps[s] \in {"READY", "none"}

LegacyWait ==
    Legacy => steps[2] = "none" /\ (pc \in {"stepStart", "stepComplete"} => node # 2)

\* A step whose completion committed stays completed, and the loop is at the
\* journal entry of that completion or beyond.
CompletedSteps ==
    \A n \in 1..3 : <<"stepComplete", n>> \in events =>
        steps[n] = "COMPLETED" /\ (node > n \/ (node = n /\ pc = "stepComplete"))

\* The steps behind the loop are over, those ahead of it are fresh, and so is
\* the current one at the boundary where a cancellation is looked for.
StepsFollowLoop ==
    /\ pc \in BeforeLoop => node = 1 /\ \A s \in 1..3 : Fresh(s)
    /\ pc \in InLoop \cup {"boundary"} =>
          \A s \in 1..3 : (s < node => Over(s)) /\ (s > node => Fresh(s))
    /\ pc \in {"boundary", "cancel"} /\ node <= 3 => Fresh(node)

PrefixInv ==
    /\ ~Canary => LegacyWait /\ CompletedSteps /\ StepsFollowLoop
    /\ Canary => task # "CANCELLED" /\ pc \notin {"cancel", "cancelWait"}
    /\ CancelledDidPrefix

\* The rows that a write inside the loop changes: the current step's only.
LEMMA LoopRows ==
    ASSUME KernelInv, pc \in DOMAIN EmitStatus
    PROVE  /\ pc \in InLoop => DOMAIN Rows(pc) \subseteq {node}
           /\ pc \notin InLoop /\ pc # "compile" => DOMAIN Rows(pc) = {}
           /\ pc = "compile" => \A s \in DOMAIN Rows(pc) : Rows(pc)[s] = "READY"
           /\ pc = "cancel" => DOMAIN Rows(pc) = {}
           /\ pc = "cancelWait" => \A s \in DOMAIN Rows(pc) : Rows(pc)[s] = "CANCELLED"
           /\ pc = "stepComplete" /\ ~(Legacy /\ Operation = "WAIT_FOR_EVENT") =>
                 node \in DOMAIN Rows(pc) /\ Rows(pc)[node] = "COMPLETED"
           /\ Legacy /\ Operation = "WAIT_FOR_EVENT" => DOMAIN Rows(pc) = {}
BY DEF Rows, StepStatus, EmitStatus, InLoop

\* A ledger write keeps the steps in step with the loop.
LEMMA EmitPrefix ==
    ASSUME KernelInv, PrefixInv, Emit
    PROVE  PrefixInv'
<1>0. /\ UNCHANGED <<recipe, pc, node>> /\ pc \in DOMAIN EmitStatus
      /\ recipe \in DOMAIN Plans /\ node \in 1..4 /\ StepIds = 1..3
  BY EmitCommits, KernelConstants DEF KernelInv, ControlTypeOK
<1>1. CASE UNCHANGED ledger
  BY <1>0, <1>1 DEF PrefixInv, LegacyWait, CompletedSteps, StepsFollowLoop, Over, Fresh, CancelledDidPrefix,
     Canary, Legacy, Plan, ledger
<1>2. CASE ~UNCHANGED ledger
  <2>1. /\ task \notin Terminal /\ task' = EmitStatus[pc] /\ events' = events \cup {Key(pc)}
        /\ \A s \in 1..3 : steps'[s] = IF s \in DOMAIN Rows(pc) THEN Rows(pc)[s] ELSE steps[s]
    BY <1>0, <1>2, EmitCommits
  <2>2. Canary => task' # "CANCELLED"
    BY <1>0, <2>1 DEF PrefixInv, EmitStatus
  <2>3. ASSUME ~Canary PROVE LegacyWait'
    <3> SUFFICES ASSUME Legacy PROVE steps'[2] = "none"
      BY <1>0, <2>3 DEF PrefixInv, LegacyWait, Legacy
    <3>1. steps[2] = "none"  BY <2>3 DEF PrefixInv, LegacyWait
    <3>2. Plan[2] = "WAIT_FOR_EVENT"  BY <1>0, PlanShape DEF Legacy, Plan
    <3>3. 2 \notin DOMAIN Rows(pc)
      <4>1. node = 2 => Operation = "WAIT_FOR_EVENT"  BY <3>2 DEF Operation
      <4>2. pc = "compile" => DOMAIN Rows(pc) = {}  BY DEF Rows, StepStatus
      <4> QED  BY <1>0, <4>1, <4>2, LoopRows
    <3> QED  BY <2>1, <3>1, <3>3
  <2>4. ASSUME ~Canary PROVE CompletedSteps'
    <3> SUFFICES ASSUME NEW n \in 1..3, <<"stepComplete", n>> \in events'
                 PROVE  steps'[n] = "COMPLETED" /\ (node > n \/ (node = n /\ pc = "stepComplete"))
      BY <1>0 DEF CompletedSteps
    <3>1. CASE <<"stepComplete", n>> \in events
      <4>1. steps[n] = "COMPLETED" /\ (node > n \/ (node = n /\ pc = "stepComplete"))
        BY <2>4, <3>1 DEF PrefixInv, CompletedSteps
      <4>2. Key(pc) \notin events  BY <1>2, EmitCommits
      <4>3. node # n
        BY <3>1, <4>1, <4>2 DEF Key, StepStatus
      <4>4. n \notin DOMAIN Rows(pc)
        <5>1. pc # "compile"
          BY <1>0, <2>4, <4>1, <4>3 DEF PrefixInv, StepsFollowLoop, BeforeLoop
        <5> QED  BY <1>0, <4>3, <5>1, LoopRows
      <4> QED  BY <2>1, <4>1, <4>4
    <3>2. CASE Key(pc) = <<"stepComplete", n>>
      <4>1. pc = "stepComplete" /\ node = n  BY <3>2 DEF Key, StepStatus
      <4>2. ~(Legacy /\ Operation = "WAIT_FOR_EVENT")
        BY <1>0, <2>4, <4>1, PlanShape DEF PrefixInv, LegacyWait, Legacy, Operation, Plan
      <4> QED  BY <1>0, <2>1, <4>1, <4>2, LoopRows
    <3> QED  BY <2>1, <3>1, <3>2
  <2>5. ASSUME ~Canary PROVE StepsFollowLoop'
    <3>1. pc \in BeforeLoop => \A s \in 1..3 : steps'[s] \in {"READY", "none"}
      BY <1>0, <2>1, <2>5, LoopRows DEF PrefixInv, StepsFollowLoop, Fresh, BeforeLoop, InLoop
    <3>2. pc \in InLoop => \A s \in 1..3 : s # node => steps'[s] = steps[s]
      BY <1>0, <2>1, LoopRows
    <3>3. pc = "cancel" /\ node <= 3 => steps'[node] = steps[node]
      BY <1>0, <2>1, LoopRows
    <3>4. pc # "boundary"  BY <1>0 DEF EmitStatus
    <3> QED  BY <1>0, <2>5, <3>1, <3>2, <3>3, <3>4
         DEF PrefixInv, StepsFollowLoop, Fresh, Over, Legacy
  <2>6. CancelledDidPrefix'
    <3> SUFFICES ASSUME EmitStatus[pc] = "CANCELLED"
                 PROVE  CancelledDidPrefix'
      BY <2>1 DEF CancelledDidPrefix
    <3>1. pc \in {"cancel", "cancelWait"}  BY <1>0 DEF EmitStatus
    <3>2. ~Canary  BY <3>1 DEF PrefixInv
    <3>3. PICK l \in 1..3 : Len(Plan) = l  BY <1>0, PlanShape DEF Plan
    <3>4. node \in 1..l  BY <1>0, <3>1, <3>3 DEF KernelInv, LoopIndex, InLoop
    <3>5. \A s \in 1..3 : (s < node => Over(s)) /\ (s > node => Fresh(s))
      BY <3>1, <3>2 DEF PrefixInv, StepsFollowLoop, InLoop
    <3>6. \A s \in 1..3 : s # node => steps'[s] = steps[s]
      BY <1>0, <2>1, <3>1, LoopRows DEF InLoop
    <3>7. steps'[node] \in {"READY", "CANCELLED", "none"}
      <4>1. CASE pc = "cancel"
        BY <1>0, <2>1, <3>2, <3>4, <4>1, LoopRows DEF PrefixInv, StepsFollowLoop, Fresh
      <4>2. CASE pc = "cancelWait"
        <5>1. Operation = "WAIT_FOR_EVENT"  BY <4>2 DEF KernelInv, WaitsAtWait
        <5>2. CASE Legacy
          BY <1>0, <2>1, <3>2, <3>4, <5>1, <5>2, PlanShape, LoopRows
             DEF PrefixInv, LegacyWait, Legacy, Operation, Plan
        <5>3. CASE ~Legacy
          BY <1>0, <2>1, <3>4, <4>2, <5>3 DEF Rows, StepStatus
        <5> QED  BY <5>2, <5>3
      <4> QED  BY <3>1, <4>1, <4>2
    <3>8. Plan' = Plan /\ Legacy' = Legacy  BY <1>0 DEF Plan, Legacy
    <3>9. \A s \in 1..l :
             /\ s < node => steps'[s] \in {"COMPLETED", IF Legacy THEN "none" ELSE "COMPLETED"}
             /\ s = node => steps'[s] \in {"READY", "CANCELLED", "none"}
             /\ s > node => steps'[s] \in {"READY", "none"}
      BY <3>3, <3>4, <3>5, <3>6, <3>7 DEF Over, Fresh
    <3> QED  BY <3>3, <3>4, <3>8, <3>9 DEF CancelledDidPrefix
  <2> QED  BY <1>0, <2>2, <2>3, <2>4, <2>5, <2>6 DEF PrefixInv, Canary
<1> QED  BY <1>1, <1>2

\* The completion and the steps that leave the ledger alone.
LEMMA MovePrefix ==
    ASSUME KernelInv, PrefixInv, [Next]_vars, ~Emit
    PROVE  PrefixInv'
<1>0. /\ recipe \in DOMAIN Plans /\ node \in 1..4 /\ StepIds = 1..3 /\ recipe' = recipe
  BY KernelConstants
     DEF KernelInv, ControlTypeOK, Next, Run, Accept, EmitJournal, Boundary, Unserved, LoopEnd, Await,
     ReadRepository, Judge, FinishTask, RefuseCompletion, FailUnverified, FinishJournal, Peek, Resolve, Effect,
     Crash, Change, vars, workflow
<1>1. CASE FinishTask \/ FailUnverified
  <2>1. UNCHANGED <<pc, node>> /\ pc \in {"finish", "unverified"}
    BY <1>1 DEF FinishTask, FailUnverified
  <2>2. UNCHANGED ledger \/ (/\ task' \in {"COMPLETED", "FAILED"}
                             /\ steps' = [s \in StepIds |-> steps[s]]
                             /\ \A n \in 1..3 : <<"stepComplete", n>> \in events' =>
                                   <<"stepComplete", n>> \in events)
    <3>1. CASE FinishTask
      BY <3>1 DEF FinishTask, Finish, Complete, Write, Commit
    <3>2. CASE FailUnverified
      BY <3>2 DEF FailUnverified, Failure, Refused, FailedKey, Complete, Write, Commit
    <3> QED  BY <1>1, <3>1, <3>2
  <2>3. CASE UNCHANGED ledger
    BY <1>0, <2>1, <2>3 DEF PrefixInv, LegacyWait, CompletedSteps, StepsFollowLoop, Over, Fresh,
       CancelledDidPrefix, Canary, Legacy, Plan, ledger
  <2>4. CASE ~UNCHANGED ledger
    <3>1. \A s \in 1..3 : steps'[s] = steps[s]  BY <1>0, <2>2, <2>4
    <3> QED  BY <1>0, <2>1, <2>2, <2>4, <3>1
         DEF PrefixInv, LegacyWait, CompletedSteps, StepsFollowLoop, Over, Fresh,
         CancelledDidPrefix, Canary, Legacy, InLoop, BeforeLoop
  <2> QED  BY <2>3, <2>4
<1>2. CASE EmitJournal
  <2>1. /\ UNCHANGED <<task, steps, events>> /\ pc \in DOMAIN EmitStatus /\ pc' = AfterEmit(pc)
        /\ node' = IF pc' = "boundary" /\ pc # "start" THEN node + 1 ELSE node
        /\ Key(pc) \in events
    BY <1>2 DEF EmitJournal, ledger, KernelInv, CommittedHasEvent
  <2>2. pc' \notin {"cancel", "cancelWait"}  BY <2>1, EmitOrder
  <2>3. CancelledDidPrefix'  BY <1>0, <2>1 DEF PrefixInv, CancelledDidPrefix, Plan, Legacy
  <2>4. ASSUME ~Canary PROVE LegacyWait' /\ CompletedSteps' /\ StepsFollowLoop'
    <3>1. /\ LegacyWait /\ CompletedSteps /\ StepsFollowLoop
          /\ Legacy' = Legacy /\ (Legacy => Plan[2] = "WAIT_FOR_EVENT")
      BY <1>0, <2>4, PlanShape DEF PrefixInv, Legacy, Plan
    <3>2. CASE pc \in BeforeLoop
      <4>1. pc' \in BeforeLoop \cup {"boundary"} /\ (pc' = "boundary" => pc = "start")
        BY <2>1, <3>2 DEF AfterEmit, BeforeLoop, EmitStatus
      <4>2. node = 1 /\ node' = 1 /\ \A s \in 1..3 : Fresh(s)
        BY <2>1, <3>1, <3>2, <4>1 DEF StepsFollowLoop
      <4> QED  BY <2>1, <3>1, <3>2, <4>1, <4>2
           DEF LegacyWait, CompletedSteps, StepsFollowLoop, Over, Fresh, BeforeLoop, InLoop
    <3>3. CASE pc \in {"stepComplete", "stepResume"} /\ pc' = "boundary"
      <4>1. node' = node + 1  BY <2>1, <3>3
      <4>2. Over(node)
        <5>1. CASE pc = "stepComplete"
          <6>1. node \in 1..3
            <7>1. PICK l \in 1..3 : Len(Plan) = l  BY <1>0, PlanShape DEF Plan
            <7>2. node <= l  BY <5>1, <7>1 DEF KernelInv, LoopIndex, InLoop
            <7> QED  BY <1>0, <7>2
          <6> QED  BY <2>1, <3>1, <5>1, <6>1 DEF CompletedSteps, Over, Key, StepStatus
        <5>2. CASE pc = "stepResume"
          <6>1. Legacy  BY <2>1, <3>3, <5>2 DEF AfterEmit
          <6>2. node = 2
            BY <1>0, <5>2, <6>1, PlanShape
               DEF KernelInv, WaitsAtWait, LoopIndex, InLoop, Operation, Plan, Legacy
          <6> QED  BY <3>1, <6>1, <6>2 DEF LegacyWait, Over
        <5> QED  BY <3>3, <5>1, <5>2
      <4>3. \A s \in 1..3 : (s < node => Over(s)) /\ (s > node => Fresh(s))
        BY <3>1, <3>3 DEF StepsFollowLoop, InLoop
      <4> QED  BY <1>0, <2>1, <3>1, <3>3, <4>1, <4>2, <4>3
           DEF LegacyWait, CompletedSteps, StepsFollowLoop, Over, Fresh, BeforeLoop, InLoop
    <3>4. CASE pc \in {"stepStart", "stepWait", "stepResume"} /\ pc' # "boundary"
      <4>1. node' = node /\ pc' \in {"stepWait", "await", "stepComplete"}
        BY <2>1, <2>4, <3>4 DEF AfterEmit
      <4>2. pc' = "stepComplete" /\ Legacy => node # 2
        <5>1. pc = "stepResume" => ~Legacy  BY <2>1, <3>4 DEF AfterEmit
        <5>2. pc' = "stepComplete" => pc \in {"stepStart", "stepResume"}  BY <2>1, EmitOrder
        <5> QED  BY <3>1, <5>1, <5>2 DEF LegacyWait
      <4> QED  BY <2>1, <3>1, <3>4, <4>1, <4>2
           DEF LegacyWait, CompletedSteps, StepsFollowLoop, Over, Fresh, BeforeLoop, InLoop
    <3>5. CASE pc \in {"evidence", "verify", "cancel", "cancelWait", "fail"}
      <4>1. node' = node /\ pc' \in {"verify", "judge", "finish", "done"}
        BY <2>1, <3>5 DEF AfterEmit
      <4> QED  BY <2>1, <3>1, <3>5, <4>1
           DEF LegacyWait, CompletedSteps, StepsFollowLoop, Over, Fresh, BeforeLoop, InLoop
    <3>6. pc = "stepComplete" => pc' = "boundary"  BY <2>1, <2>4, EmitOrder
    <3>7. pc \in BeforeLoop \cup {"stepStart", "stepWait", "stepResume", "stepComplete", "evidence", "verify",
                                   "cancel", "cancelWait", "fail"}
      BY <2>1 DEF EmitStatus, BeforeLoop
    <3>8. pc \in {"stepStart", "stepWait"} => pc' # "boundary"  BY <2>1, EmitOrder
    <3> QED  BY <3>2, <3>3, <3>4, <3>5, <3>6, <3>7, <3>8
  <2> QED  BY <1>0, <2>1, <2>2, <2>3, <2>4 DEF PrefixInv, Canary
<1>3. CASE Accept \/ Boundary \/ Unserved \/ LoopEnd \/ Await \/ ReadRepository \/ Judge
           \/ RefuseCompletion \/ FinishJournal
  <2>1. UNCHANGED <<task, steps, events, node>>
    BY <1>3 DEF Accept, Boundary, Unserved, LoopEnd, Await, ReadRepository, Judge,
         RefuseCompletion, Refuse, FinishJournal, ledger
  <2>2. CancelledDidPrefix'  BY <1>0, <2>1 DEF PrefixInv, CancelledDidPrefix, Plan, Legacy
  <2>3. Canary => pc' \notin {"cancel", "cancelWait"}
    <3>1. Canary => ~Await
      BY <1>0, PlanShape DEF Await, Canary, Plan, Operation, KernelInv, WaitsAtWait, LoopIndex, InLoop
    <3> QED  BY <1>3, <3>1 DEF Accept, Boundary, NextNode, Unserved, LoopEnd, ReadRepository, Judge,
         RefuseCompletion, FinishJournal
  <2>4. ASSUME ~Canary PROVE LegacyWait' /\ CompletedSteps' /\ StepsFollowLoop'
    <3>1. LegacyWait /\ CompletedSteps /\ StepsFollowLoop /\ Legacy' = Legacy
      BY <1>0, <2>4 DEF PrefixInv, Legacy
    <3>2. ~ReadRepository /\ ~Judge  BY <2>4 DEF ReadRepository, Judge, KernelInv, LoopIndex
    <3>3. CASE Accept
      BY <2>1, <3>1, <3>3
         DEF Accept, LegacyWait, CompletedSteps, StepsFollowLoop, Over, Fresh, BeforeLoop, InLoop
    <3>4. CASE Boundary
      <4>1. pc = "boundary" /\ pc' \in {"cancel", "stepWait", "stepStart"}
            /\ (Legacy /\ pc' = "stepStart" => node # 2)
        BY <1>0, <2>4, <3>4, PlanShape DEF Boundary, NextNode, Operation, Plan, Legacy
      <4> QED  BY <2>1, <3>1, <4>1
           DEF LegacyWait, CompletedSteps, StepsFollowLoop, Over, Fresh, BeforeLoop, InLoop
    <3>5. CASE Await
      <4>1. pc = "await" /\ pc' \in {"stepResume", "cancel", "cancelWait"} /\ (pc' = "cancel" => Legacy)
        BY <3>5 DEF Await, AfterWait
      <4>2. Legacy => node = 2
        BY <1>0, <4>1, PlanShape DEF KernelInv, WaitsAtWait, LoopIndex, InLoop, Operation, Plan, Legacy
      <4> QED  BY <2>1, <3>1, <4>1, <4>2
           DEF LegacyWait, CompletedSteps, StepsFollowLoop, Over, Fresh, BeforeLoop, InLoop
    <3>6. CASE Unserved \/ LoopEnd \/ RefuseCompletion \/ FinishJournal
      <4>1. pc \in {"boundary", "finish", "unverified"} /\ pc' \in {"rejected", "evidence", "unverified", "done"}
        BY <3>6 DEF Unserved, LoopEnd, RefuseCompletion, FinishJournal
      <4> QED  BY <2>1, <3>1, <4>1
           DEF LegacyWait, CompletedSteps, StepsFollowLoop, Over, Fresh, BeforeLoop, InLoop
    <3> QED  BY <1>3, <3>2, <3>3, <3>4, <3>5, <3>6
  <2> QED  BY <1>0, <2>1, <2>2, <2>3, <2>4 DEF PrefixInv, Canary
<1>4. CASE Effect \/ Crash \/ Change \/ UNCHANGED vars \/ \E c \in Calls : Peek(c) \/ Resolve(c)
  <2>1. /\ UNCHANGED <<task, steps, events, node>>
        /\ pc' = pc \/ (pc = "unverified" /\ pc' = "finish")
    BY <1>4 DEF Effect, RecordEffect, Crash, Change, Peek, Resolve, vars, workflow, ledger
  <2> QED  BY <1>0, <2>1 DEF PrefixInv, LegacyWait, CompletedSteps, StepsFollowLoop, Over, Fresh,
       CancelledDidPrefix, Canary, Legacy, Plan, InLoop, BeforeLoop
<1> QED  BY <1>1, <1>2, <1>3, <1>4 DEF Next, Run

\* A cancelled task completed the steps before its boundary and started none
\* after it, whenever the cancellation came (CancelledDidPrefix).
THEOREM KernelCancelledDidPrefix == Spec => []CancelledDidPrefix
<1>1. Init => PrefixInv
  <2> SUFFICES ASSUME Init PROVE PrefixInv  OBVIOUS
  <2>1. /\ pc = "accept" /\ node = 1 /\ task = "none" /\ events = {}
        /\ \A s \in 1..3 : steps[s] = "none"
    BY KernelConstants DEF Init, LedgerInit
  <2> QED  BY <2>1 DEF PrefixInv, LegacyWait, CompletedSteps, StepsFollowLoop, Fresh, InLoop, CancelledDidPrefix
<1>2. KernelInv /\ PrefixInv /\ [Next]_vars => PrefixInv'
  BY EmitPrefix, MovePrefix
<1>3. PrefixInv => CancelledDidPrefix  BY DEF PrefixInv
<1> QED  BY <1>1, <1>2, <1>3, KernelInvariant, PTL DEF Spec

=============================================================================
