----------------------------- MODULE KernelTask -----------------------------
(***************************************************************************)
(* One task of KernelWorkflowV1 or of the older TaskWorkflow: the durable  *)
(* run handler with its step loop, the signal and cancel handlers that     *)
(* resolve the "decision" promise, and the ledger of TaskLedger.           *)
(*                                                                         *)
(* A durable step (ctx.run) is two actions: the transaction commits, then  *)
(* Restate journals its result.  A worker that dies in between executes    *)
(* the step again.  Step outputs are pure functions of the objective and   *)
(* are not kept; a read of the clock is any value of Times, because        *)
(* attempts run on workers whose clocks differ and may be set back.        *)
(***************************************************************************)
EXTENDS TaskLedger

CONSTANTS
    Recipes,     \* recipes a submission may name
    Times,       \* clock readings
    CreatedAt,   \* intent.receivedAt, the task's createdAt
    MaxCrashes,  \* bound on the crashes between a commit and its journal entry
    Calls,       \* invocations of the signal and cancel handlers
    CallAction   \* Calls -> {"RESUME", "CANCEL"}

\* planTask: the operations of each recipe, in order.  taskWorkflow is the
\* fixed program of TaskWorkflow, whose wait is not a step of its own.
Plans ==
    [uppercase        |-> <<"UPPERCASE">>,
     uppercaseReverse |-> <<"UPPERCASE", "WAIT_FOR_EVENT", "REVERSE">>,
     repositoryRead   |-> <<"REPOSITORY_READ">>,
     taskWorkflow     |-> <<"UPPERCASE", "WAIT_FOR_EVENT", "REVERSE">>]

ASSUME KernelConstants ==
    /\ StepIds = 1..3
    /\ Recipes \subseteq DOMAIN Plans
    /\ Times \subseteq Int /\ CreatedAt \in Int
    /\ MaxCrashes \in Nat
    /\ CallAction \in [Calls -> {"RESUME", "CANCEL"}]

VARIABLES
    recipe,      \* the recipe of the compiled submission
    pc,          \* the step the run handler is at
    node,        \* index of the plan step in the loop
    committed,   \* the ledger write of pc committed, its result not journaled
    capturedAt,  \* capturedAt of the evidence
    finishAt,    \* occurredAt of the completion event
    content,     \* what repository.read found, judged against the approved digest
    result,      \* what the run handler returns
    decision,    \* the workflow promise "decision"
    calls,       \* progress of each signal or cancel invocation
    answers,     \* the decision each invocation reported to its caller
    refusals,    \* why the ledger would refuse to create the task now
    crashes

workflow == <<recipe, pc, node, committed, capturedAt, finishAt, content, result>>
handlers == <<decision, calls, answers>>
world    == <<refusals, crashes>>
vars     == <<ledger, workflow, handlers, world>>

Plan == Plans[recipe]

\* The operation of the current step.  executeFunction is pure, so its input
\* and output need no state here.
Operation == Plan[node]

Legacy   == recipe = "taskWorkflow"
Canary   == recipe = "repositoryRead"
Waits(r) == \E s \in 1..Len(Plans[r]) : Plans[r][s] = "WAIT_FOR_EVENT"

\* The ledger writes of run: the status each writes and, inside the step loop,
\* the status of the step row.
EmitStatus ==
    [create |-> "RECEIVED", intent |-> "RECEIVED", compile |-> "COMPILED",
     ready |-> "READY", start |-> "RUNNING",
     stepStart |-> "RUNNING", stepWait |-> "WAITING", stepResume |-> "RUNNING",
     stepComplete |-> "RUNNING", evidence |-> "RUNNING", verify |-> "VERIFYING",
     cancel |-> "CANCELLED", cancelWait |-> "CANCELLED", fail |-> "FAILED"]

StepStatus ==
    [stepStart |-> "RUNNING", stepWait |-> "WAITING", stepResume |-> "RUNNING",
     stepComplete |-> "COMPLETED", cancelWait |-> "CANCELLED"]

Steps == DOMAIN EmitStatus \cup
         {"accept", "boundary", "await", "read", "judge", "finish", "unverified",
          "done", "rejected"}

\* The event key of a write: the step loop numbers its keys.
Key(p) ==
    IF p = "cancelWait" THEN <<"cancel", 0>>
    ELSE <<p, IF p \in DOMAIN StepStatus THEN node ELSE 0>>

FailedKey == <<"verification-failed", 0>>
Keys      == (Steps \cup {"verification-failed"}) \X (0..3)

ASSUME KernelKeys == Keys \subseteq EventKeys

KernelTypeOK ==
    /\ LedgerTypeOK
    /\ recipe \in Recipes /\ pc \in Steps /\ node \in 1..4 /\ committed \in BOOLEAN
    /\ capturedAt \in Times \cup {CreatedAt} /\ finishAt \in Times \cup {CreatedAt}
    /\ content \in {"none", "approved", "drifted"}
    /\ result \in Terminal \cup {"none"}
    /\ decision \in {"none", "RESUME", "CANCEL"}
    /\ calls \in [Calls -> {"sent", "resolving", "ended"}]
    /\ answers \in [Calls -> {"none", "RESUME", "CANCEL"}]
    /\ refusals \subseteq {"membership", "release"} /\ crashes \in 0..MaxCrashes

Init ==
    /\ LedgerInit
    /\ recipe \in Recipes /\ pc = "accept" /\ node = 1 /\ committed = FALSE
    /\ capturedAt = CreatedAt /\ finishAt = CreatedAt /\ content = "none" /\ result = "none"
    /\ decision = "none" /\ calls = [c \in Calls |-> "sent"]
    /\ answers = [c \in Calls |-> "none"]
    /\ refusals \in SUBSET {"membership", "release"} /\ crashes = 0

-----------------------------------------------------------------------------
(***************************************************************************)
(* The run handler.                                                        *)
(***************************************************************************)

\* The submission is compiled.  KernelWorkflowV1 refuses one from its future.
Accept ==
    /\ pc = "accept"
    /\ \E t \in Times : pc' = IF ~Legacy /\ CreatedAt > t THEN "rejected" ELSE "create"
    /\ UNCHANGED <<ledger, recipe, node, committed, capturedAt, finishAt, content, result,
                   handlers, world>>

\* Step rows of a write.  The plan's steps are inserted with PLAN_COMPILED;
\* TaskWorkflow inserts each of its two steps when it starts.
Rows(p) ==
    CASE p = "compile" /\ ~Legacy -> [s \in 1..Len(Plan) |-> "READY"]
      [] p \in DOMAIN StepStatus /\ ~(Legacy /\ Operation = "WAIT_FOR_EVENT")
            -> [s \in {node} |-> StepStatus[p]]
      [] OTHER -> [s \in {} |-> "none"]

\* Evidence of a write: the tool receipt of the canary, or the result.
Proof(p) ==
    CASE p = "evidence" -> {[step |-> Len(Plan), at |-> capturedAt, digest |-> "result"]}
      [] p = "stepComplete" /\ Canary -> {[step |-> node, at |-> capturedAt, digest |-> content]}
      [] OTHER -> {}

EmitWrite(p) ==
    [key |-> Key(p), status |-> EmitStatus[p], rows |-> Rows(p), proof |-> Proof(p),
     outcome |-> IF EmitStatus[p] \in Terminal THEN EmitStatus[p] ELSE "none"]

\* emit(key, ...): the ledger write of the step the handler is at.  The task
\* is created by an active member on the release its binding names.
Emit ==
    /\ pc \in DOMAIN EmitStatus /\ ~committed
    /\ task = "none" => refusals = {}
    /\ Write(EmitWrite(pc))
    /\ committed' = TRUE
    /\ UNCHANGED <<recipe, pc, node, capturedAt, finishAt, content, result, handlers, world>>

\* Where the handler goes after the ledger write at p.
AfterEmit(p) ==
    CASE p = "create"       -> IF Legacy THEN "compile" ELSE "intent"
      [] p = "intent"       -> "compile"
      [] p = "compile"      -> "ready"
      [] p = "ready"        -> "start"
      [] p = "stepStart"    -> CASE Operation = "WAIT_FOR_EVENT" -> "stepWait"
                                 [] Canary -> "read"
                                 [] OTHER -> "stepComplete"
      [] p = "stepWait"     -> "await"
      [] p = "stepResume"   -> IF Legacy THEN "boundary" ELSE "stepComplete"
      [] p = "stepComplete" -> IF Canary THEN "verify" ELSE "boundary"
      [] p = "evidence"     -> "verify"
      [] p = "verify"       -> IF Canary THEN "judge" ELSE "finish"
      [] p = "start"        -> "boundary"
      [] OTHER              -> "done"

EmitJournal ==
    /\ pc \in DOMAIN EmitStatus /\ committed
    /\ pc' = AfterEmit(pc) /\ committed' = FALSE
    /\ node' = IF pc' = "boundary" /\ pc # "start" THEN node + 1 ELSE node
    /\ IF pc' = "finish" THEN finishAt' \in Times ELSE UNCHANGED finishAt
    /\ result' = IF pc' = "done" THEN EmitStatus[pc] ELSE result
    /\ UNCHANGED <<ledger, recipe, capturedAt, content, handlers, world>>

\* The head of the step loop: KernelWorkflowV1 peeks at the decision before
\* each step of a deterministic plan.
NextNode ==
    CASE ~Legacy /\ ~Canary /\ decision = "CANCEL" -> "cancel"
      [] Legacy /\ Operation = "WAIT_FOR_EVENT" -> "stepWait"
      [] OTHER -> "stepStart"

Boundary ==
    /\ pc = "boundary" /\ node <= Len(Plan)
    /\ pc' = NextNode
    /\ UNCHANGED <<ledger, recipe, node, committed, capturedAt, finishAt, content, result,
                   handlers, world>>

\* A worker without a canary configuration ends the handler.
Unserved ==
    /\ pc = "boundary" /\ Canary /\ node = 1
    /\ pc' = "rejected"
    /\ UNCHANGED <<ledger, recipe, node, committed, capturedAt, finishAt, content, result,
                   handlers, world>>

\* The loop is over: the evidence is stamped.
LoopEnd ==
    /\ pc = "boundary" /\ node > Len(Plan)
    /\ pc' = "evidence" /\ capturedAt' \in Times
    /\ UNCHANGED <<ledger, recipe, node, committed, finishAt, content, result, handlers, world>>

\* Mutant: the cancellation leaves the waiting step as it is.
AfterWaitNoStep == IF decision = "RESUME" THEN "stepResume" ELSE "cancel"

\* What the workflow does with the decision it waited for.
AfterWait ==
    IF decision = "RESUME" THEN "stepResume"
    ELSE IF Legacy THEN "cancel" ELSE "cancelWait"

\* await ctx.promise("decision").
Await ==
    /\ pc = "await" /\ decision # "none"
    /\ pc' = AfterWait
    /\ UNCHANGED <<ledger, recipe, node, committed, capturedAt, finishAt, content, result,
                   handlers, world>>

\* CapabilityServiceV1.repositoryRead: a receipt, or a terminal error that ends
\* the handler and writes nothing.
ReadRepository ==
    /\ pc = "read"
    /\ \/ /\ pc' = "stepComplete"
          /\ content' \in {"approved", "drifted"} /\ capturedAt' \in Times
       \/ pc' = "rejected" /\ UNCHANGED <<content, capturedAt>>
    /\ UNCHANGED <<ledger, recipe, node, committed, finishAt, result, handlers, world>>

\* verifyClaudeMdCheck: the workflow's own judgement of the receipt.
Judge ==
    /\ pc = "judge"
    /\ IF content = "approved"
       THEN pc' = "finish" /\ finishAt' \in Times
       ELSE pc' = "fail" /\ UNCHANGED finishAt
    /\ UNCHANGED <<ledger, recipe, node, committed, capturedAt, content, result, handlers, world>>

\* What the ledger re-derives before it commits COMPLETED: fresh evidence, one
\* compiled plan, its persisted steps and the evidence of the result step.
Verified ==
    /\ <<"compile", 0>> \in events
    /\ \A e \in evidence : CreatedAt <= e.at /\ e.at <= finishAt
    /\ \A s \in 1..Len(Plan) : steps[s] = "COMPLETED" \/ (Legacy /\ s < Len(Plan))
    /\ \E e \in evidence : e.step = Len(Plan) /\ e.digest = (IF Canary THEN "approved" ELSE "result")

Complete == [key |-> <<"finish", 0>>, status |-> "COMPLETED", rows |-> [s \in {} |-> "none"],
             proof |-> {}, outcome |-> "COMPLETED"]

Failure == Refused(Complete, FailedKey)

\* emit("complete", ...): Ledger.finish finds an outcome or commits COMPLETED.
FinishTask ==
    /\ pc = "finish" /\ ~committed
    /\ ReadOutcome # "none" \/ Verified
    /\ Finish(Complete)
    /\ result' = FinishResult(Complete)
    /\ committed' = TRUE
    /\ UNCHANGED <<recipe, pc, node, capturedAt, finishAt, content, handlers, world>>

\* The completion is not verified: its transaction rolls back ...
RefuseCompletion ==
    /\ pc = "finish" /\ ~committed /\ ~Verified
    /\ Refuse(Complete)
    /\ pc' = "unverified"
    /\ UNCHANGED <<recipe, node, committed, capturedAt, finishAt, content, result, handlers, world>>

\* ... and a second one commits FAILED, whatever effects came in between.
FailUnverified ==
    /\ pc = "unverified" /\ ~committed
    /\ Write(Failure)
    /\ result' = Failure.outcome
    /\ committed' = TRUE
    /\ UNCHANGED <<recipe, pc, node, capturedAt, finishAt, content, handlers, world>>

FinishJournal ==
    /\ pc \in {"finish", "unverified"} /\ committed
    /\ pc' = "done" /\ committed' = FALSE
    /\ UNCHANGED <<ledger, recipe, node, capturedAt, finishAt, content, result, handlers, world>>

-----------------------------------------------------------------------------
(***************************************************************************)
(* The signal and cancel handlers (decide).                                *)
(***************************************************************************)

\* decision.peek(): a decision already made is what the caller is told.
Peek(c) ==
    /\ calls[c] = "sent"
    /\ IF decision = "none"
       THEN calls' = [calls EXCEPT ![c] = "resolving"] /\ UNCHANGED answers
       ELSE calls' = [calls EXCEPT ![c] = "ended"] /\ answers' = [answers EXCEPT ![c] = decision]
    /\ UNCHANGED <<decision, ledger, workflow, world>>

\* Mutant: a resolve after the peek replaces the decision.
ResolvedLast(c) == CallAction[c]

\* decision.resolve(): Restate keeps the first value and refuses the second.
Resolved(c) == IF decision = "none" THEN CallAction[c] ELSE decision

Resolve(c) ==
    /\ calls[c] = "resolving"
    /\ decision' = Resolved(c)
    /\ calls' = [calls EXCEPT ![c] = "ended"]
    /\ answers' = [answers EXCEPT ![c] = decision']
    /\ UNCHANGED <<ledger, workflow, world>>

-----------------------------------------------------------------------------
(***************************************************************************)
(* The environment: effects recorded for the task, crashes, deployments    *)
(* and membership changes before the task exists.                          *)
(***************************************************************************)

Effect ==
    /\ \E r \in Receipts : RecordEffect(r)
    /\ UNCHANGED <<workflow, handlers, world>>

\* A step executed again starts from its beginning.
Crash ==
    /\ committed \/ pc = "unverified"
    /\ crashes < MaxCrashes
    /\ pc' = IF pc = "unverified" THEN "finish" ELSE pc
    /\ committed' = FALSE /\ crashes' = crashes + 1
    /\ UNCHANGED <<ledger, recipe, node, capturedAt, finishAt, content, result,
                   handlers, refusals>>

\* A membership ends or returns, or a worker of another release takes over.
Change ==
    /\ task = "none"
    /\ refusals' \in (SUBSET {"membership", "release"}) \ {refusals}
    /\ UNCHANGED <<ledger, workflow, handlers, crashes>>

Run ==
    \/ Accept \/ Emit \/ EmitJournal \/ Boundary \/ Unserved \/ LoopEnd
    \/ Await \/ ReadRepository \/ Judge
    \/ FinishTask \/ RefuseCompletion \/ FailUnverified \/ FinishJournal

Next ==
    \/ Run
    \/ \E c \in Calls : Peek(c) \/ Resolve(c)
    \/ Effect \/ Crash \/ Change

\* Restate retries the run handler until each step is journaled.  Signals,
\* confirmations and deployments may never come.
Spec == Init /\ [][Next]_vars /\ WF_vars(Run)

-----------------------------------------------------------------------------
(***************************************************************************)
(* Properties.                                                             *)
(***************************************************************************)

\* A COMPLETED task stands on verified rows for ever: every step of its plan
\* completed, evidence of the result step no older than the task and no newer
\* than its completion, and no external effect left unresolved, also when an
\* effect is recorded at the same time as the task completes.
CompletionIsBacked ==
    task = "COMPLETED" =>
        /\ \A s \in 1..Len(Plan) : steps[s] = "COMPLETED" \/ (Legacy /\ Plan[s] = "WAIT_FOR_EVENT")
        /\ \E e \in evidence : e.step = Len(Plan) /\ e.digest # "drifted"
        /\ \A e \in evidence : CreatedAt <= e.at /\ e.at <= finishAt
        /\ EffectsResolved

\* First decision wins (phase-4.md): what any caller of signal or cancel was
\* told is what the task does, whichever of them came first and whenever it
\* came.  A task without a wait may end before it sees a cancellation.
AnswersAreKept ==
    \A c \in Calls :
        /\ answers[c] = "CANCEL" /\ Waits(recipe) => task # "COMPLETED"
        /\ answers[c] = "RESUME" => task # "CANCELLED"

\* A cancelled task did a prefix of its plan (phase-4.md): the steps before the
\* boundary are completed, at most the waiting one is CANCELLED and the rest
\* were never started.
CancelledDidPrefix ==
    task = "CANCELLED" =>
        \E k \in 1..Len(Plan) :
            \A s \in 1..Len(Plan) :
                /\ s < k => steps[s] \in {"COMPLETED", IF Legacy THEN "none" ELSE "COMPLETED"}
                /\ s = k => steps[s] \in {"READY", "CANCELLED", "none"}
                /\ s > k => steps[s] \in {"READY", "none"}

\* The outcome the workflow returns is the one the ledger holds, also when the
\* attempt that committed it died and a later one answered.
ResultIsDurable ==
    pc = "done" => result = task /\ result = ReadOutcome

\* Once effects are settled for good, a created task that needs no decision, or
\* has one, ends; a handler ended by a terminal error is the exception.
EveryTaskEnds ==
    <>[]EffectsResolved =>
        (task # "none" /\ (decision # "none" \/ ~Waits(recipe))
            ~> pc = "done" \/ pc = "rejected")

=============================================================================
