----------------------------- MODULE GoldenTask -----------------------------
(***************************************************************************)
(* One task of GoldenTaskWorkflowV1: the durable run handler, the approve  *)
(* and cancel handlers that race with it, and the Postgres rows they share *)
(* (tasks, task_steps, task_events, approvals, capability_runs, outcomes,  *)
(* effect_receipts).                                                       *)
(*                                                                         *)
(* Each durable step (ctx.run) is two actions: its transaction commits,    *)
(* and then Restate journals its result.  A worker that dies in between    *)
(* executes the same step again with the same journaled inputs, which the  *)
(* stores absorb by the event key, the capability key or the existing row. *)
(*                                                                         *)
(* Two clocks: `now' is the worker's and Restate's, `now + skew' is the    *)
(* database's.  Time 0 is the policy evaluation (evaluatedAt), so an       *)
(* approval expires at Ttl.                                                *)
(***************************************************************************)
EXTENDS Integers

CONSTANTS
    Ttl,         \* ttlMs of the matching rule, in clock ticks
    Effects,     \* what the deployment's rules may say of this task
    Skews,       \* database clock minus worker clock
    MaxTime,     \* bound on the worker clock, outside a running timer
    MaxCrashes,  \* bound on the crashes between a commit and its journal entry
    Calls,       \* invocations of the approve and cancel handlers
    CallAction,  \* Calls -> {"GRANTED", "DENIED", "CANCEL"}
    CallActor    \* Calls -> People, the authenticated caller

People == {"principal", "approver"}

ASSUME GoldenConstants ==
    /\ Ttl \in Nat /\ Ttl > 0
    /\ Effects \subseteq {"ALLOW", "DENY", "APPROVAL_REQUIRED"}
    /\ Skews \subseteq Int
    /\ MaxTime \in Nat /\ MaxCrashes \in Nat
    /\ CallAction \in [Calls -> {"GRANTED", "DENIED", "CANCEL"}]
    /\ CallActor \in [Calls -> People]

VARIABLES
    pc,          \* the run handler: the durable step it is at
    committed,   \* that step's transaction committed, its result not journaled
    effect,      \* journaled decision of evaluate-policy
    resolution,  \* result of resolve-deadline
    timerAt,     \* when the durable timer of orTimeout fires
    finishAt,    \* finishAudit.at
    promise,     \* the workflow promise "approval" is resolved
    calls,       \* progress of each handler invocation
    task, step,  \* status columns of tasks and task_steps
    events,      \* event keys of task_events
    approval,    \* row of approvals with its resolution evidence
    run,         \* the capability_runs row exists
    outcome,     \* status of the outcomes row
    receipts,    \* dispositions recorded for an external effect of the task
    members,     \* people with an ACTIVE tenant membership
    now, skew, crashes

workflow == <<pc, committed, effect, resolution, timerAt, finishAt>>
handlers == <<promise, calls>>
rows     == <<task, step, events, approval, run, outcome, receipts>>
world    == <<members, now, skew, crashes>>
vars     == <<workflow, handlers, rows, world>>

Terminal == {"COMPLETED", "FAILED", "CANCELLED"}

\* assertTransition: the statuses that may follow each status.
Transitions ==
    [RECEIVED          |-> {"COMPILED", "FAILED", "CANCELLED"},
     COMPILED          |-> {"READY", "APPROVAL_REQUIRED", "FAILED", "CANCELLED"},
     READY             |-> {"RUNNING", "CANCELLED", "FAILED"},
     RUNNING           |-> {"WAITING", "APPROVAL_REQUIRED", "VERIFYING", "FAILED", "CANCELLED"},
     WAITING           |-> {"RUNNING", "FAILED", "CANCELLED"},
     APPROVAL_REQUIRED |-> {"READY", "RUNNING", "FAILED", "CANCELLED"},
     VERIFYING         |-> {"COMPLETED", "FAILED", "CANCELLED"},
     COMPLETED         |-> {},
     FAILED            |-> {},
     CANCELLED         |-> {}]

Statuses == DOMAIN Transitions

\* The steps of run that are ledger writes: the status and the step row each
\* writes ("" leaves the step row alone) and the step that follows.
Emits ==
    [create          |-> [status |-> "RECEIVED",          step |-> "",          next |-> "compile"],
     compile         |-> [status |-> "COMPILED",          step |-> "READY",     next |-> "evaluate"],
     deny            |-> [status |-> "FAILED",            step |-> "",          next |-> "done"],
     require         |-> [status |-> "APPROVAL_REQUIRED", step |-> "",          next |-> "wait"],
     rejectFailed    |-> [status |-> "FAILED",            step |-> "",          next |-> "done"],
     rejectCancelled |-> [status |-> "CANCELLED",         step |-> "",          next |-> "done"],
     approved        |-> [status |-> "READY",             step |-> "",          next |-> "start"],
     ready           |-> [status |-> "READY",             step |-> "",          next |-> "start"],
     start           |-> [status |-> "RUNNING",           step |-> "RUNNING",   next |-> "execute"],
     stepComplete    |-> [status |-> "RUNNING",           step |-> "COMPLETED", next |-> "verify"],
     verify          |-> [status |-> "VERIFYING",         step |-> "",          next |-> "finish"]]

Steps == DOMAIN Emits \cup
         {"evaluate", "record", "wait", "resolve", "execute", "receipt", "finish", "done", "rejected"}

NoApproval == [status |-> "none", reason |-> "", by |-> "", at |-> 0]
Pending    == [status |-> "PENDING", reason |-> "", by |-> "", at |-> 0]

Approvals ==
    [status : {"none", "PENDING", "GRANTED", "DENIED", "EXPIRED"},
     reason : {"", "HUMAN", "CANCELLED", "EXPIRED"},
     by : People \cup {""}, at : Int]

\* One row per table; every event key is a step that wrote the ledger.
GoldenTypeOK ==
    /\ pc \in Steps /\ committed \in BOOLEAN
    /\ effect \in Effects \cup {""}
    /\ resolution \in Approvals /\ approval \in Approvals
    /\ timerAt \in Nat /\ finishAt \in Nat /\ now \in Nat
    /\ promise \in BOOLEAN /\ run \in BOOLEAN
    /\ calls \in [Calls -> {"sent", "answered", "ended"}]
    /\ task \in Statuses \cup {"none"}
    /\ step \in {"none", "READY", "RUNNING", "COMPLETED"}
    /\ events \subseteq Steps \cup {"resolved"}
    /\ outcome \in {"none", "COMPLETED", "FAILED"}
    /\ receipts \subseteq {"UNRESOLVED", "CONFIRMED"}
    /\ members \subseteq People /\ skew \in Skews /\ crashes \in 0..MaxCrashes

Init ==
    /\ pc = "create" /\ committed = FALSE /\ effect = ""
    /\ resolution = NoApproval /\ timerAt = 0 /\ finishAt = 0
    /\ promise = FALSE /\ calls = [c \in Calls |-> "sent"]
    /\ task = "none" /\ step = "none" /\ events = {}
    /\ approval = NoApproval /\ run = FALSE /\ outcome = "none" /\ receipts = {}
    /\ members = People /\ now = 0 /\ skew \in Skews /\ crashes = 0

dbNow == now + skew

-----------------------------------------------------------------------------
(***************************************************************************)
(* The run handler.                                                        *)
(***************************************************************************)

\* Ledger.write.  A prior event of the same key has the same digest here,
\* because every input of the step is journaled, and is a no-op.  A refused
\* write throws and Restate retries the step: no transition.
LedgerWrite(key, e) ==
    IF key \in events
    THEN UNCHANGED rows
    ELSE /\ IF task = "none"
            THEN e.status = "RECEIVED" /\ "principal" \in members
            ELSE task # e.status => e.status \in Transitions[task]
         /\ task' = e.status
         /\ step' = IF e.step = "" THEN step ELSE e.step
         /\ events' = events \cup {key}
         /\ UNCHANGED <<approval, run, outcome, receipts>>

\* emit(key, ...): the ledger write of the step the handler is at.
Emit ==
    /\ pc \in DOMAIN Emits /\ ~committed
    /\ LedgerWrite(pc, Emits[pc])
    /\ committed' = TRUE
    /\ UNCHANGED <<pc, effect, resolution, timerAt, finishAt, handlers, world>>

\* Mutant: the timer fires one tick before the approval expires.
EmitJournalEarly ==
    /\ pc \in DOMAIN Emits /\ committed
    /\ pc' = Emits[pc].next /\ committed' = FALSE
    /\ timerAt' = IF pc' = "wait" THEN now + (IF Ttl - now > 1 THEN Ttl - now - 1 ELSE 1) ELSE timerAt
    /\ finishAt' = IF pc' = "finish" THEN now ELSE finishAt
    /\ UNCHANGED <<effect, resolution, handlers, rows, world>>

\* The next step after a ledger write, with the values its inputs journal:
\* the deadline of the approval timer and the audit time of the finish.
EmitJournal ==
    /\ pc \in DOMAIN Emits /\ committed
    /\ pc' = Emits[pc].next /\ committed' = FALSE
    /\ timerAt' = IF pc' = "wait" THEN now + (IF Ttl - now > 1 THEN Ttl - now ELSE 1) ELSE timerAt
    /\ finishAt' = IF pc' = "finish" THEN now ELSE finishAt
    /\ UNCHANGED <<effect, resolution, handlers, rows, world>>

\* evaluate-policy: the effect of the matching rule; it reads no row.
EvaluatePolicy ==
    /\ pc = "evaluate"
    /\ effect' \in Effects /\ pc' = "record"
    /\ UNCHANGED <<committed, resolution, timerAt, finishAt, handlers, rows, world>>

\* ApprovalStore.record: the members an unseen decision needs.
RecordAllowed ==
    /\ task = "COMPILED" /\ step = "READY"
    /\ "principal" \in members
    /\ effect = "APPROVAL_REQUIRED" => "approver" \in members

\* record-policy: the policy event and, when one is required, the PENDING row.
RecordPolicy ==
    /\ pc = "record" /\ ~committed
    /\ \/ "record" \in events /\ UNCHANGED rows
       \/ /\ "record" \notin events /\ RecordAllowed
          /\ approval' = IF effect = "APPROVAL_REQUIRED" THEN Pending ELSE approval
          /\ events' = events \cup {"record"}
          /\ UNCHANGED <<task, step, run, outcome, receipts>>
    /\ committed' = TRUE
    /\ UNCHANGED <<pc, effect, resolution, timerAt, finishAt, handlers, world>>

\* An ApprovalError of record is terminal: the handler ends and writes nothing.
RecordRejected ==
    /\ pc = "record" /\ ~committed
    /\ "record" \notin events /\ ~RecordAllowed
    /\ pc' = "rejected"
    /\ UNCHANGED <<committed, effect, resolution, timerAt, finishAt, handlers, rows, world>>

RecordJournal ==
    /\ pc = "record" /\ committed
    /\ pc' = IF effect = "DENY" THEN "deny"
             ELSE IF effect = "APPROVAL_REQUIRED" THEN "require" ELSE "ready"
    /\ committed' = FALSE
    /\ UNCHANGED <<effect, resolution, timerAt, finishAt, handlers, rows, world>>

\* Mutant: the wait has no timeout.
AwaitAnswer ==
    /\ pc = "wait" /\ promise
    /\ pc' = "resolve"
    /\ UNCHANGED <<committed, effect, resolution, timerAt, finishAt, handlers, rows, world>>

\* promise.get().orTimeout(timeout): the answer or the durable timer.
Await ==
    /\ pc = "wait"
    /\ promise \/ now >= timerAt
    /\ pc' = "resolve"
    /\ UNCHANGED <<committed, effect, resolution, timerAt, finishAt, handlers, rows, world>>

-----------------------------------------------------------------------------
(***************************************************************************)
(* ApprovalStore.finish, under the task's advisory lock.                   *)
(***************************************************************************)

Expired == dbNow >= Ttl

\* Mutant: an expiry is recorded with a reason the contract does not know.
ResolvedUnknownReason(action, actor) ==
    [status |-> IF Expired THEN "EXPIRED" ELSE "DENIED",
     reason |-> IF Expired THEN "DEADLINE" ELSE "HUMAN",
     by |-> actor, at |-> dbNow]

\* What finish makes of a PENDING row.  EXPIRE before the deadline leaves it.
Resolved(action, actor) ==
    LET cancelled == action = "CANCEL" \/ task = "CANCELLED"
    IN  [status |-> CASE Expired -> "EXPIRED"
                      [] ~Expired /\ ~cancelled /\ action = "GRANTED" -> "GRANTED"
                      [] OTHER -> "DENIED",
         reason |-> CASE Expired -> "EXPIRED"
                      [] ~Expired /\ cancelled -> "CANCELLED"
                      [] OTHER -> "HUMAN",
         by |-> actor, at |-> dbNow]

AwaitsAuthorization(action) ==
    action = "CANCEL" \/ task \in {"COMPILED", "APPROVAL_REQUIRED", "CANCELLED"}

\* Mutant: finish does not look at the status it read.
FinishAnyStatus(action, actor) ==
    IF approval.status = "none" \/ (action = "EXPIRE" /\ ~Expired)
    THEN UNCHANGED rows
    ELSE /\ AwaitsAuthorization(action) /\ dbNow >= 0
         /\ approval' = Resolved(action, actor)
         /\ events' = events \cup {"resolved"}
         /\ UNCHANGED <<task, step, run, outcome, receipts>>

\* The row after finish: unchanged when it is decided or not yet expired.  The
\* table's CHECK refuses a decision before the request (a database clock that lags):
\* the transaction throws and is retried.
Finish(action, actor) ==
    IF approval.status # "PENDING" \/ (action = "EXPIRE" /\ ~Expired)
    THEN UNCHANGED rows
    ELSE /\ AwaitsAuthorization(action) /\ dbNow >= 0
         /\ approval' = Resolved(action, actor)
         /\ events' = events \cup {"resolved"}
         /\ UNCHANGED <<task, step, run, outcome, receipts>>

\* Mutant: a timeout is taken for the decision, without reading the row.
ResolveByTimer ==
    /\ pc = "resolve" /\ ~committed
    /\ Finish("EXPIRE", "principal")
    /\ resolution' = IF promise THEN approval' ELSE [NoApproval EXCEPT !.status = "EXPIRED"]
    /\ committed' = TRUE
    /\ UNCHANGED <<pc, effect, timerAt, finishAt, handlers, world>>

\* resolve-deadline: expire, and read the authoritative decision.
ResolveDeadline ==
    /\ pc = "resolve" /\ ~committed
    /\ Finish("EXPIRE", "principal")
    /\ resolution' = approval'
    /\ committed' = TRUE
    /\ UNCHANGED <<pc, effect, timerAt, finishAt, handlers, world>>

\* Mutant: everything but a denial counts as a grant.
AfterDecisionLenient(r) ==
    IF r.status # "DENIED" THEN "approved"
    ELSE IF r.reason = "CANCELLED" THEN "rejectCancelled" ELSE "rejectFailed"

\* Where the handler goes with the decision it read.
AfterDecision(r) ==
    IF r.status = "GRANTED" THEN "approved"
    ELSE IF r.reason = "CANCELLED" THEN "rejectCancelled" ELSE "rejectFailed"

ResolveJournal ==
    /\ pc = "resolve" /\ committed
    /\ pc' = AfterDecision(resolution) /\ committed' = FALSE
    /\ UNCHANGED <<effect, resolution, timerAt, finishAt, handlers, rows, world>>

-----------------------------------------------------------------------------
\* callCapability: execution is pure; a CapabilityError (an objective beyond
\* the input schema's 16384 characters) is terminal for the handler, which ends
\* and writes nothing.
ExecuteCapability ==
    /\ pc = "execute"
    /\ pc' \in {"receipt", "rejected"}
    /\ UNCHANGED <<committed, effect, resolution, timerAt, finishAt, handlers, rows, world>>

\* CapabilityStore.record: the receipt is written once, and only for a running
\* step of a running task.
RecordReceipt ==
    /\ pc = "receipt" /\ ~committed
    /\ run \/ (task = "RUNNING" /\ step = "RUNNING")
    /\ run' = TRUE /\ committed' = TRUE
    /\ UNCHANGED <<pc, effect, resolution, timerAt, finishAt, handlers,
                   task, step, events, approval, outcome, receipts, world>>

ReceiptJournal ==
    /\ pc = "receipt" /\ committed
    /\ pc' = "stepComplete" /\ committed' = FALSE
    /\ UNCHANGED <<effect, resolution, timerAt, finishAt, handlers, rows, world>>

\* verifyTaskEvidence over the persisted rows, at finishAt.
Verified ==
    /\ task = "VERIFYING" /\ step = "COMPLETED" /\ run
    /\ effect # "DENY"
    /\ effect = "APPROVAL_REQUIRED" =>
          /\ approval.status = "GRANTED" /\ approval.reason = "HUMAN"
          /\ approval.by = "approver"
          /\ 0 <= approval.at /\ approval.at < Ttl
          /\ approval.at <= finishAt

\* assertResolvedEffects: an UNRESOLVED effect has its CONFIRMED receipt.
EffectsResolved == "UNRESOLVED" \in receipts => "CONFIRMED" \in receipts

\* VerificationStore.finish: an existing outcome is returned as it is; an unresolved
\* effect throws, and the step is retried until the effect is confirmed.
VerifyAndFinish ==
    /\ pc = "finish" /\ ~committed
    /\ IF outcome # "none"
       THEN UNCHANGED <<task, outcome>>
       ELSE /\ task = "VERIFYING" /\ EffectsResolved
            /\ outcome' = IF Verified THEN "COMPLETED" ELSE "FAILED"
            /\ task' = outcome'
    /\ committed' = TRUE
    /\ UNCHANGED <<pc, effect, resolution, timerAt, finishAt, handlers,
                   step, events, approval, run, receipts, world>>

FinishJournal ==
    /\ pc = "finish" /\ committed
    /\ pc' = "done" /\ committed' = FALSE
    /\ UNCHANGED <<effect, resolution, timerAt, finishAt, handlers, rows, world>>

-----------------------------------------------------------------------------
(***************************************************************************)
(* The approve and cancel handlers.                                        *)
(***************************************************************************)

\* The checks finish makes of the caller before it looks at the row.
CallerAllowed(c) ==
    /\ approval.status # "none"
    /\ CallActor[c] = (IF CallAction[c] = "CANCEL" THEN "principal" ELSE "approver")
    /\ CallActor[c] \in members

\* The "answer" and "cancel" steps: the transaction commits.
Answer(c) ==
    /\ calls[c] = "sent" /\ CallerAllowed(c)
    /\ Finish(CallAction[c], CallActor[c])
    /\ calls' = [calls EXCEPT ![c] = "answered"]
    /\ UNCHANGED <<promise, workflow, world>>

\* An ApprovalError is terminal for the call.
Refuse(c) ==
    /\ calls[c] = "sent"
    /\ \/ ~CallerAllowed(c)
       \/ approval.status = "PENDING" /\ ~AwaitsAuthorization(CallAction[c])
    /\ calls' = [calls EXCEPT ![c] = "ended"]
    /\ UNCHANGED <<promise, workflow, rows, world>>

\* notify: resolve the workflow promise unless it is resolved already.
Notify(c) ==
    /\ calls[c] = "answered"
    /\ promise' = TRUE
    /\ calls' = [calls EXCEPT ![c] = "ended"]
    /\ UNCHANGED <<workflow, rows, world>>

-----------------------------------------------------------------------------
(***************************************************************************)
(* The environment: crashes, the clock, effects and membership changes.    *)
(***************************************************************************)

\* The worker dies after a commit: the step will be executed again.
CrashRun ==
    /\ committed /\ crashes < MaxCrashes
    /\ committed' = FALSE /\ crashes' = crashes + 1
    /\ UNCHANGED <<pc, effect, resolution, timerAt, finishAt, handlers, rows, members, now, skew>>

CrashCall(c) ==
    /\ calls[c] = "answered" /\ crashes < MaxCrashes
    /\ calls' = [calls EXCEPT ![c] = "sent"] /\ crashes' = crashes + 1
    /\ UNCHANGED <<promise, workflow, rows, members, now, skew>>

Tick ==
    /\ effect # ""
    /\ now < MaxTime \/ (pc = "wait" /\ now < timerAt)
    /\ now' = now + 1
    /\ UNCHANGED <<workflow, handlers, rows, members, skew, crashes>>

\* recordEffect, called by whoever performs an effect for this task: the unresolved
\* effect of a live task, or its confirmation, which needs evidence of the step.
RecordEffect(disposition) ==
    /\ task \notin Terminal \cup {"none"} /\ step # "none"
    /\ disposition = "CONFIRMED" => run
    /\ disposition \notin receipts
    /\ receipts' = receipts \cup {disposition}
    /\ UNCHANGED <<workflow, handlers, task, step, events, approval, run, outcome, world>>

\* An administrator ends a membership.
Revoke(p) ==
    /\ p \in members
    /\ members' = members \ {p}
    /\ UNCHANGED <<workflow, handlers, rows, now, skew, crashes>>

Run ==
    \/ Emit \/ EmitJournal \/ EvaluatePolicy
    \/ RecordPolicy \/ RecordRejected \/ RecordJournal
    \/ Await \/ ResolveDeadline \/ ResolveJournal
    \/ ExecuteCapability \/ RecordReceipt \/ ReceiptJournal \/ VerifyAndFinish \/ FinishJournal

Call(c) == Answer(c) \/ Refuse(c) \/ Notify(c)

Next ==
    \/ Run
    \/ \E c \in Calls : Call(c) \/ CrashCall(c)
    \/ CrashRun \/ Tick
    \/ \E d \in {"UNRESOLVED", "CONFIRMED"} : RecordEffect(d)
    \/ \E p \in People : Revoke(p)

\* Restate retries the run handler until each step is journaled, and clocks
\* advance.  A handler invocation may be lost at any point.
Spec == Init /\ [][Next]_vars /\ WF_vars(Run) /\ WF_vars(Tick)

-----------------------------------------------------------------------------
(***************************************************************************)
(* Properties.                                                             *)
(***************************************************************************)

\* A capability runs only if the policy allows it outright or the named
\* approver granted it before the deadline of the database clock, whatever
\* the order of answers, cancellations, timeouts and re-executed steps.
RunIsAuthorized ==
    run => \/ effect = "ALLOW"
           \/ /\ effect = "APPROVAL_REQUIRED"
              /\ approval.status = "GRANTED"
              /\ approval.by = "approver" /\ approval.at < Ttl

\* The first terminal decision wins (ADR 0008): a decided approval is never
\* decided again by a later answer, a cancellation, the deadline or a retry.
FirstDecisionWins ==
    [][approval.status \notin {"none", "PENDING"} => approval' = approval]_vars

\* While the database clock does not lag the timer, a task that ended left no
\* PENDING approval behind, and it is CANCELLED exactly when its approval was.
TaskAgreesWithDecision ==
    skew >= 0 /\ task \in Terminal =>
        /\ approval.status # "PENDING"
        /\ task = "CANCELLED" <=> approval.reason = "CANCELLED"

\* A handler that a terminal error ended without a ledger write leaves its task behind,
\* in one of two places: the policy record refused because a membership ended
\* meanwhile, and an objective that the capability refuses.  Neither leaves an
\* approval open or a capability run.
Stranded ==
    /\ pc = "rejected" /\ ~run /\ approval.status # "PENDING"
    /\ \/ task = "COMPILED" /\ members # People
       \/ task = "RUNNING"

\* A committed grant is carried to completion when the clocks agree, the effects of
\* the task are settled for good and the capability accepts the objective, even if
\* the signal to the workflow is lost and its timer fires first.
GrantCompletes ==
    <>[]EffectsResolved =>
        (skew = 0 /\ approval.status = "GRANTED" ~> task = "COMPLETED" \/ Stranded)

\* Every created task ends, once its effects are settled for good: an unresolved one
\* holds it in VERIFYING.  The exceptions are the two places where the code strands a
\* task.
EveryTaskEnds ==
    <>[]EffectsResolved => (task # "none" ~> task \in Terminal \/ Stranded)

\* KJ_P4B_TELEGRAM_APPROVALS.md: "GRANTED resumes the SAME workflow to
\* completion".  Stated for every clock skew.
GrantedTaskCompletes ==
    approval.status = "GRANTED" => task # "FAILED"

=============================================================================
