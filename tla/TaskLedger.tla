----------------------------- MODULE TaskLedger -----------------------------
(***************************************************************************)
(* The Postgres rows of one task (tasks, task_steps, task_events,          *)
(* evidence, outcomes, effect_receipts) and the transactions of Ledger and *)
(* terminal.ts on them.  Each transaction holds the advisory lock of the   *)
(* task, so it is one atomic step of whichever module takes it.            *)
(***************************************************************************)
EXTENDS Integers, Sequences

CONSTANTS
    StepIds,    \* steps a plan may have
    Operations, \* operation ids of external effects
    EventKeys   \* event keys of the workflow's writes

VARIABLES
    task,       \* status of the tasks row
    steps,      \* status of each task_steps row
    events,     \* event keys of task_events
    evidence,   \* rows of evidence
    outcome,    \* status of the outcomes row
    receipts    \* rows of effect_receipts

ledger == <<task, steps, events, evidence, outcome, receipts>>

Terminal == {"COMPLETED", "FAILED", "CANCELLED"}

\* assertTransition: the statuses that may follow each status.
Transitions ==
    [RECEIVED          |-> {"COMPILED", "FAILED", "CANCELLED"},
     COMPILED          |-> {"READY", "APPROVAL_REQUIRED", "FAILED", "CANCELLED"},
     READY             |-> {"RUNNING", "CANCELLED", "FAILED"},
     RUNNING           |-> {"WAITING", "APPROVAL_REQUIRED", "VERIFYING", "FAILED", "CANCELLED"},
     WAITING           |-> {"RUNNING", "FAILED", "CANCELLED"},
     APPROVAL_REQUIRED |-> {"READY", "RUNNING", "FAILED", "CANCELLED"},
     VERIFYING         |-> {"COMPLETED", "FAILED", "CANCELLED"},
     COMPLETED         |-> {},
     FAILED            |-> {},
     CANCELLED         |-> {}]

Statuses == DOMAIN Transitions

\* An effect receipt: at most one row per operation and disposition.
Receipts == [op : Operations, step : StepIds, disposition : {"UNRESOLVED", "CONFIRMED"}]

\* What the content digest of an evidence row stands for: the result of a
\* deterministic plan, or what repository.read found.
Digests == {"result", "none", "approved", "drifted"}

LedgerTypeOK ==
    /\ task \in Statuses \cup {"none"}
    /\ steps \in [StepIds -> Statuses \cup {"none"}]
    /\ events \subseteq EventKeys
    /\ evidence \subseteq [step : StepIds, at : Int, digest : Digests]
    /\ outcome \in Terminal \cup {"none"}
    /\ receipts \subseteq Receipts

LedgerInit ==
    /\ task = "none" /\ steps = [s \in StepIds |-> "none"]
    /\ events = {} /\ evidence = {} /\ outcome = "none" /\ receipts = {}

\* A status change the code and the table's trigger accept: a terminal row is
\* immutable, and an absent one begins RECEIVED.
MayWrite(w) ==
    IF task = "none"
    THEN w.status = "RECEIVED"
    ELSE /\ task \notin Terminal
         /\ task # w.status => w.status \in Transitions[task]

\* The rows a write commits together.  w.rows is a function on the steps it
\* upserts, w.proof the evidence it inserts.
Commit(w) ==
    /\ task' = w.status
    /\ steps' = [s \in StepIds |-> IF s \in DOMAIN w.rows THEN w.rows[s] ELSE steps[s]]
    /\ events' = events \cup {w.key}
    /\ evidence' = evidence \cup w.proof
    /\ outcome' = IF w.outcome = "none" THEN outcome ELSE w.outcome
    /\ UNCHANGED receipts

\* Mutant: the event key is not looked up first.
WriteAgain(w) == MayWrite(w) /\ Commit(w)

\* Ledger.write.  A prior event of this key has the same digest, because
\* every input of a durable step is journaled, and is a no-op.
Write(w) ==
    IF w.key \in events THEN UNCHANGED ledger ELSE MayWrite(w) /\ Commit(w)

\* assertResolvedEffects: every UNRESOLVED operation has a CONFIRMED receipt.
EffectsResolved ==
    \A r \in receipts : r.disposition = "UNRESOLVED" =>
        \E c \in receipts : c.op = r.op /\ c.disposition = "CONFIRMED"

\* readOutcome: the outcomes row, or the terminal_results row that a trigger
\* writes for every FAILED or CANCELLED task.
ReadOutcome ==
    IF outcome # "none" THEN outcome
    ELSE IF task \in {"FAILED", "CANCELLED"} THEN task ELSE "none"

\* Ledger.finish: an existing outcome is left alone.  An unresolved effect,
\* like a refused transition, throws and is retried.
Finish(w) ==
    IF ReadOutcome # "none" THEN UNCHANGED ledger ELSE EffectsResolved /\ Write(w)

\* Completion that the ledger cannot verify is rolled back; finish then commits
\* FAILED under a key of its own, in a second transaction.
Refuse(w) ==
    ReadOutcome = "none" /\ MayWrite(w) /\ EffectsResolved /\ UNCHANGED ledger

Refused(w, failedKey) == [w EXCEPT !.key = failedKey, !.status = "FAILED", !.outcome = "FAILED"]

\* Mutant: the candidate's status is returned, whatever was committed before.
FinishResultCandidate(w) == w.outcome

\* Mutant: the status the transaction read is returned.
FinishResultStatus(w) == IF ReadOutcome # "none" THEN ReadOutcome ELSE task

\* The outcome Ledger.finish returns to the workflow.
FinishResult(w) == IF ReadOutcome # "none" THEN ReadOutcome ELSE w.outcome

\* Mutant: an effect may be recorded for a task that ended.
RecordEffectLate(r) ==
    /\ task # "none" /\ steps[r.step] # "none"
    /\ r.disposition = "CONFIRMED" => \E e \in evidence : e.step = r.step
    /\ ~\E q \in receipts : q.op = r.op /\ q.disposition = r.disposition
    /\ receipts' = receipts \cup {r}
    /\ UNCHANGED <<task, steps, events, evidence, outcome>>

\* recordEffect: an unresolved effect of a live task, or its confirmation by
\* evidence of the same step.  A repeated or conflicting call changes nothing.
RecordEffect(r) ==
    /\ task \notin Terminal \cup {"none"} /\ steps[r.step] # "none"
    /\ r.disposition = "CONFIRMED" => \E e \in evidence : e.step = r.step
    /\ ~\E q \in receipts : q.op = r.op /\ q.disposition = r.disposition
    /\ receipts' = receipts \cup {r}
    /\ UNCHANGED <<task, steps, events, evidence, outcome>>

=============================================================================
