--------------------------- MODULE AdmissionDoor ---------------------------
(***************************************************************************)
(* The admission door (apps/gateway) and the two things behind it: task    *)
(* admission with its idempotency key, and the approve and cancel controls *)
(* of one approval-gated task, carried to the workflow as a signed,        *)
(* request-bound assertion.                                                *)
(*                                                                         *)
(* A request is a record in flight.  Its client may stop waiting for it    *)
(* (every fetch has a timeout) and the door may die under it, but what it  *)
(* already handed to Postgres or to Restate stays: an approve invocation   *)
(* that Restate accepted is applied later whether or not anybody waits.    *)
(***************************************************************************)
EXTENDS Integers

CONSTANTS
    ApprovalTtl,  \* expiresAt, the instant that each machine compares with its own clock
    Fresh,        \* freshnessSeconds of the verifier, in ticks
    Retention,    \* NONCE_RETENTION_DAYS, in ticks
    Plans         \* the bounds of a behaviour, chosen initially (see Plan)

ASSUME DoorConstants ==
    /\ ApprovalTtl \in Nat /\ Fresh \in Nat /\ Retention \in Nat
    /\ \A p \in Plans : p.faults \in Nat /\ p.time \in Nat
    /\ \A p \in Plans : p.db \in Nat /\ p.door \in Nat /\ p.worker \in Nat

\* A plan names what may happen: the requests of the door's other clients (each
\* sent at most once), the status of the approval's task at the start, a bound
\* on lost answers, dead processes and refused deliveries, and on the time that
\* passes; and by how much the clocks of the database, of the door and of the
\* worker (the Telegram poll and the workflows) are ahead of the slowest.

VARIABLES
    plan,
    flight,       \* requests between a client and its answer
    issued,       \* requests sent so far: the id of the next, and its nonce
    others,       \* the plan's other calls not sent yet
    admissions,   \* task_admissions rows
    dispatches,   \* task -> status of its last committed dispatch event
    started,      \* tasks whose run invocation Restate accepted
    invocations,  \* approve and cancel invocations Restate accepted
    assertions,   \* control_assertions rows
    approval,     \* the approvals row
    gate,         \* status column of the approval's task
    time, faults

admissionVars == <<admissions, dispatches, started>>
controlVars == <<invocations, assertions, approval, gate>>
doorVars == <<plan, flight, issued, others, admissionVars, controlVars, time, faults>>

Principals == {"operator", "mcp"}
Decisions == {"GRANTED", "DENIED"}
Ops == {"SUBMIT", "APPROVE", "CANCEL"}
\* What a call carries: a mission, a decision, or what the other clients send.
Bodies == {"mission"} \cup Decisions \cup {c.body : c \in UNION {p.others : p \in Plans}}
Call == [who : Principals, op : Ops, key : Nat, body : Bodies]
Answers == {"", "200", "202", "403", "409", "503", "lost"}
Request == [id : Nat, who : Principals, op : Ops, key : Nat, body : Bodies, waited : BOOLEAN,
            at : {"received", "admitted", "sent", "answered"}, answer : Answers]
Invocation == [nonce : Nat, op : Ops, body : Bodies, signed : Nat,
               at : {"new", "authentic", "done", "ended", "refused"}]
ApprovalStatuses == {"PENDING", "GRANTED", "DENIED", "EXPIRED"}
Reasons == {"", "HUMAN", "CANCELLED", "EXPIRED"}
Terminal == {"COMPLETED", "FAILED", "CANCELLED"}

\* What the other clients send passes the door's request schema, and the task
\* of the approval is before, at or past its gate.
ASSUME PlanCalls ==
    \A p \in Plans :
       /\ p.gate \in {"COMPILED", "APPROVAL_REQUIRED", "READY"}
       /\ \A c \in p.others : c \in Call /\ (c.op = "APPROVE" => c.body \in Decisions)

\* One admission per (principal, key); the task id is derived from the pair.
TaskOf(r) == <<r.who, r.key>>

DoorTypeOK ==
    /\ plan \in Plans /\ flight \subseteq Request /\ issued \in Nat /\ others \subseteq plan.others
    /\ admissions \subseteq [who : Principals, key : Nat, body : Bodies]
    /\ \A t \in DOMAIN dispatches : dispatches[t] \in {"ACCEPTED", "UNRESOLVED"}
    /\ started \subseteq Principals \X Nat
    /\ invocations \subseteq Invocation
    /\ assertions \subseteq [nonce : Nat, at : Nat]
    /\ approval \in [status : ApprovalStatuses, reason : Reasons]
    /\ gate \in {"COMPILED", "APPROVAL_REQUIRED", "READY"} \cup Terminal
    /\ time \in 0..plan.time /\ faults \in 0..plan.faults

\* The approval-gated task has recorded its approval, or has it behind it.
DoorInit ==
    /\ plan \in Plans
    /\ flight = {} /\ issued = 0 /\ others = plan.others
    /\ admissions = {} /\ dispatches = <<>> /\ started = {}
    /\ invocations = {} /\ assertions = {}
    /\ gate = plan.gate
    /\ approval = IF gate = "READY" THEN [status |-> "GRANTED", reason |-> "HUMAN"]
                  ELSE [status |-> "PENDING", reason |-> ""]
    /\ time = 0 /\ faults = 0

Fault == faults < plan.faults /\ faults' = faults + 1

\* Three machines, three clocks.
DbClock == time + plan.db          \* now(), clock_timestamp()
DoorClock == time + plan.door      \* Date.now() in the gateway
WorkerClock == time + plan.worker  \* deps.now(), ctx.date.now()

-----------------------------------------------------------------------------
(* Requests.                                                               *)

\* A client's fetch: the request it puts in flight.
NewRequest(c) ==
    [id |-> issued + 1, who |-> c.who, op |-> c.op, key |-> c.key, body |-> c.body,
     waited |-> TRUE, at |-> "received", answer |-> ""]

\* The flight after r is answered; an answer nobody waits for is dropped.
Answered(r, code) ==
    (flight \ {r}) \cup
    (IF r.waited THEN {[r EXCEPT !.at = "answered", !.answer = code]} ELSE {})

Moved(r, at) == (flight \ {r}) \cup {[r EXCEPT !.at = at]}

\* doorScope: the MCP principal starts only missions and briefs and may only
\* cancel.
InScope(r) ==
    r.who = "mcp" => IF r.op = "SUBMIT" THEN r.body \in {"mission", "brief"} ELSE r.op = "CANCEL"

\* POST /v1/tasks, first transaction.  The advisory lock on the key makes the
\* lookup and the insert one step.
DoorAdmit(r) ==
    /\ r \in flight /\ r.at = "received" /\ r.op = "SUBMIT"
    /\ LET prior == {a \in admissions : a.who = r.who /\ a.key = r.key}
       IN \/ /\ ~InScope(r)
             /\ flight' = Answered(r, "403") /\ UNCHANGED admissions
          \/ /\ InScope(r) /\ \E a \in prior : a.body # r.body
             /\ flight' = Answered(r, "409") /\ UNCHANGED admissions
          \/ /\ InScope(r) /\ \A a \in prior : a.body = r.body
             /\ admissions' = admissions \cup {[who |-> r.who, key |-> r.key, body |-> r.body]}
             /\ flight' = Moved(r, "admitted")
    /\ UNCHANGED <<plan, issued, others, dispatches, started, controlVars, time, faults>>

\* Second transaction: hand the task to Restate (which takes a second run of
\* the same key as accepted) and record what became of it.  A failed or
\* timed-out call is UNRESOLVED, whether or not Restate has the invocation.
DoorDispatch(r) ==
    /\ r \in flight /\ r.at = "admitted"
    /\ \/ /\ dispatches' = [t \in DOMAIN dispatches \cup {TaskOf(r)} |->
                               IF t = TaskOf(r) THEN "ACCEPTED" ELSE dispatches[t]]
          /\ started' = started \cup {TaskOf(r)} /\ UNCHANGED faults
       \/ /\ Fault
          /\ dispatches' = [t \in DOMAIN dispatches \cup {TaskOf(r)} |->
                               IF t = TaskOf(r) THEN "UNRESOLVED" ELSE dispatches[t]]
          /\ started' \in {started, started \cup {TaskOf(r)}}
    /\ flight' = Answered(r, "202")
    /\ UNCHANGED <<plan, issued, others, admissions, controlVars, time>>

\* The ticket check of createRestateControls: PENDING and not past its deadline
\* by the door's clock.
TicketOpen == approval.status = "PENDING" /\ DoorClock < ApprovalTtl

\* The controls: refusals that never reach the workflow.
ControlRefusal(r) ==
    IF ~InScope(r) THEN "403"
    ELSE IF r.op = "CANCEL" /\ r.who # "operator" THEN "403"
    ELSE IF r.op = "CANCEL" /\ gate = "CANCELLED" THEN "200"
    ELSE IF gate \in Terminal THEN "409"
    ELSE IF r.op = "APPROVE" /\ ~TicketOpen THEN "403"
    ELSE IF r.op = "CANCEL" /\ gate # "APPROVAL_REQUIRED" THEN "409"
    ELSE ""

\* createControlSigner: the assertion covers the handler and the body, and
\* carries a fresh nonce and the door's clock.
Signed(r) == [nonce |-> r.id, op |-> r.op, body |-> r.body, signed |-> DoorClock, at |-> "new"]

\* send: check, sign the exact request and post it to the workflow; an ingress
\* that cannot be reached is UNRESOLVED.
DoorControl(r) ==
    /\ r \in flight /\ r.at = "received" /\ r.op # "SUBMIT"
    /\ \/ /\ ControlRefusal(r) # ""
          /\ flight' = Answered(r, ControlRefusal(r))
          /\ UNCHANGED <<invocations, faults>>
       \/ /\ ControlRefusal(r) = ""
          /\ invocations' = invocations \cup {Signed(r)}
          /\ flight' = Moved(r, "sent") /\ UNCHANGED faults
       \/ /\ ControlRefusal(r) = "" /\ Fault
          /\ flight' = Answered(r, "503") /\ UNCHANGED invocations
    /\ UNCHANGED <<plan, issued, others, admissionVars, assertions, approval, gate, time>>

\* The workflow's answer comes back through the door.  An accepted cancel is
\* read back from the task.
DoorRelay(r) ==
    /\ r \in flight /\ r.at = "sent"
    /\ \E i \in invocations :
          /\ i.nonce = r.id /\ i.at \in {"ended", "refused"}
          /\ flight' = Answered(r, IF i.at = "refused" THEN "409"
                                   ELSE IF r.op = "CANCEL" /\ gate = "CANCELLED" THEN "200"
                                   ELSE IF r.op = "CANCEL" /\ gate \in {"COMPLETED", "FAILED"} THEN "409"
                                   ELSE "202")
    /\ UNCHANGED <<plan, issued, others, admissionVars, controlVars, time, faults>>

\* The door's own timeout on the workflow call.
DoorTimeout(r) ==
    /\ r \in flight /\ r.at = "sent" /\ Fault
    /\ flight' = Answered(r, "503")
    /\ UNCHANGED <<plan, issued, others, admissionVars, controlVars, time>>

\* The request never arrives, or the door dies serving it: what it committed
\* stays, and the client sees a broken connection.
DoorDies(r) ==
    /\ r \in flight /\ r.at # "answered" /\ Fault
    /\ started' \in {started} \cup (IF r.at = "admitted" THEN {started \cup {TaskOf(r)}} ELSE {})
    /\ flight' = Answered(r, "lost")
    /\ UNCHANGED <<plan, issued, others, admissions, dispatches, controlVars, time>>

\* Another client of the door sends one of its requests and does not wait.
OtherClient(c) ==
    /\ c \in others /\ others' = others \ {c}
    /\ issued' = issued + 1
    /\ flight' = flight \cup {[NewRequest(c) EXCEPT !.waited = FALSE]}
    /\ UNCHANGED <<plan, admissionVars, controlVars, time, faults>>

-----------------------------------------------------------------------------
(* The workflow's side of a control.                                       *)

Progress(i, at) == invocations' = (invocations \ {i}) \cup {[i EXCEPT !.at = at]}

\* PgControlReplayStore.admit: a nonce is known, or is new and its assertion
\* fresh by the database's clock (neither too old nor too far ahead), or neither.
ReplayVerdict(i) ==
    IF \E a \in assertions : a.nonce = i.nonce THEN "REPLAY"
    ELSE IF DbClock - i.signed \in -Fresh..Fresh THEN "FIRST_SEEN"
    ELSE "STALE"

\* createControlVerifier: an authentic assertion is recorded on first sight
\* (purging old rows), accepted again for the same request, and refused when
\* it is unknown and stale.
WorkerAuthenticate(i) ==
    /\ i \in invocations /\ i.at = "new"
    /\ \/ /\ ReplayVerdict(i) = "FIRST_SEEN"
          /\ assertions' = {a \in assertions : a.at >= DbClock - Retention}
                              \cup {[nonce |-> i.nonce, at |-> DbClock]}
          /\ Progress(i, "authentic")
       \/ /\ ReplayVerdict(i) = "REPLAY"
          /\ Progress(i, "authentic") /\ UNCHANGED assertions
       \/ /\ ReplayVerdict(i) = "STALE"
          /\ Progress(i, "refused") /\ UNCHANGED assertions
    /\ UNCHANGED <<plan, flight, issued, others, admissionVars, approval, gate, time, faults>>

\* Mutant: a decision is stored without asking the clock.
FinishedAnyTime(action) ==
    IF approval.status # "PENDING" THEN approval
    ELSE IF action = "CANCEL" \/ gate = "CANCELLED" THEN [status |-> "DENIED", reason |-> "CANCELLED"]
    ELSE [status |-> action, reason |-> "HUMAN"]

\* ApprovalStore.finish: the first decision is kept, and the database clock
\* decides whether it came in time; an expiry that comes too early by that
\* clock leaves the approval PENDING.
Finished(action) ==
    IF approval.status # "PENDING" THEN approval
    ELSE IF DbClock >= ApprovalTtl THEN [status |-> "EXPIRED", reason |-> "EXPIRED"]
    ELSE IF action = "EXPIRE" THEN approval
    ELSE IF action = "CANCEL" \/ gate = "CANCELLED" THEN [status |-> "DENIED", reason |-> "CANCELLED"]
    ELSE [status |-> action, reason |-> "HUMAN"]

\* finish throws for a pending approval whose task no longer waits for it.
Awaited(action) ==
    \/ approval.status # "PENDING" \/ action = "CANCEL"
    \/ gate \in {"COMPILED", "APPROVAL_REQUIRED", "CANCELLED"}

\* The approve and cancel handlers: answer with the resolution in force, or
\* with the refusal, which ends the invocation.
WorkerResolve(i) ==
    /\ i \in invocations /\ i.at = "authentic"
    /\ LET action == IF i.op = "CANCEL" THEN "CANCEL" ELSE i.body
       IN \/ /\ Awaited(action)
             /\ approval' = Finished(action) /\ Progress(i, "done")
          \/ /\ ~Awaited(action)
             /\ Progress(i, "refused") /\ UNCHANGED approval
    /\ UNCHANGED <<plan, flight, issued, others, admissionVars, assertions, gate, time, faults>>

\* notify, and the handler's result is journaled.
WorkerNotify(i) ==
    /\ i \in invocations /\ i.at = "done"
    /\ Progress(i, "ended")
    /\ UNCHANGED <<plan, flight, issued, others, admissionVars, assertions, approval, gate, time, faults>>

\* The worker dies before Restate has the handler's result: the same request,
\* with the same headers, is run again from its start.
WorkerRetries(i) ==
    /\ i \in invocations /\ i.at \in {"authentic", "done"} /\ Fault
    /\ Progress(i, "new")
    /\ UNCHANGED <<plan, flight, issued, others, admissionVars, assertions, approval, gate, time>>

\* The run handler reaches its wait.
AwaitApproval ==
    /\ gate = "COMPILED" /\ gate' = "APPROVAL_REQUIRED"
    /\ UNCHANGED <<plan, flight, issued, others, admissionVars, invocations, assertions, approval, time, faults>>

\* The run handler wakes, on the promise or on the timer it set by its own
\* clock, and settles the task by the resolution it reads, expiring the approval
\* if its deadline has passed by the database's.  Reading the resolution and
\* writing the task are one step here; GoldenTask has them apart.
LeaveApproval ==
    /\ gate = "APPROVAL_REQUIRED"
    /\ approval.status # "PENDING" \/ WorkerClock >= ApprovalTtl
    /\ approval' = Finished("EXPIRE")
    /\ gate' = IF approval'.status = "GRANTED" THEN "READY"
               ELSE IF approval'.reason = "CANCELLED" THEN "CANCELLED" ELSE "FAILED"
    /\ UNCHANGED <<plan, flight, issued, others, admissionVars, invocations, assertions, time, faults>>

Elapse ==
    /\ time < plan.time /\ time' = time + 1
    /\ UNCHANGED <<plan, flight, issued, others, admissionVars, controlVars, faults>>

DoorStep ==
    \/ \E r \in flight : DoorAdmit(r) \/ DoorDispatch(r) \/ DoorControl(r) \/ DoorRelay(r)
                            \/ DoorTimeout(r) \/ DoorDies(r)
    \/ \E c \in others : OtherClient(c)

WorkerStep ==
    \/ \E i \in invocations : WorkerAuthenticate(i) \/ WorkerResolve(i) \/ WorkerNotify(i)
                                \/ WorkerRetries(i)
    \/ AwaitApproval \/ LeaveApproval

=============================================================================
