-------------------------- MODULE GoldenTaskProofs --------------------------
(***************************************************************************)
(* What the golden workflow guarantees for every time to live, clock skew, *)
(* set of handler invocations and number of crashes: a capability runs     *)
(* only with authority, the first decision of an approval is final, and    *)
(* the task agrees with it.                                                *)
(***************************************************************************)
EXTENDS GoldenTask, TLAPS

BeforePolicy == {"create", "compile", "evaluate", "record"}
AtGate       == {"require", "wait", "resolve"}
PastGate     == {"approved", "ready", "start", "execute", "receipt",
                 "stepComplete", "verify", "finish"}

Authorized ==
    \/ effect = "ALLOW"
    \/ effect = "APPROVAL_REQUIRED" /\ approval.status = "GRANTED"

(***************************************************************************)
(* The inductive invariant, by parts.  The journaled position of the run   *)
(* handler and the resolution it read stand for facts about the rows.      *)
(***************************************************************************)

\* A grant was given by the named approver before the deadline.
GrantIsHuman ==
    approval.status = "GRANTED" => approval.by = "approver" /\ approval.at < Ttl

\* A grant the handler read is still the row's decision.
ReadGrantStands ==
    resolution.status = "GRANTED" => approval.status = "GRANTED"

\* Nothing ran, and nothing was read, before the policy was recorded.
QuietBeforePolicy ==
    pc \in BeforePolicy => ~run /\ resolution.status # "GRANTED"

\* The decision the handler records is one the rules can give.
PolicyWasEvaluated ==
    pc = "record" => effect \in {"ALLOW", "DENY", "APPROVAL_REQUIRED"}

\* Only a task that needs an approval waits for one.
GateIsForApproval ==
    pc \in AtGate => effect = "APPROVAL_REQUIRED"

\* Beyond the gate, the policy or the approver has authorized the task.
PastGateAuthorized ==
    pc \in PastGate => Authorized

RunAuthorized == run => Authorized

\* The approvals row is inserted with the policy event.
ApprovalNeedsPolicy ==
    "record" \notin events => approval.status = "none"

ClockTypeOK == now \in Int /\ skew \in Int

GateInv ==
    /\ ClockTypeOK
    /\ GrantIsHuman /\ ReadGrantStands /\ QuietBeforePolicy
    /\ PolicyWasEvaluated /\ GateIsForApproval /\ PastGateAuthorized /\ RunAuthorized
    /\ ApprovalNeedsPolicy

-----------------------------------------------------------------------------
\* A ledger write leads past the gate only from past the gate, to the gate only
\* from recording that an approval is required, and never before the policy
\* except along create and compile.
LEMMA EmitsNext ==
    ASSUME NEW k \in DOMAIN Emits
    PROVE  /\ Emits[k].next \in PastGate => k \in PastGate
           /\ Emits[k].next \in AtGate => k \in AtGate
           /\ Emits[k].next \in BeforePolicy => k \in BeforePolicy
           /\ Emits[k].next # "record"
<1>1. k \in {"create", "compile", "deny", "require", "rejectFailed", "rejectCancelled",
             "approved", "ready", "start", "stepComplete", "verify"}
  BY DEF Emits
<1>2. /\ Emits["create"].next = "compile"
      /\ Emits["compile"].next = "evaluate"
      /\ Emits["deny"].next = "done"
      /\ Emits["require"].next = "wait"
      /\ Emits["rejectFailed"].next = "done"
      /\ Emits["rejectCancelled"].next = "done"
      /\ Emits["approved"].next = "start"
      /\ Emits["ready"].next = "start"
      /\ Emits["start"].next = "execute"
      /\ Emits["stepComplete"].next = "verify"
      /\ Emits["verify"].next = "finish"
  BY Zenon DEF Emits
<1>3. QED
  BY <1>1, <1>2 DEF PastGate, AtGate, BeforePolicy

\* finish: a decided row does not change, a PENDING one becomes Resolved.
LEMMA FinishEffect ==
    ASSUME NEW action, NEW actor, Finish(action, actor)
    PROVE  /\ run' = run /\ events \subseteq events'
           /\ \/ approval' = approval
              \/ approval.status = "PENDING" /\ approval' = Resolved(action, actor)
  BY DEF Finish, rows

\* A ledger write leaves the approval and the capability run alone.
LEMMA LedgerWriteEffect ==
    ASSUME NEW key, NEW e, LedgerWrite(key, e)
    PROVE  approval' = approval /\ run' = run /\ events \subseteq events'
  BY DEF LedgerWrite, rows

\* finish grants only on the GRANTED action, before the deadline.
LEMMA ResolvedGrant ==
    ASSUME NEW action, NEW actor, Resolved(action, actor).status = "GRANTED"
    PROVE  /\ action = "GRANTED" /\ ~Expired
           /\ Resolved(action, actor).by = actor
           /\ Resolved(action, actor).at = dbNow
  BY DEF Resolved

LEMMA ResolvedDecided ==
    ASSUME NEW action, NEW actor
    PROVE  Resolved(action, actor).status \in {"GRANTED", "DENIED", "EXPIRED"}
  BY DEF Resolved

-----------------------------------------------------------------------------
\* The facts GateInv is made of survive a step of the run handler that changes
\* neither the decision nor the run, if its new position keeps what the
\* position claims.
LEMMA MoveKeepsGate ==
    ASSUME GateInv,
           effect' = effect, resolution' = resolution, approval' = approval,
           run' = run, events \subseteq events', now' = now, skew' = skew,
           pc' \in PastGate => Authorized,
           pc' \in AtGate => effect = "APPROVAL_REQUIRED",
           pc' \in BeforePolicy => pc \in BeforePolicy,
           pc' # "record" \/ pc' = pc
    PROVE  GateInv'
  BY DEF GateInv, ClockTypeOK, GrantIsHuman, ReadGrantStands, QuietBeforePolicy, PolicyWasEvaluated,
         GateIsForApproval, PastGateAuthorized, RunAuthorized, ApprovalNeedsPolicy, Authorized

\* A call of finish keeps GateInv wherever the run handler is, provided a grant
\* is the named approver's.
LEMMA FinishKeepsGate ==
    ASSUME GateInv, NEW action, NEW actor, Finish(action, actor),
           action = "GRANTED" => actor = "approver",
           effect' = effect, pc' = pc, now' = now, skew' = skew,
           resolution' = resolution \/ (resolution' = approval' /\ pc = "resolve")
    PROVE  GateInv'
<1>1. /\ run' = run /\ events \subseteq events'
      /\ \/ approval' = approval
         \/ approval.status = "PENDING" /\ approval' = Resolved(action, actor)
  BY FinishEffect
<1>2. approval.status = "GRANTED" => approval' = approval
  BY <1>1
<1>3. ClockTypeOK' /\ RunAuthorized' /\ PastGateAuthorized'
      /\ GateIsForApproval' /\ PolicyWasEvaluated'
  BY <1>1, <1>2 DEF GateInv, ClockTypeOK, RunAuthorized, PastGateAuthorized,
                      GateIsForApproval, PolicyWasEvaluated, Authorized
<1>4. GrantIsHuman'
  <2>1. CASE approval' = approval
    BY <2>1 DEF GateInv, GrantIsHuman
  <2>2. CASE approval' = Resolved(action, actor)
    <3>1. SUFFICES ASSUME Resolved(action, actor).status = "GRANTED"
                   PROVE  /\ Resolved(action, actor).by = "approver"
                          /\ Resolved(action, actor).at < Ttl
      BY <2>2 DEF GrantIsHuman
    <3>2. /\ action = "GRANTED" /\ ~Expired
          /\ Resolved(action, actor).by = actor
          /\ Resolved(action, actor).at = dbNow
      BY <3>1, ResolvedGrant
    <3>3. dbNow < Ttl
      BY <3>2, GoldenConstants DEF Expired, dbNow, GateInv, ClockTypeOK
    <3>4. QED
      BY <3>2, <3>3
  <2>3. QED
    BY <1>1, <2>1, <2>2
<1>5. ReadGrantStands' /\ QuietBeforePolicy'
  BY <1>1, <1>2 DEF GateInv, ReadGrantStands, QuietBeforePolicy, BeforePolicy
<1>6. ApprovalNeedsPolicy'
  BY <1>1 DEF GateInv, ApprovalNeedsPolicy
<1>7. QED
  BY <1>3, <1>4, <1>5, <1>6 DEF GateInv

\* The initial state satisfies GateInv.
LEMMA GateInit == Init => GateInv
<1> SUFFICES ASSUME Init PROVE GateInv
  OBVIOUS
<1>1. /\ pc = "create" /\ run = FALSE /\ now = 0 /\ skew \in Skews
      /\ approval = NoApproval /\ resolution = NoApproval
  BY DEF Init
<1>2. approval.status = "none" /\ resolution.status = "none"
  BY <1>1 DEF NoApproval
<1>3. ClockTypeOK
  BY <1>1, GoldenConstants DEF ClockTypeOK
<1>4. QED
  BY <1>1, <1>2, <1>3
  DEF GateInv, GrantIsHuman, ReadGrantStands, QuietBeforePolicy, PolicyWasEvaluated,
      GateIsForApproval, PastGateAuthorized, RunAuthorized, ApprovalNeedsPolicy,
      BeforePolicy, AtGate, PastGate

\* Every step preserves GateInv.
LEMMA GateStep == GateInv /\ [Next]_vars => GateInv'
<1> SUFFICES ASSUME GateInv, [Next]_vars PROVE GateInv'
  OBVIOUS
<1> USE DEF workflow, handlers, rows, world
<1>1. CASE Emit
  <2>1. approval' = approval /\ run' = run /\ events \subseteq events'
    BY <1>1, LedgerWriteEffect DEF Emit
  <2>2. pc' = pc /\ effect' = effect /\ resolution' = resolution /\ now' = now /\ skew' = skew
    BY <1>1 DEF Emit
  <2>3. QED
    BY <2>1, <2>2, MoveKeepsGate DEF GateInv, PastGateAuthorized, GateIsForApproval
<1>2. CASE EmitJournal
  <2>1. /\ pc \in DOMAIN Emits /\ pc' = Emits[pc].next
        /\ UNCHANGED <<effect, resolution, rows, world>>
    BY <1>2 DEF EmitJournal
  <2>2. PICK k \in DOMAIN Emits : k = pc
    BY <2>1
  <2>3. /\ pc' \in PastGate => pc \in PastGate
        /\ pc' \in AtGate => pc \in AtGate
        /\ pc' \in BeforePolicy => pc \in BeforePolicy
        /\ pc' # "record"
    BY <2>1, <2>2, EmitsNext
  <2>4. QED
    BY <2>1, <2>3, MoveKeepsGate DEF GateInv, PastGateAuthorized, GateIsForApproval
<1>3. CASE EvaluatePolicy
  BY <1>3, GoldenConstants DEF EvaluatePolicy, GateInv, ClockTypeOK, GrantIsHuman, ReadGrantStands, QuietBeforePolicy, PolicyWasEvaluated,
         GateIsForApproval, PastGateAuthorized, RunAuthorized, ApprovalNeedsPolicy, Authorized,
              BeforePolicy, AtGate, PastGate
<1>4. CASE RecordPolicy
  <2>1. pc = "record" /\ UNCHANGED <<pc, effect, resolution, run, now, skew>>
    BY <1>4 DEF RecordPolicy
  <2>2. events \subseteq events' /\ (approval' = approval \/ (approval' = Pending /\ "record" \in events'))
    BY <1>4 DEF RecordPolicy
  <2>3. CASE approval' = approval
    BY <2>1, <2>2, <2>3, MoveKeepsGate DEF GateInv, PastGateAuthorized, GateIsForApproval
  <2>4. CASE approval' = Pending /\ "record" \in events'
    <3>1. approval'.status = "PENDING"
      BY <2>4 DEF Pending, NoApproval
    <3>2. QED
      BY <2>1, <2>4, <3>1 DEF GateInv, ClockTypeOK, GrantIsHuman, ReadGrantStands, QuietBeforePolicy, PolicyWasEvaluated,
         GateIsForApproval, PastGateAuthorized, RunAuthorized, ApprovalNeedsPolicy, Authorized,
                              BeforePolicy, AtGate, PastGate
  <2>5. QED
    BY <2>2, <2>3, <2>4
<1>5. CASE RecordRejected
  BY <1>5, MoveKeepsGate DEF RecordRejected, PastGate, AtGate, BeforePolicy
<1>6. CASE RecordJournal
  <2>1. /\ \/ pc' = "deny"
           \/ pc' = "require" /\ effect = "APPROVAL_REQUIRED"
           \/ pc' = "ready" /\ effect = "ALLOW"
        /\ UNCHANGED <<effect, resolution, rows, world>>
    BY <1>6 DEF RecordJournal, GateInv, PolicyWasEvaluated
  <2>2. QED
    BY <2>1, MoveKeepsGate DEF PastGate, AtGate, BeforePolicy, Authorized
<1>7. CASE Await
  BY <1>7, MoveKeepsGate DEF Await, GateInv, GateIsForApproval, PastGate, AtGate, BeforePolicy
<1>8. CASE ResolveDeadline
  BY <1>8, FinishKeepsGate DEF ResolveDeadline
<1>9. CASE ResolveJournal
  <2>1. /\ pc = "resolve" /\ pc' = AfterDecision(resolution)
        /\ UNCHANGED <<effect, resolution, rows, world>>
    BY <1>9 DEF ResolveJournal
  <2>2. pc' \in {"approved", "rejectCancelled", "rejectFailed"} /\ (pc' = "approved" => Authorized)
    BY <2>1 DEF AfterDecision, GateInv, ReadGrantStands, GateIsForApproval, AtGate, Authorized
  <2>3. QED
    BY <2>1, <2>2, MoveKeepsGate DEF PastGate, AtGate, BeforePolicy
<1>10. CASE ExecuteCapability
  BY <1>10, MoveKeepsGate DEF ExecuteCapability, GateInv, PastGateAuthorized, PastGate, AtGate, BeforePolicy
<1>11. CASE RecordReceipt
  BY <1>11 DEF RecordReceipt, GateInv, ClockTypeOK, GrantIsHuman, ReadGrantStands, QuietBeforePolicy, PolicyWasEvaluated,
         GateIsForApproval, PastGateAuthorized, RunAuthorized, ApprovalNeedsPolicy, Authorized,
               BeforePolicy, AtGate, PastGate
<1>12. CASE ReceiptJournal
  BY <1>12, MoveKeepsGate DEF ReceiptJournal, GateInv, PastGateAuthorized, PastGate, AtGate, BeforePolicy
<1>13. CASE VerifyAndFinish
  BY <1>13, MoveKeepsGate DEF VerifyAndFinish, GateInv, PastGateAuthorized, GateIsForApproval
<1>14. CASE FinishJournal
  BY <1>14, MoveKeepsGate DEF FinishJournal, PastGate, AtGate, BeforePolicy
<1>15. ASSUME NEW c \in Calls, Call(c) \/ CrashCall(c) PROVE GateInv'
  <2>1. CASE Answer(c)
    <3>1. CallAction[c] = "GRANTED" => CallActor[c] = "approver"
      BY <2>1 DEF Answer, CallerAllowed
    <3>2. /\ Finish(CallAction[c], CallActor[c])
          /\ effect' = effect /\ pc' = pc /\ now' = now /\ skew' = skew /\ resolution' = resolution
      BY <2>1 DEF Answer
    <3>3. QED
      BY <3>1, <3>2, FinishKeepsGate
  <2>2. CASE Refuse(c) \/ Notify(c) \/ CrashCall(c)
    BY <2>2, MoveKeepsGate DEF Refuse, Notify, CrashCall, GateInv, PastGateAuthorized, GateIsForApproval
  <2>3. QED
    BY <1>15, <2>1, <2>2 DEF Call
<1>16. CASE CrashRun
  BY <1>16, MoveKeepsGate DEF CrashRun, GateInv, PastGateAuthorized, GateIsForApproval
<1>17. CASE Tick
  <2>1. now' = now + 1 /\ skew' = skew /\ UNCHANGED <<pc, effect, resolution, approval, run, events>>
    BY <1>17 DEF Tick
  <2>2. ClockTypeOK'
    BY <2>1 DEF GateInv, ClockTypeOK
  <2>3. QED
    BY <2>1, <2>2 DEF GateInv, GrantIsHuman, ReadGrantStands, QuietBeforePolicy,
         PolicyWasEvaluated, GateIsForApproval, PastGateAuthorized, RunAuthorized,
         ApprovalNeedsPolicy, Authorized
<1>18. ASSUME NEW q \in People, Revoke(q) PROVE GateInv'
  BY <1>18, MoveKeepsGate DEF Revoke, GateInv, PastGateAuthorized, GateIsForApproval
<1>19. CASE UNCHANGED vars
  BY <1>19, MoveKeepsGate DEF vars, GateInv, PastGateAuthorized, GateIsForApproval
<1>20. ASSUME NEW d \in {"UNRESOLVED", "CONFIRMED"}, RecordEffect(d) PROVE GateInv'
  BY <1>20, MoveKeepsGate DEF RecordEffect, GateInv, PastGateAuthorized, GateIsForApproval
<1>21. QED
  BY <1>1, <1>2, <1>3, <1>4, <1>5, <1>6, <1>7, <1>8, <1>9, <1>10, <1>11, <1>12,
     <1>13, <1>14, <1>15, <1>16, <1>17, <1>18, <1>19, <1>20 DEF Next, Run

LEMMA GateInvariant == Spec => []GateInv
  BY GateInit, GateStep, PTL DEF Spec

\* A capability runs only if the policy allows it or the named approver granted
\* it before the deadline (RunIsAuthorized), whatever the rules, the deadline,
\* the clock skew, the callers, and the crashes between commit and journal.
THEOREM GoldenRunIsAuthorized == Spec => []RunIsAuthorized
<1>1. GateInv => RunIsAuthorized
  BY DEF GateInv, RunAuthorized, Authorized, GrantIsHuman, RunIsAuthorized
<1>2. QED
  BY <1>1, GateInvariant, PTL

-----------------------------------------------------------------------------
\* A step leaves a decided approval as it is.
LEMMA DecidedStays ==
    ASSUME GateInv, [Next]_vars, approval.status \notin {"none", "PENDING"}
    PROVE  approval' = approval
<1> USE DEF workflow, handlers, rows, world
<1>1. CASE Emit
  BY <1>1, LedgerWriteEffect DEF Emit
<1>2. CASE RecordPolicy
  BY <1>2 DEF RecordPolicy, GateInv, ApprovalNeedsPolicy
<1>3. CASE ResolveDeadline
  BY <1>3, FinishEffect DEF ResolveDeadline
<1>4. ASSUME NEW c \in Calls, Call(c) \/ CrashCall(c) PROVE approval' = approval
  <2>1. CASE Answer(c)
    <3>1. Finish(CallAction[c], CallActor[c])
      BY <2>1 DEF Answer
    <3>2. QED
      BY <3>1, FinishEffect
  <2>2. CASE Refuse(c) \/ Notify(c) \/ CrashCall(c)
    BY <2>2 DEF Refuse, Notify, CrashCall
  <2>3. QED
    BY <1>4, <2>1, <2>2 DEF Call
<1>5. CASE EmitJournal \/ EvaluatePolicy \/ RecordRejected \/ RecordJournal \/ Await \/ ResolveJournal
  BY <1>5 DEF EmitJournal, EvaluatePolicy, RecordRejected, RecordJournal, Await, ResolveJournal
<1>6. CASE ExecuteCapability \/ RecordReceipt \/ ReceiptJournal \/ VerifyAndFinish \/ FinishJournal
  BY <1>6 DEF ExecuteCapability, RecordReceipt, ReceiptJournal, VerifyAndFinish, FinishJournal
<1>7. CASE CrashRun \/ Tick \/ (\E d \in {"UNRESOLVED", "CONFIRMED"} : RecordEffect(d))
  BY <1>7 DEF CrashRun, Tick, RecordEffect
<1>8. ASSUME NEW q \in People, Revoke(q) PROVE approval' = approval
  BY <1>8 DEF Revoke
<1>9. CASE UNCHANGED vars
  BY <1>9 DEF vars
<1>10. QED
  BY <1>1, <1>2, <1>3, <1>4, <1>5, <1>6, <1>7, <1>8, <1>9 DEF Next, Run

\* The first terminal decision wins (FirstDecisionWins): no answer, cancellation,
\* deadline or re-executed step changes an approval that is decided.
THEOREM GoldenFirstDecisionWins == Spec => FirstDecisionWins
<1>1. GateInv /\ [Next]_vars =>
        [approval.status \notin {"none", "PENDING"} => approval' = approval]_vars
  BY DecidedStays
<1>2. QED
  BY <1>1, GateInvariant, PTL DEF Spec, FirstDecisionWins

-----------------------------------------------------------------------------
(***************************************************************************)
(* Types.                                                                  *)
(***************************************************************************)

\* The rows that the ledger writes of run hold.
LEMMA EmitsTypes ==
    ASSUME NEW k \in DOMAIN Emits
    PROVE  /\ Emits[k].next \in Steps
           /\ Emits[k].status \in Statuses
           /\ Emits[k].step \in {"", "READY", "RUNNING", "COMPLETED"}
<1>1. k \in {"create", "compile", "deny", "require", "rejectFailed", "rejectCancelled",
             "approved", "ready", "start", "stepComplete", "verify"}
  BY DEF Emits
<1>2. /\ Emits["create"].next = "compile"
      /\ Emits["compile"].next = "evaluate"
      /\ Emits["deny"].next = "done"
      /\ Emits["require"].next = "wait"
      /\ Emits["rejectFailed"].next = "done"
      /\ Emits["rejectCancelled"].next = "done"
      /\ Emits["approved"].next = "start"
      /\ Emits["ready"].next = "start"
      /\ Emits["start"].next = "execute"
      /\ Emits["stepComplete"].next = "verify"
      /\ Emits["verify"].next = "finish"
  BY Zenon DEF Emits
<1>3. /\ Emits["create"].status = "RECEIVED"
      /\ Emits["compile"].status = "COMPILED"
      /\ Emits["deny"].status = "FAILED"
      /\ Emits["require"].status = "APPROVAL_REQUIRED"
      /\ Emits["rejectFailed"].status = "FAILED"
      /\ Emits["rejectCancelled"].status = "CANCELLED"
      /\ Emits["approved"].status = "READY"
      /\ Emits["ready"].status = "READY"
      /\ Emits["start"].status = "RUNNING"
      /\ Emits["stepComplete"].status = "RUNNING"
      /\ Emits["verify"].status = "VERIFYING"
  BY Zenon DEF Emits
<1>4. /\ Emits["create"].step = ""
      /\ Emits["compile"].step = "READY"
      /\ Emits["deny"].step = ""
      /\ Emits["require"].step = ""
      /\ Emits["rejectFailed"].step = ""
      /\ Emits["rejectCancelled"].step = ""
      /\ Emits["approved"].step = ""
      /\ Emits["ready"].step = ""
      /\ Emits["start"].step = "RUNNING"
      /\ Emits["stepComplete"].step = "COMPLETED"
      /\ Emits["verify"].step = ""
  BY Zenon DEF Emits
<1>5. /\ {"compile", "deny", "require", "start", "verify", "evaluate", "wait", "execute", "finish", "done"} \subseteq Steps
      /\ {"RECEIVED", "COMPILED", "FAILED", "APPROVAL_REQUIRED", "CANCELLED", "READY", "RUNNING", "VERIFYING"} \subseteq Statuses
  BY DEF Steps, Emits, Statuses, Transitions
<1>6. Emits[k].next \in Steps  BY <1>1, <1>2, <1>5
<1>7. Emits[k].status \in Statuses  BY <1>1, <1>3, <1>5
<1>8. Emits[k].step \in {"", "READY", "RUNNING", "COMPLETED"}  BY <1>1, <1>4
<1> QED  BY <1>6, <1>7, <1>8

\* What finish makes of a row is a row.
LEMMA ResolvedType ==
    ASSUME NEW action, NEW actor \in People, dbNow \in Int
    PROVE  Resolved(action, actor) \in Approvals
<1> DEFINE r == Resolved(action, actor)
<1>1. /\ r.status \in {"EXPIRED", "GRANTED", "DENIED"}
      /\ r.reason \in {"EXPIRED", "CANCELLED", "HUMAN"}
      /\ r.by = actor /\ r.at = dbNow
      /\ r = [status |-> r.status, reason |-> r.reason, by |-> r.by, at |-> r.at]
  BY DEF Resolved
<1> HIDE DEF r
<1>2. r \in Approvals
  BY <1>1 DEF Approvals
<1> QED  BY <1>2 DEF r

\* finish, with a caller that is one of the people, keeps the types of its rows.
LEMMA FinishTypes ==
    ASSUME GoldenTypeOK, NEW action, NEW actor \in People, Finish(action, actor)
    PROVE  /\ approval' \in Approvals /\ events' \subseteq Steps \cup {"resolved"}
           /\ UNCHANGED <<task, step, run, outcome>>
<1>1. dbNow \in Int
  <2>1. now \in Nat /\ skew \in Int  BY GoldenConstants DEF GoldenTypeOK
  <2> QED  BY <2>1 DEF dbNow
<1>2. Resolved(action, actor) \in Approvals  BY <1>1, ResolvedType
<1>3. approval \in Approvals /\ events \subseteq Steps \cup {"resolved"}  BY DEF GoldenTypeOK
<1>4. \/ UNCHANGED rows
      \/ /\ approval' = Resolved(action, actor) /\ events' = events \cup {"resolved"}
         /\ UNCHANGED <<task, step, run, outcome>>
  BY DEF Finish
<1> QED  BY <1>2, <1>3, <1>4 DEF rows

\* Every step keeps the types of the rows.
LEMMA RowTypeStep ==
    ASSUME GoldenTypeOK, [Next]_vars
    PROVE  /\ approval' \in Approvals /\ events' \subseteq Steps \cup {"resolved"}
           /\ task' \in Statuses \cup {"none"}
           /\ step' \in {"none", "READY", "RUNNING", "COMPLETED"}
           /\ outcome' \in {"none", "COMPLETED", "FAILED"}
           /\ run' \in BOOLEAN
<1>0. /\ approval \in Approvals /\ events \subseteq Steps \cup {"resolved"}
      /\ task \in Statuses \cup {"none"} /\ step \in {"none", "READY", "RUNNING", "COMPLETED"}
      /\ outcome \in {"none", "COMPLETED", "FAILED"} /\ run \in BOOLEAN /\ pc \in Steps
  BY DEF GoldenTypeOK
<1>1. CASE Emit
  <2>1. pc \in DOMAIN Emits /\ LedgerWrite(pc, Emits[pc])  BY <1>1 DEF Emit
  <2>2. PICK k \in DOMAIN Emits : k = pc  BY <2>1
  <2> QED  BY <1>0, <2>1, <2>2, EmitsTypes DEF LedgerWrite, rows
<1>2. CASE RecordPolicy
  <2>1. Pending \in Approvals
    <3>1. "" \in People \cup {""} /\ 0 \in Int  OBVIOUS
    <3> QED  BY <3>1 DEF Pending, Approvals
  <2>2. "record" \in Steps  BY DEF Steps
  <2> QED  BY <1>0, <1>2, <2>1, <2>2 DEF RecordPolicy, rows
<1>3. CASE ResolveDeadline
  <2>1. "principal" \in People /\ Finish("EXPIRE", "principal")  BY <1>3 DEF ResolveDeadline, People
  <2> QED  BY <1>0, <2>1, FinishTypes
<1>4. ASSUME NEW c \in Calls, Answer(c) PROVE
        /\ approval' \in Approvals /\ events' \subseteq Steps \cup {"resolved"}
        /\ UNCHANGED <<task, step, run, outcome>>
  <2>1. CallActor[c] \in People  BY GoldenConstants
  <2>2. Finish(CallAction[c], CallActor[c])  BY <1>4 DEF Answer
  <2> QED  BY <2>1, <2>2, FinishTypes
<1>5. CASE RecordReceipt
  <2>1. run' = TRUE /\ UNCHANGED <<task, step, events, approval, outcome>>  BY <1>5 DEF RecordReceipt
  <2>2. run' \in BOOLEAN  BY <2>1, Zenon
  <2> QED  BY <1>0, <2>1, <2>2
<1>6. CASE VerifyAndFinish
  BY <1>0, <1>6 DEF VerifyAndFinish, Statuses, Transitions
<1>7. CASE EmitJournal \/ EvaluatePolicy \/ RecordRejected \/ RecordJournal \/ Await \/ ResolveJournal
           \/ ExecuteCapability \/ ReceiptJournal \/ FinishJournal \/ CrashRun \/ Tick \/ UNCHANGED vars
           \/ (\E c \in Calls : Refuse(c) \/ Notify(c) \/ CrashCall(c)) \/ (\E q \in People : Revoke(q))
  <2>1. UNCHANGED rows
    BY <1>7 DEF EmitJournal, EvaluatePolicy, RecordRejected, RecordJournal, Await, ResolveJournal,
       ExecuteCapability, ReceiptJournal, FinishJournal, CrashRun, Tick, vars, Refuse, Notify, CrashCall, Revoke
  <2> QED  BY <1>0, <2>1 DEF rows
<1>8. CASE (\E d \in {"UNRESOLVED", "CONFIRMED"} : RecordEffect(d))
  <2>1. UNCHANGED <<task, step, events, approval, run, outcome>>  BY <1>8 DEF RecordEffect
  <2> QED  BY <1>0, <2>1
<1> QED  BY <1>0, <1>1, <1>2, <1>3, <1>4, <1>5, <1>6, <1>7, <1>8 DEF Next, Run, Call

\* Only recordEffect adds a receipt.
LEMMA ReceiptTypeStep ==
    ASSUME GoldenTypeOK, [Next]_vars PROVE receipts' \subseteq {"UNRESOLVED", "CONFIRMED"}
<1> USE DEF rows
<1>1. receipts' = receipts \/ (\E d \in {"UNRESOLVED", "CONFIRMED"} : RecordEffect(d))
  BY DEF Next, Run, Call, Emit, EmitJournal, EvaluatePolicy, RecordPolicy, RecordRejected, RecordJournal, Await,
     ResolveDeadline, ResolveJournal, ExecuteCapability, RecordReceipt, ReceiptJournal, VerifyAndFinish,
     FinishJournal, Answer, Refuse, Notify, CrashCall, CrashRun, Tick, Revoke, vars, LedgerWrite, Finish
<1>2. ASSUME NEW d \in {"UNRESOLVED", "CONFIRMED"}, RecordEffect(d)
      PROVE receipts' = receipts \cup {d}
  BY <1>2 DEF RecordEffect
<1> QED  BY <1>1, <1>2 DEF GoldenTypeOK

\* Every step keeps the types of the run handler's position and journal.
LEMMA WorkflowTypeStep ==
    ASSUME GoldenTypeOK, [Next]_vars
    PROVE  /\ pc' \in Steps /\ effect' \in Effects \cup {""} /\ resolution' \in Approvals
           /\ timerAt' \in Nat /\ finishAt' \in Nat
           /\ committed' \in BOOLEAN
<1>0. /\ pc \in Steps /\ effect \in Effects \cup {""} /\ resolution \in Approvals
      /\ timerAt \in Nat /\ finishAt \in Nat /\ now \in Nat /\ Ttl \in Nat
      /\ committed \in BOOLEAN /\ approval' \in Approvals
  BY RowTypeStep, GoldenConstants DEF GoldenTypeOK
<1>1. committed' \in BOOLEAN
  <2>1. committed' = committed \/ committed' = TRUE \/ committed' = FALSE
    BY DEF Next, Run, Call, Emit, EmitJournal, EvaluatePolicy, RecordPolicy, RecordRejected, RecordJournal, Await,
       ResolveDeadline, ResolveJournal, ExecuteCapability, RecordReceipt, ReceiptJournal, VerifyAndFinish,
       FinishJournal, Answer, Refuse, Notify, CrashCall, CrashRun, Tick, Revoke, RecordEffect, vars, workflow
  <2> QED  BY <1>0, <2>1, Zenon
<1>2. CASE Emit \/ RecordPolicy \/ RecordReceipt \/ VerifyAndFinish \/ CrashRun \/ Tick \/ UNCHANGED vars
           \/ (\E c \in Calls : Call(c) \/ CrashCall(c)) \/ (\E q \in People : Revoke(q))
           \/ (\E d \in {"UNRESOLVED", "CONFIRMED"} : RecordEffect(d))
  <2>1. UNCHANGED <<pc, effect, resolution, timerAt, finishAt>>
    BY <1>2 DEF Emit, RecordPolicy, RecordReceipt, VerifyAndFinish, CrashRun, Tick, vars, Call, Answer, Refuse,
       Notify, CrashCall, Revoke, RecordEffect, workflow
  <2> QED  BY <1>0, <1>1, <2>1
<1>3. CASE EmitJournal
  <2>1. pc \in DOMAIN Emits /\ pc' = Emits[pc].next /\ UNCHANGED <<effect, resolution>>  BY <1>3 DEF EmitJournal
  <2>2. timerAt' \in Nat /\ finishAt' \in Nat
    <3>1. \/ timerAt' = now + (IF Ttl - now > 1 THEN Ttl - now ELSE 1)
          \/ timerAt' = timerAt
      BY <1>3 DEF EmitJournal
    <3>2. now + (IF Ttl - now > 1 THEN Ttl - now ELSE 1) \in Nat
      <4>1. now \in Nat /\ Ttl \in Nat  BY <1>0
      <4>2. CASE Ttl - now > 1  BY <4>1, <4>2
      <4>3. CASE ~(Ttl - now > 1)  BY <4>1, <4>3
      <4> QED  BY <4>2, <4>3
    <3>3. finishAt' = now \/ finishAt' = finishAt  BY <1>3 DEF EmitJournal
    <3> QED  BY <1>0, <3>1, <3>2, <3>3
  <2>3. PICK k \in DOMAIN Emits : k = pc  BY <2>1
  <2>4. pc' \in Steps  BY <2>1, <2>3, EmitsTypes
  <2> QED  BY <1>0, <1>1, <2>1, <2>2, <2>4
<1>4. CASE EvaluatePolicy \/ RecordRejected \/ RecordJournal \/ Await
  <2>1. /\ pc' \in {"record", "rejected", "deny", "require", "ready", "resolve"}
        /\ effect' \in Effects \/ effect' = effect
        /\ UNCHANGED <<resolution, timerAt, finishAt>>
    BY <1>4 DEF EvaluatePolicy, RecordRejected, RecordJournal, Await
  <2>2. pc' \in Steps  BY <2>1 DEF Steps, Emits
  <2> QED  BY <1>0, <1>1, <2>1, <2>2
<1>5. CASE ResolveDeadline
  BY <1>0, <1>1, <1>5 DEF ResolveDeadline
<1>6. CASE ResolveJournal \/ ExecuteCapability \/ ReceiptJournal \/ FinishJournal
  <2>1. /\ pc' \in {"approved", "rejectCancelled", "rejectFailed", "receipt", "rejected", "stepComplete", "done"}
        /\ UNCHANGED <<effect, resolution, timerAt, finishAt>>
    BY <1>6 DEF ResolveJournal, AfterDecision, ExecuteCapability, ReceiptJournal, FinishJournal
  <2>2. pc' \in Steps  BY <2>1 DEF Steps, Emits
  <2> QED  BY <1>0, <1>1, <2>1, <2>2
<1> QED  BY <1>2, <1>3, <1>4, <1>5, <1>6 DEF Next, Run

\* Every step keeps the types.
LEMMA GoldenTypeStep == GoldenTypeOK /\ [Next]_vars => GoldenTypeOK'
<1> SUFFICES ASSUME GoldenTypeOK, [Next]_vars PROVE GoldenTypeOK'
  OBVIOUS
<1>1. calls' \in [Calls -> {"sent", "answered", "ended"}]
  <2>1. \/ calls' = calls
        \/ \E c \in Calls, v \in {"sent", "answered", "ended"} : calls' = [calls EXCEPT ![c] = v]
    BY DEF Next, Run, Call, Emit, EmitJournal, EvaluatePolicy, RecordPolicy, RecordRejected, RecordJournal, Await,
       ResolveDeadline, ResolveJournal, ExecuteCapability, RecordReceipt, ReceiptJournal, VerifyAndFinish,
       FinishJournal, Answer, Refuse, Notify, CrashCall, CrashRun, Tick, Revoke, RecordEffect, vars, handlers
  <2> QED  BY <2>1 DEF GoldenTypeOK
<1>2. promise' \in BOOLEAN
  <2>1. promise' = promise \/ promise' = TRUE
    BY DEF Next, Run, Call, Emit, EmitJournal, EvaluatePolicy, RecordPolicy, RecordRejected, RecordJournal, Await,
       ResolveDeadline, ResolveJournal, ExecuteCapability, RecordReceipt, ReceiptJournal, VerifyAndFinish,
       FinishJournal, Answer, Refuse, Notify, CrashCall, CrashRun, Tick, Revoke, RecordEffect, vars, handlers
  <2> QED  BY <2>1, Zenon DEF GoldenTypeOK
<1>3. /\ now' = now \/ now' = now + 1
      /\ skew' = skew /\ members' \subseteq members
      /\ crashes' = crashes \/ (crashes < MaxCrashes /\ crashes' = crashes + 1)
  BY DEF Next, Run, Call, Emit, EmitJournal, EvaluatePolicy, RecordPolicy, RecordRejected, RecordJournal, Await,
     ResolveDeadline, ResolveJournal, ExecuteCapability, RecordReceipt, ReceiptJournal, VerifyAndFinish,
     FinishJournal, Answer, Refuse, Notify, CrashCall, CrashRun, Tick, Revoke, RecordEffect, vars, world
<1>4. now' \in Nat /\ skew' \in Skews /\ members' \subseteq People /\ crashes' \in 0..MaxCrashes
  <2>1. now \in Nat /\ skew \in Skews /\ members \subseteq People /\ crashes \in 0..MaxCrashes /\ MaxCrashes \in Nat
    BY GoldenConstants DEF GoldenTypeOK
  <2> QED  BY <1>3, <2>1
<1> QED  BY <1>1, <1>2, <1>4, RowTypeStep, ReceiptTypeStep, WorkflowTypeStep DEF GoldenTypeOK

LEMMA GoldenTypeInit == Init => GoldenTypeOK
<1> SUFFICES ASSUME Init PROVE GoldenTypeOK  OBVIOUS
<1>1. committed \in BOOLEAN /\ promise \in BOOLEAN /\ run \in BOOLEAN  BY Zenon DEF Init
<1>2. NoApproval \in Approvals
  <2>1. "" \in People \cup {""} /\ 0 \in Int  OBVIOUS
  <2> QED  BY <2>1 DEF NoApproval, Approvals
<1>3. pc \in Steps  BY DEF Init, Steps, Emits
<1>4. calls \in [Calls -> {"sent", "answered", "ended"}]  BY DEF Init
<1>5. crashes \in 0..MaxCrashes
  <2>1. crashes = 0 /\ MaxCrashes \in Nat  BY GoldenConstants DEF Init
  <2> QED  BY <2>1
<1> QED  BY <1>1, <1>2, <1>3, <1>4, <1>5 DEF Init, GoldenTypeOK, People

\* Every row, journal entry and clock of the workflow keeps its type
\* (GoldenTypeOK), for any rules, deadline, skew, callers and crashes.
THEOREM GoldenTypes == Spec => []GoldenTypeOK
  BY GoldenTypeInit, GoldenTypeStep, PTL DEF Spec

-----------------------------------------------------------------------------
(***************************************************************************)
(* The task and its approval end together.  The handler leaves the wait    *)
(* either because a handler that committed a decision signalled it, or at  *)
(* the timer; when the database clock does not lag, the approval is past   *)
(* its deadline at the timer, so resolve-deadline always reads a decision. *)
(***************************************************************************)

Decided == approval.status \notin {"none", "PENDING"}

\* The policy event exists from the commit of record-policy on, and the two
\* steps that commit nothing have nothing to journal.
PolicyEventByStep ==
    /\ pc \in {"create", "compile", "evaluate"} => "record" \notin events
    /\ (pc = "record" /\ committed) \/ pc \in AtGate => "record" \in events
    /\ pc \in {"evaluate", "wait"} => ~committed

\* The approvals row exists exactly when a recorded policy requires one.
ApprovalIffRequired ==
    "record" \in events => (approval.status # "none" <=> effect = "APPROVAL_REQUIRED")

\* Only a decision other than a grant carries the reason CANCELLED.
CancelledIsDecided ==
    approval.reason = "CANCELLED" => approval.status \notin {"none", "PENDING", "GRANTED"}

\* The workflow promise, and a handler about to resolve it, follow a decision.
SignalMeansDecided ==
    promise \/ (\E c \in Calls : calls[c] = "answered") => Decided

\* The wait ends with a signal or at a timer no earlier than the deadline.
WaitEnds ==
    /\ pc \in {"wait", "resolve"} => timerAt >= Ttl
    /\ pc = "resolve" => promise \/ now >= timerAt

\* What the handler carries from resolve-deadline is the row's decision.
ReadDecision ==
    skew >= 0 =>
        /\ pc = "resolve" /\ committed => Decided /\ resolution = approval
        /\ pc = "rejectFailed" => Decided /\ approval.reason # "CANCELLED"
        /\ pc = "rejectCancelled" => Decided /\ approval.reason = "CANCELLED"

DenyIsPolicy == pc = "deny" => effect = "DENY"

\* What the rows, the signals and the callers say of the decision.
RowsAgree ==
    ApprovalIffRequired /\ CancelledIsDecided /\ SignalMeansDecided /\ TaskAgreesWithDecision

\* What the position of the run handler says of it.
PositionAgrees ==
    PolicyEventByStep /\ WaitEnds /\ ReadDecision /\ DenyIsPolicy

AgreeInv == GoldenTypeOK /\ GateInv /\ RowsAgree /\ PositionAgrees

\* finish touches the approval and the "resolved" event only, and only a row
\* that is PENDING.
LEMMA FinishRows ==
    ASSUME NEW action, NEW actor, Finish(action, actor)
    PROVE  /\ task' = task
           /\ "record" \in events' <=> "record" \in events
           /\ \/ approval' = approval
              \/ approval.status = "PENDING" /\ approval' = Resolved(action, actor)
  BY DEF Finish, rows

\* finish decides a row, unless it expires one whose deadline is not reached.
LEMMA FinishDecides ==
    ASSUME NEW action, NEW actor, Finish(action, actor),
           approval.status # "none", action # "EXPIRE" \/ Expired
    PROVE  Decided'
<1>1. CASE approval.status = "PENDING"
  <2>1. approval' = Resolved(action, actor)  BY <1>1 DEF Finish
  <2>2. approval'.status \in {"GRANTED", "DENIED", "EXPIRED"}  BY <2>1, ResolvedDecided
  <2> QED  BY <2>2 DEF Decided
<1>2. CASE approval.status # "PENDING"
  <2>1. approval' = approval  BY <1>2 DEF Finish, rows
  <2> QED  BY <1>2, <2>1 DEF Decided
<1> QED  BY <1>1, <1>2

\* A resolution with the reason CANCELLED is a denial.
LEMMA ResolvedCancelled ==
    ASSUME NEW action, NEW actor, Resolved(action, actor).reason = "CANCELLED"
    PROVE  Resolved(action, actor).status = "DENIED"
  BY DEF Resolved

\* The status each ledger write of run leaves: a terminal one only from the
\* three steps that end the task.
LEMMA EmitsTerminal ==
    ASSUME NEW k \in DOMAIN Emits
    PROVE  /\ k # "record"
           /\ \/ Emits[k].status \notin Terminal
              \/ k = "deny" /\ Emits[k].status = "FAILED"
              \/ k = "rejectFailed" /\ Emits[k].status = "FAILED"
              \/ k = "rejectCancelled" /\ Emits[k].status = "CANCELLED"
<1>1. k \in {"create", "compile", "deny", "require", "rejectFailed", "rejectCancelled",
             "approved", "ready", "start", "stepComplete", "verify"}
  BY DEF Emits
<1>2. /\ Emits["create"].status = "RECEIVED"
      /\ Emits["compile"].status = "COMPILED"
      /\ Emits["deny"].status = "FAILED"
      /\ Emits["require"].status = "APPROVAL_REQUIRED"
      /\ Emits["rejectFailed"].status = "FAILED"
      /\ Emits["rejectCancelled"].status = "CANCELLED"
      /\ Emits["approved"].status = "READY"
      /\ Emits["ready"].status = "READY"
      /\ Emits["start"].status = "RUNNING"
      /\ Emits["stepComplete"].status = "RUNNING"
      /\ Emits["verify"].status = "VERIFYING"
  BY Zenon DEF Emits
<1> QED  BY <1>1, <1>2 DEF Terminal

\* The steps that follow a ledger write.
LEMMA EmitsSuccessors ==
    ASSUME NEW k \in DOMAIN Emits
    PROVE  /\ Emits[k].next \notin {"record", "require", "resolve", "create", "deny", "rejectFailed", "rejectCancelled"}
           /\ Emits[k].next = "wait" => k = "require"
           /\ Emits[k].next \in {"compile", "evaluate"} => k \in {"create", "compile"}
<1>1. k \in {"create", "compile", "deny", "require", "rejectFailed", "rejectCancelled",
             "approved", "ready", "start", "stepComplete", "verify"}
  BY DEF Emits
<1>2. /\ Emits["create"].next = "compile"
      /\ Emits["compile"].next = "evaluate"
      /\ Emits["deny"].next = "done"
      /\ Emits["require"].next = "wait"
      /\ Emits["rejectFailed"].next = "done"
      /\ Emits["rejectCancelled"].next = "done"
      /\ Emits["approved"].next = "start"
      /\ Emits["ready"].next = "start"
      /\ Emits["start"].next = "execute"
      /\ Emits["stepComplete"].next = "verify"
      /\ Emits["verify"].next = "finish"
  BY Zenon DEF Emits
<1> QED  BY <1>1, <1>2

\* The rows agree after a step that keeps the decision, if a task that ends in
\* it ends as the decision says.
LEMMA RowsKeep ==
    ASSUME RowsAgree, approval' = approval, effect' = effect, skew' = skew,
           "record" \in events' <=> "record" \in events,
           promise' => promise \/ Decided,
           (\E c \in Calls : calls'[c] = "answered") => Decided,
           \/ task' = task
           \/ task' \notin Terminal
           \/ skew >= 0 => /\ approval.status # "PENDING"
                           /\ task' = "CANCELLED" <=> approval.reason = "CANCELLED"
    PROVE  RowsAgree'
<1>1. ApprovalIffRequired' /\ CancelledIsDecided' /\ SignalMeansDecided'
  BY DEF RowsAgree, ApprovalIffRequired, CancelledIsDecided, SignalMeansDecided, Decided
<1>2. TaskAgreesWithDecision'
  BY DEF RowsAgree, TaskAgreesWithDecision
<1> QED  BY <1>1, <1>2 DEF RowsAgree

\* Every step keeps what the rows say.
LEMMA RowsAgreeStep ==
    ASSUME AgreeInv, [Next]_vars PROVE RowsAgree'
<1> USE DEF workflow, handlers, rows, world
<1>0. /\ RowsAgree /\ PositionAgrees /\ GateInv
      /\ (\E c \in Calls : calls[c] = "answered") => Decided
      /\ calls \in [Calls -> {"sent", "answered", "ended"}]
  BY DEF AgreeInv, RowsAgree, SignalMeansDecided, GoldenTypeOK
<1>1. CASE Emit
  <2>1. /\ pc \in DOMAIN Emits /\ LedgerWrite(pc, Emits[pc])
        /\ UNCHANGED <<effect, skew, promise, calls>>
    BY <1>1 DEF Emit
  <2>2. PICK k \in DOMAIN Emits : k = pc  BY <2>1
  <2>3. approval' = approval /\ ("record" \in events' <=> "record" \in events)
    BY <2>1, <2>2, EmitsTerminal DEF LedgerWrite
  <2>4. task' = task \/ task' = Emits[k].status
    BY <2>1, <2>2 DEF LedgerWrite
  <2>5. CASE k = "deny" /\ task' = "FAILED"
    <3>1. effect = "DENY"  BY <1>0, <2>2, <2>5 DEF PositionAgrees, DenyIsPolicy
    <3>2. approval.status = "none"
      BY <1>0, <3>1 DEF RowsAgree, ApprovalIffRequired, GateInv, ApprovalNeedsPolicy
    <3>3. approval.reason # "CANCELLED"  BY <1>0, <3>2 DEF RowsAgree, CancelledIsDecided
    <3> QED  BY <1>0, <2>1, <2>3, <2>5, <3>2, <3>3, RowsKeep
  <2>6. CASE k = "rejectFailed" /\ task' = "FAILED"
    <3>1. skew >= 0 => Decided /\ approval.reason # "CANCELLED"
      BY <1>0, <2>2, <2>6 DEF PositionAgrees, ReadDecision
    <3> QED  BY <1>0, <2>1, <2>3, <2>6, <3>1, RowsKeep DEF Decided
  <2>7. CASE k = "rejectCancelled" /\ task' = "CANCELLED"
    <3>1. skew >= 0 => Decided /\ approval.reason = "CANCELLED"
      BY <1>0, <2>2, <2>7 DEF PositionAgrees, ReadDecision
    <3> QED  BY <1>0, <2>1, <2>3, <2>7, <3>1, RowsKeep DEF Decided
  <2>8. CASE task' = task \/ task' \notin Terminal
    BY <1>0, <2>1, <2>3, <2>8, RowsKeep
  <2> QED  BY <2>2, <2>4, <2>5, <2>6, <2>7, <2>8, EmitsTerminal
<1>2. CASE EvaluatePolicy
  <2>1. pc = "evaluate" /\ UNCHANGED <<approval, events, skew, promise, calls, task>>
    BY <1>2 DEF EvaluatePolicy
  <2>2. "record" \notin events  BY <1>0, <2>1 DEF PositionAgrees, PolicyEventByStep
  <2> QED
    BY <1>0, <2>1, <2>2 DEF RowsAgree, ApprovalIffRequired, CancelledIsDecided, SignalMeansDecided,
       TaskAgreesWithDecision, Decided
<1>3. CASE RecordPolicy
  <2>1. UNCHANGED <<effect, skew, promise, calls, task>>  BY <1>3 DEF RecordPolicy
  <2>2. CASE UNCHANGED rows  BY <1>0, <2>1, <2>2, RowsKeep
  <2>3. CASE ~UNCHANGED rows
    <3>1. /\ "record" \notin events /\ task = "COMPILED" /\ "record" \in events'
          /\ approval' = IF effect = "APPROVAL_REQUIRED" THEN Pending ELSE approval
      BY <1>3, <2>3 DEF RecordPolicy, RecordAllowed
    <3>2. approval.status = "none"  BY <1>0, <3>1 DEF GateInv, ApprovalNeedsPolicy
    <3>3. ~Decided  BY <3>2 DEF Decided
    <3>4. Pending.status = "PENDING" /\ Pending.reason = ""  BY DEF Pending
    <3>5. ApprovalIffRequired' /\ CancelledIsDecided'
      BY <1>0, <2>1, <3>1, <3>2, <3>4 DEF ApprovalIffRequired, CancelledIsDecided, RowsAgree
    <3>6. SignalMeansDecided' /\ TaskAgreesWithDecision'
      BY <1>0, <2>1, <3>1, <3>3 DEF RowsAgree, SignalMeansDecided, TaskAgreesWithDecision, Terminal
    <3> QED  BY <3>5, <3>6 DEF RowsAgree
  <2> QED  BY <2>2, <2>3
<1>4. ASSUME NEW action, NEW actor, Finish(action, actor), UNCHANGED <<effect, skew>>,
             promise' = promise,
             (\E c \in Calls : calls'[c] = "answered") => Decided'
      PROVE  RowsAgree'
  <2>1. /\ task' = task
        /\ "record" \in events' <=> "record" \in events
        /\ \/ approval' = approval
           \/ approval.status = "PENDING" /\ approval' = Resolved(action, actor)
    BY <1>4, FinishRows
  <2>2. CASE approval' = approval
    <3>1. Decided' <=> Decided  BY <2>2 DEF Decided
    <3> QED  BY <1>0, <1>4, <2>1, <2>2, <3>1, RowsKeep
  <2>3. CASE approval.status = "PENDING" /\ approval' = Resolved(action, actor)
    <3>1. approval'.status \in {"GRANTED", "DENIED", "EXPIRED"}  BY <2>3, ResolvedDecided
    <3>2. ApprovalIffRequired'
      BY <1>0, <1>4, <2>1, <2>3, <3>1 DEF RowsAgree, ApprovalIffRequired
    <3>3. CancelledIsDecided'  BY <2>3, ResolvedCancelled DEF CancelledIsDecided
    <3>4. SignalMeansDecided'  BY <3>1 DEF SignalMeansDecided, Decided
    <3>5. TaskAgreesWithDecision'
      BY <1>0, <1>4, <2>1, <2>3 DEF RowsAgree, TaskAgreesWithDecision
    <3> QED  BY <3>2, <3>3, <3>4, <3>5 DEF RowsAgree
  <2> QED  BY <2>1, <2>2, <2>3
<1>5. CASE ResolveDeadline
  <2>1. /\ Finish("EXPIRE", "principal") /\ UNCHANGED <<effect, skew>>
        /\ promise' = promise /\ calls' = calls
    BY <1>5 DEF ResolveDeadline
  <2>2. Decided => Decided'
    BY <2>1, FinishRows DEF Decided
  <2> QED  BY <1>0, <1>4, <2>1, <2>2
<1>6. CASE VerifyAndFinish
  <2>1. /\ pc = "finish"
        /\ UNCHANGED <<effect, skew, promise, calls, events, approval>>
        /\ task' = task \/ task' = "COMPLETED" \/ task' = "FAILED"
    BY <1>6 DEF VerifyAndFinish
  <2>2. Authorized  BY <1>0, <2>1 DEF GateInv, PastGateAuthorized, PastGate
  <2>3. approval.status \in {"none", "GRANTED"}
    BY <1>0, <2>2 DEF Authorized, RowsAgree, ApprovalIffRequired, GateInv, ApprovalNeedsPolicy
  <2>4. approval.reason # "CANCELLED"  BY <1>0, <2>3 DEF RowsAgree, CancelledIsDecided
  <2> QED  BY <1>0, <2>1, <2>3, <2>4, RowsKeep
<1>7. ASSUME NEW c \in Calls, Answer(c) PROVE RowsAgree'
  <2>1. /\ Finish(CallAction[c], CallActor[c]) /\ UNCHANGED <<effect, skew>>
        /\ promise' = promise /\ approval.status # "none"
    BY <1>7 DEF Answer, CallerAllowed
  <2>2. CallAction[c] # "EXPIRE"
    <3>1. CallAction[c] \in {"GRANTED", "DENIED", "CANCEL"}  BY GoldenConstants
    <3> QED  BY <3>1
  <2>3. Decided'  BY <2>1, <2>2, FinishDecides
  <2> QED  BY <1>4, <2>1, <2>3
<1>8. ASSUME NEW c \in Calls, Refuse(c) \/ Notify(c) \/ CrashCall(c) PROVE RowsAgree'
  <2>1. /\ UNCHANGED <<effect, skew, approval, task, events>>
        /\ promise' = promise \/ calls[c] = "answered"
        /\ \E v \in {"sent", "ended"} : calls' = [calls EXCEPT ![c] = v]
    BY <1>8 DEF Refuse, Notify, CrashCall
  <2>2. (\E d \in Calls : calls'[d] = "answered") => (\E d \in Calls : calls[d] = "answered")
    BY <1>0, <2>1
  <2> QED  BY <1>0, <2>1, <2>2, RowsKeep
<1>9. CASE EmitJournal \/ RecordRejected \/ RecordJournal \/ Await \/ ResolveJournal \/ ExecuteCapability
           \/ RecordReceipt \/ ReceiptJournal \/ FinishJournal \/ CrashRun \/ Tick \/ UNCHANGED vars
           \/ (\E q \in People : Revoke(q)) \/ (\E d \in {"UNRESOLVED", "CONFIRMED"} : RecordEffect(d))
  <2>1. UNCHANGED <<effect, skew, approval, task, events, promise, calls>>
    BY <1>9 DEF EmitJournal, RecordRejected, RecordJournal, Await, ResolveJournal, ExecuteCapability,
       RecordReceipt, ReceiptJournal, FinishJournal, CrashRun, Tick, vars, Revoke, RecordEffect
  <2> QED  BY <1>0, <2>1, RowsKeep
<1> QED
  BY <1>1, <1>2, <1>3, <1>5, <1>6, <1>7, <1>8, <1>9 DEF Next, Run, Call

\* What a position says survives a step that stays there, keeps the approval
\* or finds it decided, and neither commits nor moves the deadline.
LEMMA StayKeepsPosition ==
    ASSUME AgreeInv, [Next]_vars, pc' = pc, committed' => committed, resolution' = resolution,
           effect' = effect, skew' = skew, timerAt' = timerAt, promise => promise',
           now' = now \/ now' = now + 1,
           "record" \in events' <=> "record" \in events
    PROVE  PositionAgrees'
<1>0. /\ PolicyEventByStep /\ WaitEnds /\ ReadDecision /\ DenyIsPolicy
      /\ now \in Nat /\ timerAt \in Nat /\ GateInv
  BY DEF AgreeInv, PositionAgrees, GoldenTypeOK
<1>1. PolicyEventByStep' /\ DenyIsPolicy'
  BY <1>0 DEF PolicyEventByStep, DenyIsPolicy
<1>2. WaitEnds'
  <2>1. now >= timerAt => now' >= timerAt  BY <1>0
  <2> QED  BY <1>0, <2>1 DEF WaitEnds
<1>3. ReadDecision'
  <2>1. Decided => approval' = approval  BY <1>0, DecidedStays DEF Decided
  <2> QED  BY <1>0, <2>1 DEF ReadDecision, Decided
<1> QED  BY <1>1, <1>2, <1>3 DEF PositionAgrees

\* Every step keeps what the position says.
LEMMA PositionStep ==
    ASSUME AgreeInv, [Next]_vars PROVE PositionAgrees'
<1> USE DEF workflow, handlers, rows, world
<1>0. /\ PolicyEventByStep /\ WaitEnds /\ ReadDecision /\ DenyIsPolicy
      /\ now \in Nat /\ timerAt \in Nat /\ Ttl \in Nat /\ skew \in Int /\ GateInv /\ RowsAgree
  BY GoldenConstants DEF AgreeInv, PositionAgrees, GoldenTypeOK
<1> USE DEF PositionAgrees, PolicyEventByStep, WaitEnds, ReadDecision, DenyIsPolicy, AtGate
<1>1. CASE Emit
  <2>1. /\ pc \in DOMAIN Emits /\ LedgerWrite(pc, Emits[pc])
        /\ UNCHANGED <<pc, effect, skew, now, timerAt, promise>>
    BY <1>1 DEF Emit
  <2>2. PICK k \in DOMAIN Emits : k = pc  BY <2>1
  <2>3. /\ approval' = approval /\ ("record" \in events' <=> "record" \in events)
        /\ pc # "record"
    BY <2>1, <2>2, EmitsTerminal DEF LedgerWrite
  <2>4. pc \notin {"resolve", "evaluate", "wait"}  BY <2>1 DEF Emits
  <2> QED  BY <1>0, <2>1, <2>3, <2>4 DEF Decided
<1>2. CASE EmitJournal
  <2>1. /\ pc \in DOMAIN Emits /\ pc' = Emits[pc].next /\ committed' = FALSE
        /\ timerAt' = IF pc' = "wait" THEN now + (IF Ttl - now > 1 THEN Ttl - now ELSE 1) ELSE timerAt
        /\ UNCHANGED <<effect, resolution, rows, promise, now, skew>>
    BY <1>2 DEF EmitJournal
  <2>2. PICK k \in DOMAIN Emits : k = pc  BY <2>1
  <2>3. /\ Emits[k].next \notin {"record", "require", "resolve", "create", "deny", "rejectFailed", "rejectCancelled"}
        /\ Emits[k].next = "wait" => k = "require"
        /\ Emits[k].next \in {"compile", "evaluate"} => k \in {"create", "compile"}
    BY EmitsSuccessors
  <2>4. pc' = "wait" => timerAt' >= Ttl
    <3>1. CASE Ttl - now > 1  BY <1>0, <2>1, <3>1
    <3>2. CASE ~(Ttl - now > 1)  BY <1>0, <2>1, <3>2
    <3> QED  BY <3>1, <3>2
  <2> QED  BY <1>0, <2>1, <2>2, <2>3, <2>4
<1>3. CASE EvaluatePolicy
  <2>1. /\ pc' = "record" /\ pc = "evaluate" /\ committed' = committed /\ UNCHANGED rows
        /\ UNCHANGED <<timerAt, now, promise>>
    BY <1>3 DEF EvaluatePolicy
  <2>2. ~committed  BY <1>0, <2>1
  <2> QED  BY <1>0, <2>1, <2>2
<1>4. CASE RecordPolicy
  <2>1. /\ pc = "record" /\ pc' = pc /\ "record" \in events'
        /\ UNCHANGED <<timerAt, now, promise>>
    BY <1>4 DEF RecordPolicy
  <2> QED  BY <1>0, <2>1
<1>5. CASE RecordRejected
  <2>1. pc' = "rejected"  BY <1>5 DEF RecordRejected
  <2> QED  BY <2>1
<1>6. CASE RecordJournal
  <2>1. /\ \/ pc' = "deny" /\ effect = "DENY"
           \/ pc' = "require" \/ pc' = "ready"
        /\ effect' = effect /\ events' = events /\ "record" \in events
    BY <1>0, <1>6 DEF RecordJournal
  <2> QED  BY <2>1
<1>7. CASE Await
  <2>1. /\ pc = "wait" /\ pc' = "resolve" /\ committed' = committed
        /\ promise \/ now >= timerAt
        /\ UNCHANGED <<events, timerAt, promise, now>>
    BY <1>7 DEF Await
  <2>2. ~committed  BY <1>0, <2>1
  <2> QED  BY <1>0, <2>1, <2>2
<1>8. CASE ResolveDeadline
  <2>1. /\ pc = "resolve" /\ pc' = pc /\ Finish("EXPIRE", "principal") /\ resolution' = approval'
        /\ UNCHANGED <<timerAt, promise, now, skew>>
    BY <1>8 DEF ResolveDeadline
  <2>2. "record" \in events' /\ approval.status # "none"
    <3>1. "record" \in events /\ effect = "APPROVAL_REQUIRED"
      BY <1>0, <2>1 DEF GateInv, GateIsForApproval
    <3> QED  BY <1>0, <2>1, <3>1, FinishRows DEF RowsAgree, ApprovalIffRequired
  <2>3. ASSUME skew >= 0 PROVE Decided'
    <3>1. CASE promise
      <4>1. Decided  BY <1>0, <3>1 DEF RowsAgree, SignalMeansDecided
      <4> QED  BY <2>1, <4>1, FinishRows DEF Decided
    <3>2. CASE now >= timerAt
      <4>1. timerAt >= Ttl  BY <1>0, <2>1
      <4>2. Expired  BY <1>0, <2>3, <3>2, <4>1 DEF Expired, dbNow
      <4> QED  BY <2>1, <2>2, <4>2, FinishDecides
    <3> QED  BY <1>0, <2>1, <3>1, <3>2
  <2> QED  BY <1>0, <2>1, <2>2, <2>3
<1>9. CASE ResolveJournal
  <2>1. /\ pc = "resolve" /\ committed /\ pc' = AfterDecision(resolution)
        /\ UNCHANGED <<approval, skew>>
    BY <1>9 DEF ResolveJournal
  <2>2. skew >= 0 => Decided /\ resolution = approval  BY <1>0, <2>1
  <2>3. /\ pc' \in {"approved", "rejectCancelled", "rejectFailed"}
        /\ pc' = "rejectCancelled" => resolution.reason = "CANCELLED"
        /\ pc' = "rejectFailed" => resolution.reason # "CANCELLED"
    BY <2>1 DEF AfterDecision
  <2> QED  BY <2>1, <2>2, <2>3 DEF Decided
<1>10. CASE ExecuteCapability \/ ReceiptJournal \/ FinishJournal
  <2>1. pc' \in {"receipt", "rejected", "stepComplete", "done"}
    BY <1>10 DEF ExecuteCapability, ReceiptJournal, FinishJournal
  <2> QED  BY <2>1
<1>11. CASE RecordReceipt \/ VerifyAndFinish
  <2>1. pc' \in {"receipt", "finish"}  BY <1>11 DEF RecordReceipt, VerifyAndFinish
  <2> QED  BY <2>1
<1>12. ASSUME NEW c \in Calls, Call(c) \/ CrashCall(c) PROVE PositionAgrees'
  <2>1. UNCHANGED <<pc, committed, resolution, effect, skew, timerAt, now>> /\ (promise => promise')
    BY <1>12 DEF Call, Answer, Refuse, Notify, CrashCall
  <2>2. "record" \in events' <=> "record" \in events
    BY <1>12, FinishRows DEF Call, Answer, Refuse, Notify, CrashCall
  <2> QED  BY <2>1, <2>2, StayKeepsPosition
<1>13. CASE CrashRun \/ Tick \/ UNCHANGED vars \/ (\E q \in People : Revoke(q))
           \/ (\E d \in {"UNRESOLVED", "CONFIRMED"} : RecordEffect(d))
  <2>1. /\ UNCHANGED <<pc, resolution, effect, skew, timerAt, promise, events>>
        /\ committed' = FALSE \/ committed' = committed
        /\ now' = now \/ now' = now + 1
    BY <1>13 DEF CrashRun, Tick, vars, Revoke, RecordEffect
  <2> QED  BY <2>1, StayKeepsPosition
<1> QED
  BY <1>1, <1>2, <1>3, <1>4, <1>5, <1>6, <1>7, <1>8, <1>9, <1>10, <1>11, <1>12, <1>13 DEF Next, Run

LEMMA AgreeInit == Init => AgreeInv
<1> SUFFICES ASSUME Init PROVE AgreeInv  OBVIOUS
<1>1. /\ pc = "create" /\ ~committed /\ events = {} /\ task = "none" /\ promise = FALSE
      /\ calls = [c \in Calls |-> "sent"] /\ approval = NoApproval
  BY DEF Init
<1>2. approval.status = "none" /\ approval.reason = ""  BY <1>1 DEF NoApproval
<1>3. RowsAgree
  BY <1>1, <1>2 DEF RowsAgree, ApprovalIffRequired, CancelledIsDecided, SignalMeansDecided,
     TaskAgreesWithDecision, Terminal
<1>4. PositionAgrees
  BY <1>1 DEF PositionAgrees, PolicyEventByStep, WaitEnds, ReadDecision, DenyIsPolicy, AtGate
<1> QED  BY <1>3, <1>4, GoldenTypeInit, GateInit DEF AgreeInv

\* While the database clock does not lag the worker's, a task that ended left no
\* PENDING approval behind, and it is CANCELLED exactly when its approval was
\* (TaskAgreesWithDecision), for any deadline, callers and crashes.
THEOREM GoldenTaskAgreesWithDecision == Spec => []TaskAgreesWithDecision
<1>1. AgreeInv /\ [Next]_vars => AgreeInv'
  BY RowsAgreeStep, PositionStep, GoldenTypeStep, GateStep DEF AgreeInv
<1>2. AgreeInv => TaskAgreesWithDecision
  BY DEF AgreeInv, RowsAgree
<1> QED  BY AgreeInit, <1>1, <1>2, PTL DEF Spec

=============================================================================
