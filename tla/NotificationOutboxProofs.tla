----------------------- MODULE NotificationOutboxProofs -----------------------
(***************************************************************************)
(* What the outbox guarantees for every set of notifications and workers,  *)
(* every retry policy and any number of runs that die, as long as no run   *)
(* lasts as long as staleSendingMs.  The argument is about time: a live    *)
(* claim is exactly as old as the run that made it, so it is never stale,  *)
(* and a row the monitor recovers is one that nobody else can write.       *)
(***************************************************************************)
EXTENDS NotificationOutbox, TLAPS

\* No run outlives the threshold that calls its claims abandoned.
RunsAreShort == MaxRun < StaleSending

Live == {"notify", "apply"}
Owned(i) == \E w \in Workers : pc[w] \in Live /\ cur[w].id = i

(***************************************************************************)
(* The inductive invariant, by parts.                                      *)
(***************************************************************************)

LagBounded == \A w \in Workers : lag[w] <= MaxRun

\* A live claim is as the run made it, and as old as the run.
ClaimIsFresh ==
  \A w \in Workers : pc[w] \in Live =>
    /\ rows[cur[w].id].status = "SENDING"
    /\ rows[cur[w].id].attempts = cur[w].attempts
    /\ rows[cur[w].id].age = lag[w]

\* What is left to recover is stale still, and as the query saw it.
RecoveryIsStale ==
  pc[Monitor] = "recover" => \A i \in todo[Monitor] :
    /\ rows[i].status = "SENDING" /\ rows[i].age >= StaleSending
    /\ seen[Monitor][i] = rows[i].attempts

\* An outcome of "ok" is the transport's.
OkWasAccepted ==
  \A w \in Workers : pc[w] = "apply" /\ res[w] = "ok" => cur[w].id \in accepted

\* A row that is waiting, or was abandoned by a run that died, has an attempt left
\* or a crash to account for it.
BudgetLeft ==
  \A i \in Intents :
    rows[i].status = "PENDING" \/ (rows[i].status = "SENDING" /\ ~Owned(i)) =>
      rows[i].attempts + 1 <= MaxAttempts + crashes

ClaimInv ==
  /\ LagBounded /\ ClaimIsFresh /\ OneSenderPerRow /\ RecoveryIsStale
  /\ OkWasAccepted /\ DeliveredWasAccepted /\ AttemptsWithinBudget /\ BudgetLeft

-----------------------------------------------------------------------------
(* Types *)

LEMMA RowTypes ==
  ASSUME NEW n \in Nat, NEW k \in Nat, NEW d \in Int, NEW st \in Statuses
  PROVE  Pending(n, d) \in Row /\ Sending(n, k) \in Row /\ Resting(st, n) \in Row
  BY DEF Pending, Sending, Resting, Row, Statuses

LEMMA BackoffType == ASSUME NEW n \in Nat PROVE Backoff(n) \in Int
<1> DEFINE delay == BaseDelay * 2 ^ Greater(0, n - 1)
<1>1. ASSUME NEW d PROVE (IF d \in 0..MaxDelay THEN d ELSE MaxDelay) \in Int
  BY OutboxAssumption DEF OutboxAssumption
<1>2. Backoff(n) = IF delay \in 0..MaxDelay THEN delay ELSE MaxDelay
  BY Zenon DEF Backoff
<1> HIDE DEF delay
<1> QED BY <1>1, <1>2

LEMMA DecideType ==
  ASSUME OutboxTypeOK, NEW w \in Workers, NEW n \in Nat, NEW r \in Results
  PROVE  Decide(n, r, w) \in Row
<1>1. Backoff(n) - lag[w] \in Int
  BY BackoffType DEF OutboxTypeOK
<1>2. {"DELIVERED", "POISON"} \subseteq Statuses
  BY DEF Statuses
<1> QED BY <1>1, <1>2, RowTypes DEF Decide

LEMMA LaterType == ASSUME NEW row \in Row PROVE Later(row) \in Row
  BY OutboxAssumption DEF OutboxAssumption, Later, Row, Statuses, Greater, Lesser, MaxAge

LEMMA NoClaimType == NoClaim \in [id : Intents, attempts : Nat]
  BY OutboxAssumption DEF OutboxAssumption, NoClaim

LEMMA TypeInit == Init => OutboxTypeOK
<1> SUFFICES ASSUME Init PROVE OutboxTypeOK OBVIOUS
<1>1. NoRow \in Row
  BY DEF NoRow, Resting, Row, Statuses
<1> QED BY <1>1, NoClaimType DEF Init, OutboxTypeOK, Steps, Results, NothingSeen

LEMMA QuitType ==
  ASSUME OutboxTypeOK, NEW w \in Workers, Quit(w), UNCHANGED <<rows, accepted>>, crashes' \in Nat
  PROVE  OutboxTypeOK'
  BY NoClaimType DEF OutboxTypeOK, Quit, Steps, Results, NothingSeen

LEMMA TypeStep == OutboxTypeOK /\ [Next]_vars => OutboxTypeOK'
<1> SUFFICES ASSUME OutboxTypeOK, [Next]_vars PROVE OutboxTypeOK'
  OBVIOUS
<1>m. Monitor \in Workers /\ Direct \subseteq Workers
  BY DEF Workers
<1>1. CASE UNCHANGED vars
  BY <1>1 DEF OutboxTypeOK, vars, workerVars
<1>2. ASSUME NEW i \in Intents, Enqueue(i) PROVE OutboxTypeOK'
  <2>1. Pending(0, 0) \in Row
    BY DEF Pending, Row, Statuses
  <2> QED BY <1>2, <2>1 DEF OutboxTypeOK, Enqueue, workerVars
<1>3. CASE MonitorStart
  <2> DEFINE lists == [i \in Intents |-> IF rows[i].status = "SENDING" THEN rows[i].attempts ELSE 0]
  <2>1. lists \in [Intents -> Nat]
    BY DEF OutboxTypeOK, Row
  <2> QED BY <1>3, <2>1, <1>m DEF OutboxTypeOK, MonitorStart, Steps
<1>4. ASSUME NEW i \in Intents, Recover(i) PROVE OutboxTypeOK'
  <2>1. seen[Monitor][i] \in Nat /\ -lag[Monitor] \in Int
    BY <1>m DEF OutboxTypeOK
  <2>2. Recovered(seen[Monitor][i], Monitor) \in Row
    BY <2>1 DEF Recovered, Pending, Row, Statuses
  <2> QED BY <1>4, <2>2, <1>m DEF OutboxTypeOK, Recover
<1>5. CASE ListDue
  BY <1>5, <1>m DEF OutboxTypeOK, ListDue, Steps, NothingSeen
<1>6. ASSUME NEW d \in Direct, NEW ids \in SUBSET Intents, DirectStart(d, ids) PROVE OutboxTypeOK'
  BY <1>6, <1>m DEF OutboxTypeOK, DirectStart, Steps
<1>7. ASSUME NEW w \in Workers, NEW i \in Intents, MarkSending(w, i) PROVE OutboxTypeOK'
  <2>1. rows[i].attempts + 1 \in Nat /\ lag[w] \in Nat
    BY DEF OutboxTypeOK, Row
  <2>2. Sending(rows[i].attempts + 1, lag[w]) \in Row
    BY <2>1 DEF Sending, Row, Statuses
  <2>3. CASE IsDue(rows[i], w)
    <3>1. rows' \in [Intents -> Row]
      BY <1>7, <2>2, <2>3 DEF OutboxTypeOK, MarkSending
    <3>2. cur' \in [Workers -> [id : Intents, attempts : Nat]]
      <4> DEFINE claim == [id |-> i, attempts |-> rows[i].attempts + 1]
      <4>1. claim \in [id : Intents, attempts : Nat]
        BY <2>1
      <4>2. cur' = [cur EXCEPT ![w] = claim]
        BY <1>7, <2>3 DEF MarkSending
      <4> HIDE DEF claim
      <4> QED BY <4>1, <4>2 DEF OutboxTypeOK
    <3> QED BY <1>7, <2>3, <3>1, <3>2 DEF OutboxTypeOK, MarkSending, Steps
  <2>4. CASE ~IsDue(rows[i], w)
    BY <1>7, <2>4 DEF OutboxTypeOK, MarkSending
  <2> QED BY <2>3, <2>4
<1>8. ASSUME NEW w \in Workers, NEW r \in Results, Notify(w, r) PROVE OutboxTypeOK'
  BY <1>8 DEF OutboxTypeOK, Notify, Steps
<1>9. ASSUME NEW w \in Workers, ApplyOutcome(w) PROVE OutboxTypeOK'
  <2>1. Decide(cur[w].attempts, res[w], w) \in Row
    BY DecideType DEF OutboxTypeOK
  <2> QED BY <1>9, <2>1, NoClaimType DEF OutboxTypeOK, ApplyOutcome, Steps, Results
<1>10. ASSUME NEW w \in Workers, RunEnds(w) \/ Crash(w) PROVE OutboxTypeOK'
  <2>1. Quit(w) /\ UNCHANGED <<rows, accepted>> /\ crashes' \in Nat
    BY <1>10 DEF RunEnds, Crash, OutboxTypeOK
  <2> QED BY <2>1, QuitType
<1>11. CASE Tick
  <2>1. [i \in Intents |-> Later(rows[i])] \in [Intents -> Row]
    BY LaterType DEF OutboxTypeOK
  <2> QED BY <1>11, <2>1 DEF OutboxTypeOK, Tick
<1> QED BY <1>1, <1>2, <1>3, <1>4, <1>5, <1>6, <1>7, <1>8, <1>9, <1>10, <1>11 DEF Next, Work

\* Every row, claim and worker keeps its type, whatever the retry policy, the runs
\* and the rows are (outbox-types.ts, pg-outbox-store.ts).
THEOREM OutboxTypeCorrect == Spec => []OutboxTypeOK
<1> QED BY TypeInit, TypeStep, PTL DEF Spec

-----------------------------------------------------------------------------
(* Claims, recovery and budget: one lemma per action. *)

LEMMA InitClaims == Init => ClaimInv
<1> SUFFICES ASSUME Init PROVE ClaimInv OBVIOUS
<1>1. \A w \in Workers : pc[w] = "idle" /\ lag[w] = 0
  BY DEF Init
<1>2. \A i \in Intents : rows[i].status = "absent" /\ rows[i].attempts = 0
  BY DEF Init, NoRow, Resting
<1>3. Monitor \in Workers /\ crashes = 0 /\ MaxAttempts \in Nat /\ MaxRun \in Nat
  BY OutboxAssumption DEF OutboxAssumption, Workers, Init
<1>4. LagBounded /\ AttemptsWithinBudget
  BY <1>1, <1>2, <1>3 DEF LagBounded, AttemptsWithinBudget
<1>5. ClaimIsFresh /\ OneSenderPerRow /\ RecoveryIsStale /\ OkWasAccepted
  BY <1>1, <1>3 DEF ClaimIsFresh, OneSenderPerRow, RecoveryIsStale, OkWasAccepted, Live
<1>6. DeliveredWasAccepted /\ BudgetLeft
  BY <1>2 DEF DeliveredWasAccepted, BudgetLeft
<1> QED BY <1>4, <1>5, <1>6 DEF ClaimInv

LEMMA EnqueueClaims ==
  ASSUME OutboxTypeOK, ClaimInv, NEW i \in Intents, Enqueue(i)
  PROVE  ClaimInv'
<1>1. /\ rows[i].status = "absent"
      /\ rows' = [rows EXCEPT ![i] = Pending(0, 0)]
      /\ UNCHANGED <<accepted, crashes, pc, lag, todo, seen, cur, res>>
  BY DEF Enqueue, workerVars
<1>2. rows'[i].status = "PENDING" /\ rows'[i].attempts = 0 /\ \A j \in Intents \ {i} : rows'[j] = rows[j]
  BY <1>1 DEF Pending, OutboxTypeOK
<1>3. \A w \in Workers : cur[w].id \in Intents
  BY DEF OutboxTypeOK
<1>4. MaxAttempts + crashes >= 1 /\ crashes \in Nat /\ MaxAttempts \in Nat
  BY OutboxAssumption DEF OutboxAssumption, OutboxTypeOK
<1>5. LagBounded' /\ OneSenderPerRow' /\ OkWasAccepted'
  BY <1>1 DEF ClaimInv, LagBounded, OneSenderPerRow, OkWasAccepted
<1>6. ClaimIsFresh'
  BY <1>1, <1>2, <1>3 DEF ClaimInv, ClaimIsFresh
<1>7. RecoveryIsStale'
  BY <1>1, <1>2 DEF ClaimInv, RecoveryIsStale, OutboxTypeOK, Workers
<1>8. DeliveredWasAccepted' /\ AttemptsWithinBudget'
  BY <1>1, <1>2, <1>4 DEF ClaimInv, DeliveredWasAccepted, AttemptsWithinBudget
<1>9. BudgetLeft'
  BY <1>1, <1>2, <1>4 DEF ClaimInv, BudgetLeft, Owned
<1> QED BY <1>5, <1>6, <1>7, <1>8, <1>9 DEF ClaimInv

\* A run begins: what it will recover is what is stale now.
LEMMA StartClaims ==
  ASSUME OutboxTypeOK, ClaimInv,
         MonitorStart \/ ListDue \/ \E d \in Direct, ids \in SUBSET Intents : DirectStart(d, ids)
  PROVE  ClaimInv'
<1>1. PICK w \in Workers :
        /\ pc[w] \notin Live /\ pc'[w] \notin Live
        /\ \A v \in Workers \ {w} : pc'[v] = pc[v] /\ lag'[v] = lag[v]
        /\ lag'[w] \in {0, lag[w]}
        /\ UNCHANGED <<rows, accepted, crashes, cur, res>>
  <2>1. CASE MonitorStart
    BY <2>1 DEF MonitorStart, OutboxTypeOK, Workers, Live
  <2>2. CASE ListDue
    BY <2>2 DEF ListDue, OutboxTypeOK, Workers, Live
  <2>3. ASSUME NEW d \in Direct, NEW ids \in SUBSET Intents, DirectStart(d, ids)
        PROVE \E w \in Workers :
        /\ pc[w] \notin Live /\ pc'[w] \notin Live
        /\ \A v \in Workers \ {w} : pc'[v] = pc[v] /\ lag'[v] = lag[v]
        /\ lag'[w] \in {0, lag[w]}
        /\ UNCHANGED <<rows, accepted, crashes, cur, res>>
    BY <2>3 DEF DirectStart, OutboxTypeOK, Workers, Live
  <2> QED BY <2>1, <2>2, <2>3
<1>2. \A v \in Workers : pc'[v] \in Live <=> pc[v] \in Live
  BY <1>1
<1>3. LagBounded'
  BY <1>1, OutboxAssumption DEF ClaimInv, LagBounded, OutboxAssumption
<1>4. ClaimIsFresh' /\ OneSenderPerRow' /\ OkWasAccepted'
  <2>1. ClaimIsFresh'
    BY <1>1, <1>2 DEF ClaimInv, ClaimIsFresh
  <2>2. OneSenderPerRow'
    BY <1>1, <1>2 DEF ClaimInv, OneSenderPerRow, Live
  <2>3. OkWasAccepted'
    BY <1>1, <1>2 DEF ClaimInv, OkWasAccepted, Live
  <2> QED BY <2>1, <2>2, <2>3
<1>5. RecoveryIsStale'
  <2>1. CASE MonitorStart
    <3>1. \A i \in todo'[Monitor] : i \in Intents /\ IsStale(rows[i])
      BY <2>1 DEF MonitorStart, OutboxTypeOK, Workers
    <3>2. \A i \in Intents : rows[i].status = "SENDING" => seen'[Monitor][i] = rows[i].attempts
      BY <2>1 DEF MonitorStart, OutboxTypeOK, Workers
    <3> QED BY <1>1, <3>1, <3>2 DEF RecoveryIsStale, IsStale
  <2>2. CASE ListDue
    BY <2>2 DEF ListDue, RecoveryIsStale, OutboxTypeOK, Workers
  <2>3. ASSUME NEW d \in Direct, NEW ids \in SUBSET Intents, DirectStart(d, ids) PROVE RecoveryIsStale'
    BY <2>3, OutboxAssumption DEF DirectStart, ClaimInv, RecoveryIsStale, OutboxTypeOK, Workers, OutboxAssumption
  <2> QED BY <2>1, <2>2, <2>3
<1>6. DeliveredWasAccepted' /\ AttemptsWithinBudget'
  BY <1>1 DEF ClaimInv, DeliveredWasAccepted, AttemptsWithinBudget
<1>7. BudgetLeft'
  BY <1>1, <1>2 DEF ClaimInv, BudgetLeft, Owned
<1> QED BY <1>3, <1>4, <1>5, <1>6, <1>7 DEF ClaimInv

\* No live claim is stale: its row is as old as its run.
LEMMA LiveIsNotStale ==
  ASSUME OutboxTypeOK, ClaimInv, RunsAreShort, NEW w \in Workers, pc[w] \in Live
  PROVE  rows[cur[w].id].age < StaleSending
  BY OutboxAssumption
  DEF OutboxAssumption, OutboxTypeOK, ClaimInv, LagBounded, ClaimIsFresh, RunsAreShort

LEMMA RecoverClaims ==
  ASSUME OutboxTypeOK, ClaimInv, RunsAreShort, NEW i \in Intents, Recover(i)
  PROVE  ClaimInv'
<1> DEFINE n == seen[Monitor][i]
<1>1. /\ pc[Monitor] = "recover" /\ i \in todo[Monitor]
      /\ rows' = [rows EXCEPT ![i] = Recovered(n, Monitor)]
      /\ todo' = [todo EXCEPT ![Monitor] = @ \ {i}]
      /\ UNCHANGED <<accepted, crashes, pc, lag, seen, cur, res>>
  BY DEF Recover
<1>2. rows[i].status = "SENDING" /\ rows[i].age >= StaleSending /\ n = rows[i].attempts
  BY <1>1 DEF ClaimInv, RecoveryIsStale
<1>3. /\ rows'[i].status = "PENDING" /\ rows'[i].attempts = rows[i].attempts
      /\ \A j \in Intents \ {i} : rows'[j] = rows[j]
  BY <1>1, <1>2 DEF Recovered, Pending, OutboxTypeOK
<1>4. ~Owned(i)
  <2> SUFFICES ASSUME NEW w \in Workers, pc[w] \in Live, cur[w].id = i PROVE FALSE
    BY DEF Owned
  <2>1. rows[i].age < StaleSending
    BY LiveIsNotStale
  <2> QED BY <1>2, <2>1, OutboxAssumption DEF OutboxAssumption, OutboxTypeOK, Row
<1>5. \A w \in Workers : pc[w] \in Live => cur[w].id \in Intents \ {i}
  BY <1>4 DEF Owned, OutboxTypeOK
<1>6. LagBounded' /\ OneSenderPerRow' /\ OkWasAccepted'
  BY <1>1 DEF ClaimInv, LagBounded, OneSenderPerRow, OkWasAccepted
<1>7. ClaimIsFresh'
  BY <1>1, <1>3, <1>5 DEF ClaimInv, ClaimIsFresh
<1>8. RecoveryIsStale'
  <2>1. \A j \in todo'[Monitor] : j \in todo[Monitor] /\ j \in Intents \ {i}
    BY <1>1 DEF OutboxTypeOK, Workers
  <2> QED BY <1>1, <1>3, <2>1 DEF ClaimInv, RecoveryIsStale
<1>9. DeliveredWasAccepted' /\ AttemptsWithinBudget'
  BY <1>1, <1>3 DEF ClaimInv, DeliveredWasAccepted, AttemptsWithinBudget
<1>10. BudgetLeft'
  BY <1>1, <1>2, <1>3, <1>4 DEF ClaimInv, BudgetLeft, Owned
<1> QED BY <1>6, <1>7, <1>8, <1>9, <1>10 DEF ClaimInv

\* The claim: only a row that was waiting changes.
LEMMA MarkSendingClaims ==
  ASSUME OutboxTypeOK, ClaimInv, NEW w \in Workers, NEW i \in Intents, MarkSending(w, i)
  PROVE  ClaimInv'
<1>1. /\ pc[w] = "claim" /\ i \in todo[w]
      /\ todo' = [todo EXCEPT ![w] = @ \ {i}]
      /\ UNCHANGED <<accepted, crashes, lag, seen, res>>
  BY DEF MarkSending
<1>2. w = Monitor => pc'[Monitor] # "recover"
  BY DEF MarkSending, OutboxTypeOK
<1>3. CASE IsDue(rows[i], w)
  <2>1. /\ rows[i].status = "PENDING"
        /\ rows' = [rows EXCEPT ![i] = Sending(rows[i].attempts + 1, lag[w])]
        /\ cur' = [cur EXCEPT ![w] = [id |-> i, attempts |-> rows[i].attempts + 1]]
        /\ pc' = [pc EXCEPT ![w] = "notify"]
    BY <1>3 DEF MarkSending, IsDue
  <2>2. /\ rows'[i].status = "SENDING" /\ rows'[i].attempts = rows[i].attempts + 1
        /\ rows'[i].age = lag[w] /\ \A j \in Intents \ {i} : rows'[j] = rows[j]
    BY <2>1 DEF Sending, OutboxTypeOK
  <2>3. /\ pc'[w] = "notify" /\ cur'[w].id = i /\ cur'[w].attempts = rows[i].attempts + 1
        /\ \A v \in Workers \ {w} : pc'[v] = pc[v] /\ cur'[v] = cur[v]
    BY <2>1 DEF OutboxTypeOK
  <2>4. \A v \in Workers : pc[v] \in Live => cur[v].id \in Intents \ {i}
    BY <2>1 DEF ClaimInv, ClaimIsFresh, OutboxTypeOK
  <2>5. LagBounded' /\ OkWasAccepted'
    BY <1>1, <2>3 DEF ClaimInv, LagBounded, OkWasAccepted
  <2>6. ClaimIsFresh'
    BY <1>1, <2>2, <2>3, <2>4 DEF ClaimInv, ClaimIsFresh
  <2>7. OneSenderPerRow'
    <3> SUFFICES ASSUME NEW u \in Workers, NEW v \in Workers, u # v, pc'[u] \in Live, pc'[v] \in Live
                 PROVE cur'[u].id # cur'[v].id
      BY DEF OneSenderPerRow, Live
    <3>1. CASE u = w
      BY <3>1, <2>3, <2>4
    <3>2. CASE v = w
      BY <3>2, <2>3, <2>4
    <3>3. CASE u # w /\ v # w
      BY <3>3, <2>3 DEF ClaimInv, OneSenderPerRow, Live
    <3> QED BY <3>1, <3>2, <3>3
  <2>8. RecoveryIsStale'
    <3> SUFFICES ASSUME pc'[Monitor] = "recover" PROVE RecoveryIsStale'
      BY DEF RecoveryIsStale
    <3>1. w # Monitor /\ Monitor \in Workers
      BY <1>2 DEF Workers
    <3>2. pc[Monitor] = "recover" /\ todo'[Monitor] = todo[Monitor]
      BY <1>1, <2>3, <3>1 DEF OutboxTypeOK
    <3>3. \A j \in todo[Monitor] : j \in Intents \ {i}
      BY <2>1, <3>1, <3>2 DEF ClaimInv, RecoveryIsStale, OutboxTypeOK
    <3> QED BY <1>1, <2>2, <3>2, <3>3 DEF ClaimInv, RecoveryIsStale
  <2>9. DeliveredWasAccepted'
    BY <1>1, <2>2 DEF ClaimInv, DeliveredWasAccepted
  <2>10. AttemptsWithinBudget'
    BY <1>1, <2>1, <2>2 DEF ClaimInv, BudgetLeft, AttemptsWithinBudget
  <2>11. BudgetLeft'
    <3> SUFFICES ASSUME NEW j \in Intents,
                        rows'[j].status = "PENDING" \/ (rows'[j].status = "SENDING" /\ ~Owned(j)')
                 PROVE  (rows[j].attempts + 1 <= MaxAttempts + crashes) /\ rows'[j] = rows[j]
      BY <1>1 DEF BudgetLeft
    <3>1. Owned(i)'
      BY <2>3 DEF Owned, Live
    <3>2. j # i /\ rows'[j] = rows[j]
      BY <3>1, <2>2
    <3>3. Owned(j) => Owned(j)'
      BY <2>3, <1>1 DEF Owned, Live
    <3> QED BY <3>2, <3>3 DEF ClaimInv, BudgetLeft
  <2> QED BY <2>5, <2>6, <2>7, <2>8, <2>9, <2>10, <2>11 DEF ClaimInv
<1>4. CASE ~IsDue(rows[i], w)
  <2>1. UNCHANGED <<rows, cur, pc>>
    BY <1>4 DEF MarkSending
  <2>2. RecoveryIsStale'
    BY <1>1, <1>2, <2>1 DEF ClaimInv, RecoveryIsStale, OutboxTypeOK, Workers
  <2>3. LagBounded' /\ ClaimIsFresh' /\ OneSenderPerRow' /\ OkWasAccepted'
    BY <1>1, <2>1 DEF ClaimInv, LagBounded, ClaimIsFresh, OneSenderPerRow, OkWasAccepted
  <2>4. DeliveredWasAccepted' /\ AttemptsWithinBudget' /\ BudgetLeft'
    BY <1>1, <2>1 DEF ClaimInv, DeliveredWasAccepted, AttemptsWithinBudget, BudgetLeft, Owned
  <2> QED BY <2>2, <2>3, <2>4 DEF ClaimInv
<1> QED BY <1>3, <1>4

LEMMA NotifyClaims ==
  ASSUME OutboxTypeOK, ClaimInv, NEW w \in Workers, NEW r \in Results, Notify(w, r)
  PROVE  ClaimInv'
<1>1. /\ pc[w] = "notify" /\ pc' = [pc EXCEPT ![w] = "apply"] /\ res' = [res EXCEPT ![w] = r]
      /\ UNCHANGED <<rows, crashes, lag, todo, seen, cur>>
  BY DEF Notify
<1>2. accepted \subseteq accepted' /\ (r = "ok" => cur[w].id \in accepted')
  BY DEF Notify
<1>3. \A v \in Workers : pc'[v] \in Live <=> pc[v] \in Live
  BY <1>1 DEF Live, OutboxTypeOK
<1>4. LagBounded' /\ AttemptsWithinBudget'
  BY <1>1 DEF ClaimInv, LagBounded, AttemptsWithinBudget
<1>5. ClaimIsFresh'
  BY <1>1, <1>3 DEF ClaimInv, ClaimIsFresh
<1>6. OneSenderPerRow'
  BY <1>1, <1>3 DEF ClaimInv, OneSenderPerRow, Live
<1>7. RecoveryIsStale'
  BY <1>1 DEF ClaimInv, RecoveryIsStale, OutboxTypeOK, Workers
<1>8. OkWasAccepted'
  BY <1>1, <1>2 DEF ClaimInv, OkWasAccepted, OutboxTypeOK
<1>9. DeliveredWasAccepted'
  BY <1>1, <1>2 DEF ClaimInv, DeliveredWasAccepted
<1>10. BudgetLeft'
  BY <1>1, <1>3 DEF ClaimInv, BudgetLeft, Owned
<1> QED BY <1>4, <1>5, <1>6, <1>7, <1>8, <1>9, <1>10 DEF ClaimInv

\* What decideNextOutboxState can write.
LEMMA DecideCases ==
  ASSUME OutboxTypeOK, NEW w \in Workers, NEW n \in Nat, NEW r \in Results
  PROVE  LET row == Decide(n, r, w)
         IN  /\ row.attempts = n
             /\ row.status \in {"DELIVERED", "POISON", "PENDING"}
             /\ row.status = "DELIVERED" => r = "ok"
             /\ row.status = "PENDING" => n + 1 <= MaxAttempts
  BY OutboxAssumption DEF OutboxAssumption, Decide, Resting, Pending

LEMMA ApplyClaims ==
  ASSUME OutboxTypeOK, ClaimInv, RunsAreShort, NEW w \in Workers, ApplyOutcome(w)
  PROVE  ClaimInv'
<1> DEFINE i == cur[w].id
           row == Decide(cur[w].attempts, res[w], w)
<1>1. /\ pc[w] = "apply" /\ pc' = [pc EXCEPT ![w] = "claim"]
      /\ rows' = [rows EXCEPT ![i] = row]
      /\ cur' = [cur EXCEPT ![w] = NoClaim] /\ res' = [res EXCEPT ![w] = "ok"]
      /\ UNCHANGED <<accepted, crashes, lag, todo, seen>>
  BY DEF ApplyOutcome
<1>2. i \in Intents /\ cur[w].attempts \in Nat /\ res[w] \in Results
  BY DEF OutboxTypeOK
<1>3. /\ row.attempts = cur[w].attempts
      /\ row.status \in {"DELIVERED", "POISON", "PENDING"}
      /\ row.status = "DELIVERED" => res[w] = "ok"
      /\ row.status = "PENDING" => row.attempts + 1 <= MaxAttempts
  BY <1>2, DecideCases
<1> HIDE DEF row
<1>4. rows'[i] = row /\ \A j \in Intents \ {i} : rows'[j] = rows[j]
  BY <1>1, <1>2 DEF OutboxTypeOK
<1>5. rows[i].status = "SENDING" /\ rows[i].attempts = cur[w].attempts
  BY <1>1 DEF ClaimInv, ClaimIsFresh, Live
<1>6. \A v \in Workers \ {w} : pc'[v] = pc[v] /\ cur'[v] = cur[v] /\ res'[v] = res[v]
  BY <1>1 DEF OutboxTypeOK
<1>7. pc'[w] = "claim"
  BY <1>1 DEF OutboxTypeOK
<1>8. \A v \in Workers : pc'[v] \in Live => v # w /\ pc[v] \in Live /\ cur'[v].id \in Intents \ {i}
  <2> SUFFICES ASSUME NEW v \in Workers, pc'[v] \in Live
               PROVE v # w /\ pc[v] \in Live /\ cur[v].id # i /\ cur'[v] = cur[v]
    BY DEF OutboxTypeOK
  <2>1. v # w /\ pc[v] \in Live /\ cur'[v] = cur[v]
    BY <1>6, <1>7 DEF Live
  <2> QED BY <1>1, <2>1 DEF ClaimInv, OneSenderPerRow, Live
<1>9. LagBounded'
  BY <1>1 DEF ClaimInv, LagBounded
<1>10. ClaimIsFresh'
  BY <1>1, <1>4, <1>6, <1>8 DEF ClaimInv, ClaimIsFresh
<1>11. OneSenderPerRow'
  BY <1>6, <1>7, <1>8 DEF ClaimInv, OneSenderPerRow, Live
<1>12. RecoveryIsStale'
  <2> SUFFICES ASSUME pc'[Monitor] = "recover" PROVE RecoveryIsStale'
    BY DEF RecoveryIsStale
  <2>1. Monitor \in Workers /\ Monitor # w /\ pc[Monitor] = "recover"
    BY <1>6, <1>7 DEF Workers
  <2>2. rows[i].age < StaleSending
    BY <1>1, LiveIsNotStale DEF Live
  <2>3. \A j \in todo[Monitor] : j \in Intents \ {i}
    BY <2>1, <2>2, OutboxAssumption DEF ClaimInv, RecoveryIsStale, OutboxTypeOK, Row, OutboxAssumption
  <2> QED BY <1>1, <1>4, <2>1, <2>3 DEF ClaimInv, RecoveryIsStale
<1>13. OkWasAccepted'
  BY <1>1, <1>6, <1>7 DEF ClaimInv, OkWasAccepted
<1>14. DeliveredWasAccepted'
  BY <1>1, <1>3, <1>4 DEF ClaimInv, DeliveredWasAccepted, OkWasAccepted
<1>15. AttemptsWithinBudget'
  BY <1>1, <1>2, <1>3, <1>4, <1>5 DEF ClaimInv, AttemptsWithinBudget
<1>16. BudgetLeft'
  <2> SUFFICES ASSUME NEW j \in Intents,
                      rows'[j].status = "PENDING" \/ (rows'[j].status = "SENDING" /\ ~Owned(j)')
               PROVE  rows'[j].attempts + 1 <= MaxAttempts + crashes
    BY <1>1 DEF BudgetLeft
  <2>1. CASE j = i
    BY <2>1, <1>2, <1>3, <1>4, OutboxAssumption DEF OutboxTypeOK, OutboxAssumption
  <2>2. CASE j # i
    <3>1. rows'[j] = rows[j] /\ (Owned(j) => Owned(j)')
      BY <2>2, <1>4, <1>6 DEF Owned
    <3> QED BY <3>1 DEF ClaimInv, BudgetLeft
  <2> QED BY <2>1, <2>2
<1> QED BY <1>9, <1>10, <1>11, <1>12, <1>13, <1>14, <1>15, <1>16 DEF ClaimInv

\* A run that dies with a claim leaves a row behind, and is counted.
LEMMA QuitClaims ==
  ASSUME OutboxTypeOK, ClaimInv, NEW w \in Workers, RunEnds(w) \/ Crash(w)
  PROVE  ClaimInv'
<1>1. /\ Quit(w) /\ UNCHANGED <<rows, accepted>>
      /\ \/ crashes' = crashes /\ pc[w] \notin Live
         \/ crashes' = crashes + 1
  BY DEF RunEnds, Crash, Live
<1>2. pc'[w] = "idle" /\ lag'[w] = 0
  BY <1>1 DEF Quit, OutboxTypeOK
<1>3. \A v \in Workers \ {w} : pc'[v] = pc[v] /\ lag'[v] = lag[v] /\ cur'[v] = cur[v] /\ res'[v] = res[v]
                               /\ todo'[v] = todo[v] /\ seen'[v] = seen[v]
  BY <1>1 DEF Quit, OutboxTypeOK
<1>4. crashes \in Nat /\ MaxAttempts \in Nat /\ MaxRun \in Nat /\ Monitor \in Workers
  BY OutboxAssumption DEF OutboxAssumption, OutboxTypeOK, Workers
<1>5. LagBounded'
  BY <1>2, <1>3, <1>4 DEF ClaimInv, LagBounded
<1>6. ClaimIsFresh'
  BY <1>1, <1>2, <1>3 DEF ClaimInv, ClaimIsFresh, Live
<1>7. OneSenderPerRow'
  BY <1>2, <1>3 DEF ClaimInv, OneSenderPerRow
<1>8. RecoveryIsStale'
  BY <1>1, <1>2, <1>3, <1>4 DEF ClaimInv, RecoveryIsStale
<1>9. OkWasAccepted'
  BY <1>1, <1>2, <1>3 DEF ClaimInv, OkWasAccepted
<1>10. DeliveredWasAccepted'
  BY <1>1 DEF ClaimInv, DeliveredWasAccepted
<1>11. \A j \in Intents : rows'[j] = rows[j] /\ rows[j].attempts \in Nat
  BY <1>1 DEF OutboxTypeOK, Row
<1>12. AttemptsWithinBudget'
  BY <1>1, <1>4, <1>11 DEF ClaimInv, AttemptsWithinBudget
<1>13. BudgetLeft'
  <2>1. CASE crashes' = crashes + 1
    BY <2>1, <1>4, <1>11 DEF ClaimInv, AttemptsWithinBudget, BudgetLeft
  <2>2. CASE crashes' = crashes /\ pc[w] \notin Live
    <3>1. \A j \in Intents : Owned(j) => Owned(j)'
      BY <2>2, <1>3 DEF Owned
    <3> QED BY <2>2, <3>1, <1>11 DEF ClaimInv, BudgetLeft
  <2> QED BY <1>1, <2>1, <2>2
<1> QED BY <1>5, <1>6, <1>7, <1>8, <1>9, <1>10, <1>12, <1>13 DEF ClaimInv

\* Time makes a claim and its run older together.
LEMMA TickClaims ==
  ASSUME OutboxTypeOK, ClaimInv, RunsAreShort, Tick
  PROVE  ClaimInv'
<1>1. /\ \A w \in Workers : pc[w] # "idle" => lag[w] < MaxRun
      /\ \A i \in Intents : rows'[i] = Later(rows[i])
      /\ \A w \in Workers : lag'[w] = IF pc[w] = "idle" THEN 0 ELSE lag[w] + 1
      /\ UNCHANGED <<accepted, crashes, pc, todo, seen, cur, res>>
  BY DEF Tick
<1>2. \A i \in Intents : rows'[i].status = rows[i].status /\ rows'[i].attempts = rows[i].attempts
  BY <1>1 DEF Later, OutboxTypeOK, Row
<1>3. \A i \in Intents : rows[i].status = "SENDING" => rows'[i].age = Lesser(rows[i].age + 1, MaxAge)
  BY <1>1 DEF Later, OutboxTypeOK, Row
<1>4. MaxRun \in Nat /\ StaleSending \in Nat /\ Monitor \in Workers
  BY OutboxAssumption DEF OutboxAssumption, Workers
<1>5. LagBounded'
  BY <1>1, <1>4 DEF ClaimInv, LagBounded, OutboxTypeOK
<1>6. ClaimIsFresh'
  <2> SUFFICES ASSUME NEW w \in Workers, pc[w] \in Live
               PROVE  /\ rows'[cur[w].id].status = "SENDING"
                      /\ rows'[cur[w].id].attempts = cur[w].attempts
                      /\ rows'[cur[w].id].age = lag'[w]
    BY <1>1 DEF ClaimIsFresh
  <2>1. cur[w].id \in Intents /\ lag[w] \in Nat /\ lag[w] < MaxRun /\ lag'[w] = lag[w] + 1
    BY <1>1 DEF OutboxTypeOK, Live
  <2>2. /\ rows[cur[w].id].status = "SENDING" /\ rows[cur[w].id].attempts = cur[w].attempts
        /\ rows[cur[w].id].age = lag[w]
    BY DEF ClaimInv, ClaimIsFresh
  <2>3. Lesser(lag[w] + 1, MaxAge) = lag[w] + 1
    BY <2>1, <1>4 DEF Lesser, MaxAge
  <2> QED BY <1>2, <1>3, <2>1, <2>2, <2>3
<1>7. OneSenderPerRow' /\ OkWasAccepted'
  BY <1>1 DEF ClaimInv, OneSenderPerRow, OkWasAccepted
<1>8. RecoveryIsStale'
  <2> SUFFICES ASSUME pc[Monitor] = "recover", NEW i \in todo[Monitor]
               PROVE  /\ rows'[i].status = "SENDING" /\ rows'[i].age >= StaleSending
                      /\ seen[Monitor][i] = rows'[i].attempts
    BY <1>1 DEF RecoveryIsStale
  <2>1. i \in Intents /\ rows[i].age \in Nat
    BY <1>4 DEF OutboxTypeOK, Row
  <2>2. rows[i].status = "SENDING" /\ rows[i].age >= StaleSending /\ seen[Monitor][i] = rows[i].attempts
    BY DEF ClaimInv, RecoveryIsStale
  <2>3. Lesser(rows[i].age + 1, MaxAge) >= StaleSending
    BY <2>1, <2>2, <1>4 DEF Lesser, MaxAge
  <2> QED BY <1>2, <1>3, <2>1, <2>2, <2>3
<1>9. DeliveredWasAccepted' /\ AttemptsWithinBudget'
  BY <1>1, <1>2 DEF ClaimInv, DeliveredWasAccepted, AttemptsWithinBudget
<1>10. BudgetLeft'
  BY <1>1, <1>2 DEF ClaimInv, BudgetLeft, Owned
<1> QED BY <1>5, <1>6, <1>7, <1>8, <1>9, <1>10 DEF ClaimInv

-----------------------------------------------------------------------------
(* The theorems *)

LEMMA ClaimStep == RunsAreShort /\ OutboxTypeOK /\ ClaimInv /\ [Next]_vars => ClaimInv'
<1> SUFFICES ASSUME RunsAreShort, OutboxTypeOK, ClaimInv, [Next]_vars PROVE ClaimInv'
  OBVIOUS
<1>1. CASE UNCHANGED vars
  BY <1>1 DEF vars, workerVars, ClaimInv, LagBounded, ClaimIsFresh, OneSenderPerRow, RecoveryIsStale,
     OkWasAccepted, DeliveredWasAccepted, AttemptsWithinBudget, BudgetLeft, Owned
<1>2. CASE Next
  BY <1>2, EnqueueClaims, StartClaims, RecoverClaims, MarkSendingClaims, NotifyClaims, ApplyClaims,
     QuitClaims, TickClaims DEF Next, Work
<1> QED BY <1>1, <1>2

LEMMA OutboxInvariant == ASSUME RunsAreShort PROVE Spec => [](OutboxTypeOK /\ ClaimInv)
<1>1. OutboxTypeOK /\ ClaimInv /\ [Next]_vars => ClaimInv'
  BY ClaimStep
<1> QED BY <1>1, TypeInit, TypeStep, InitClaims, PTL DEF Spec

\* No two runs have one notification at the transport at the same time, for any
\* number of direct deliveries beside the monitor (delivery-worker.ts), and the
\* row a live run has claimed is SENDING, as the run claimed it: the outcome that
\* applyOutcome writes by id alone overwrites nothing (pg-outbox-store.ts).
THEOREM OutboxClaimIsOwned == ASSUME RunsAreShort PROVE Spec => []ClaimIsOwned
<1>1. ClaimInv => ClaimIsOwned BY DEF ClaimInv, ClaimIsFresh, ClaimIsOwned, Live
<1> QED BY <1>1, OutboxInvariant, PTL

\* DELIVERED is recorded only of a notification the transport accepted, whichever
\* runs die between the transport and the row.
THEOREM OutboxDeliveredWasAccepted == ASSUME RunsAreShort PROVE Spec => []DeliveredWasAccepted
<1>1. ClaimInv => DeliveredWasAccepted BY DEF ClaimInv
<1> QED BY <1>1, OutboxInvariant, PTL

\* Each run that dies costs a row at most one attempt beyond maxAttempts
\* (outbox.ts decideNextOutboxState, recoverIfStaleSending).
THEOREM OutboxAttemptsWithinBudget == ASSUME RunsAreShort PROVE Spec => []AttemptsWithinBudget
<1>1. ClaimInv => AttemptsWithinBudget BY DEF ClaimInv
<1> QED BY <1>1, OutboxInvariant, PTL

LEMMA SettledStep ==
  OutboxTypeOK /\ ClaimInv /\ [Next]_vars =>
    [\A i \in Intents : rows[i].status \in Settled => rows'[i].status = rows[i].status]_rows
<1> SUFFICES ASSUME OutboxTypeOK, ClaimInv, [Next]_vars, NEW i \in Intents, rows[i].status \in Settled
             PROVE  rows'[i].status = rows[i].status
  OBVIOUS
<1>1. CASE UNCHANGED rows
  BY <1>1
<1>2. ASSUME NEW j \in Intents, Enqueue(j) PROVE rows'[i].status = rows[i].status
  BY <1>2 DEF Enqueue, Settled, OutboxTypeOK
<1>3. ASSUME NEW j \in Intents, Recover(j) PROVE rows'[i].status = rows[i].status
  BY <1>3 DEF Recover, ClaimInv, RecoveryIsStale, Settled, OutboxTypeOK
<1>4. ASSUME NEW w \in Workers, NEW j \in Intents, MarkSending(w, j)
      PROVE  rows'[i].status = rows[i].status
  BY <1>4 DEF MarkSending, IsDue, Settled, OutboxTypeOK
<1>5. ASSUME NEW w \in Workers, ApplyOutcome(w) PROVE rows'[i].status = rows[i].status
  BY <1>5 DEF ApplyOutcome, ClaimInv, ClaimIsFresh, Live, Settled, OutboxTypeOK
<1>6. CASE Tick
  BY <1>6 DEF Tick, Later, OutboxTypeOK, Row
<1>7. CASE MonitorStart \/ ListDue \/ \E d \in Direct, ids \in SUBSET Intents : DirectStart(d, ids)
  BY <1>7, <1>1 DEF MonitorStart, ListDue, DirectStart
<1>8. ASSUME NEW w \in Workers, (\E r \in Results : Notify(w, r)) \/ RunEnds(w) \/ Crash(w)
      PROVE  rows'[i].status = rows[i].status
  BY <1>8, <1>1 DEF Notify, RunEnds, Crash
<1>9. CASE UNCHANGED vars
  BY <1>9, <1>1 DEF vars
<1> QED BY <1>2, <1>3, <1>4, <1>5, <1>6, <1>7, <1>8, <1>9 DEF Next, Work

\* A settled row is never written again by a recovery, a late outcome or a second
\* claim.  The condition is sharp: a run that lasts staleSendingMs breaks it.
THEOREM OutboxSettledIsFinal == ASSUME RunsAreShort PROVE Spec => SettledIsFinal
<1> QED BY OutboxInvariant, SettledStep, PTL DEF SettledIsFinal, Spec

=============================================================================
