-------------------------- MODULE NotificationOutbox --------------------------
(***************************************************************************)
(* The notification outbox and the two paths that drain it:                *)
(*   - the monitor's delivery worker (runDeliveryWorker), one at a time    *)
(*     under a Postgres session lock, which first recovers abandoned       *)
(*     SENDING rows and then attempts every due row;                       *)
(*   - deliverRows, which sends named rows at once for the chat channel,   *)
(*     under no lock.                                                      *)
(* Both claim a row with a conditional UPDATE, call the transport, and     *)
(* write the outcome back with an UPDATE that looks at nothing but the id. *)
(* A run stamps everything it does with the time at which it started.      *)
(*                                                                         *)
(* Time is kept relative to the present: a row has the time left until it  *)
(* is due and the age of its last attempt, a run the time since it began.  *)
(***************************************************************************)
EXTENDS Integers

CONSTANTS
  Intents,      \* notification ids
  Monitor,      \* the delivery worker of the monitor run
  Direct,       \* concurrent calls of deliverRows
  MaxAttempts,  \* DeliveryConfig.maxAttempts
  BaseDelay,    \* DeliveryConfig.baseDelayMs
  MaxDelay,     \* DeliveryConfig.maxDelayMs
  StaleSending, \* DeliveryConfig.staleSendingMs
  MaxRun,       \* bound: how long a run lasts, so that time stays finite
  MaxCrashes    \* bound: runs that die

Workers == {Monitor} \cup Direct

ASSUME OutboxAssumption ==
  /\ Monitor \notin Direct /\ Intents # {}
  /\ MaxAttempts \in Nat \ {0} /\ BaseDelay \in Nat /\ MaxDelay \in Nat
  /\ StaleSending \in Nat \ {0} /\ MaxRun \in Nat /\ MaxCrashes \in Nat

VARIABLES
  rows,     \* notification_outbox
  accepted, \* ids the transport has accepted at least once
  crashes,  \* runs that died so far
  pc,       \* each worker: its next step
  lag,      \* time since the worker's run began
  todo,     \* rows its last query returned, not yet handled
  seen,     \* the attempt counts of those rows as the query returned them
  cur,      \* the row the worker claimed, with its attempt count
  res       \* what the transport said

workerVars == <<pc, lag, todo, seen, cur, res>>
vars == <<rows, accepted, crashes, workerVars>>

Statuses == {"absent", "PENDING", "SENDING", "DELIVERED", "POISON"}
Settled == {"DELIVERED", "POISON"}
Steps == {"idle", "recover", "claim", "notify", "apply"}
Results == {"ok", "transient", "permanent"}

\* The longest age, and the longest overdue, that any comparison tells apart.
MaxAge == StaleSending + MaxRun

\* next_attempt_at is read only of a PENDING row and last_attempt_at only of a
\* SENDING one: the other of the two is 0.
Row == [status : Statuses, attempts : Nat, due : Int, age : Nat]
Pending(n, due) == [status |-> "PENDING", attempts |-> n, due |-> due, age |-> 0]
Sending(n, age) == [status |-> "SENDING", attempts |-> n, due |-> 0, age |-> age]
Resting(st, n) == [status |-> st, attempts |-> n, due |-> 0, age |-> 0]
NoRow == Resting("absent", 0)

NoClaim == [id |-> CHOOSE i \in Intents : TRUE, attempts |-> 0]
NothingSeen == [i \in Intents |-> 0]

OutboxTypeOK ==
  /\ rows \in [Intents -> Row]
  /\ accepted \in SUBSET Intents
  /\ crashes \in Nat
  /\ pc \in [Workers -> Steps]
  /\ lag \in [Workers -> Nat]
  /\ todo \in [Workers -> SUBSET Intents]
  /\ seen \in [Workers -> [Intents -> Nat]]
  /\ cur \in [Workers -> [id : Intents, attempts : Nat]]
  /\ res \in [Workers -> Results]

Init ==
  /\ rows = [i \in Intents |-> NoRow]
  /\ accepted = {} /\ crashes = 0
  /\ pc = [w \in Workers |-> "idle"]
  /\ lag = [w \in Workers |-> 0]
  /\ todo = [w \in Workers |-> {}]
  /\ seen = [w \in Workers |-> NothingSeen]
  /\ cur = [w \in Workers |-> NoClaim]
  /\ res = [w \in Workers |-> "ok"]

-----------------------------------------------------------------------------
(* Comparisons with a run's start time.                                    *)

\* Mutant: the query forgets the status.
IsDueAnyStatus(row, w) == row.status # "absent" /\ row.due <= -lag[w]

\* next_attempt_at <= now
IsDue(row, w) == row.status = "PENDING" /\ row.due <= -lag[w]

\* Mutant: off by one against the age a live run can reach.
IsStaleEarly(row) == row.status = "SENDING" /\ row.age >= StaleSending - 1

\* now - last_attempt_at >= staleSendingMs, asked when a run begins
IsStale(row) == row.status = "SENDING" /\ row.age >= StaleSending

Lesser(a, b) == IF a < b THEN a ELSE b
Greater(a, b) == IF a > b THEN a ELSE b

\* computeBackoffMs: doubled with each attempt, at most maxDelayMs.
Backoff(n) ==
  LET delay == BaseDelay * 2 ^ Greater(0, n - 1)
  IN  IF delay \in 0..MaxDelay THEN delay ELSE MaxDelay

\* Mutants: a status the table's CHECK does not list; a budget compared with >; a
\* spent budget recorded as success.
DecideUnknownStatus(n, result, w) ==
  IF result = "ok" THEN Resting("DELIVERED", n)
  ELSE IF result = "permanent" \/ n >= MaxAttempts THEN Resting("FAILED", n)
  ELSE Pending(n, Backoff(n) - lag[w])

DecideOneMore(n, result, w) ==
  IF result = "ok" THEN Resting("DELIVERED", n)
  ELSE IF result = "permanent" \/ n > MaxAttempts THEN Resting("POISON", n)
  ELSE Pending(n, Backoff(n) - lag[w])

DecideGiveUp(n, result, w) ==
  IF result = "ok" \/ n >= MaxAttempts THEN Resting("DELIVERED", n)
  ELSE IF result = "permanent" THEN Resting("POISON", n)
  ELSE Pending(n, Backoff(n) - lag[w])

\* decideNextOutboxState, for a row claimed as its attempt n.
Decide(n, result, w) ==
  IF result = "ok" THEN Resting("DELIVERED", n)
  ELSE IF result = "permanent" \/ n >= MaxAttempts THEN Resting("POISON", n)
  ELSE Pending(n, Backoff(n) - lag[w])

\* recoverIfStaleSending: due at once, the attempt count as it was.
Recovered(n, w) == Pending(n, -lag[w])

-----------------------------------------------------------------------------
(* The intent is inserted once; a repeated insert does nothing.            *)

Enqueue(i) ==
  /\ rows[i].status = "absent"
  /\ rows' = [rows EXCEPT ![i] = Pending(0, 0)]
  /\ UNCHANGED <<accepted, crashes, workerVars>>

(* The monitor's run.                                                      *)

\* Mutant: no recovery pass.
MonitorStartNoRecovery ==
  /\ pc[Monitor] = "idle"
  /\ pc' = [pc EXCEPT ![Monitor] = "recover"]
  /\ lag' = [lag EXCEPT ![Monitor] = 0]
  /\ UNCHANGED <<rows, accepted, crashes, todo, seen, cur, res>>

\* The lock is taken, the alert engine has committed, and listStaleSending runs.
MonitorStart ==
  /\ pc[Monitor] = "idle"
  /\ pc' = [pc EXCEPT ![Monitor] = "recover"]
  /\ lag' = [lag EXCEPT ![Monitor] = 0]
  /\ todo' = [todo EXCEPT ![Monitor] = {i \in Intents : IsStale(rows[i])}]
  /\ seen' = [seen EXCEPT ![Monitor] = 
                [i \in Intents |-> IF rows[i].status = "SENDING" THEN rows[i].attempts ELSE 0]]
  /\ UNCHANGED <<rows, accepted, crashes, cur, res>>

\* applyOutcome of a recovery: writes the row as the list query saw it.
Recover(i) ==
  /\ pc[Monitor] = "recover"
  /\ i \in todo[Monitor]
  /\ rows' = [rows EXCEPT ![i] = Recovered(seen[Monitor][i], Monitor)]
  /\ todo' = [todo EXCEPT ![Monitor] = @ \ {i}]
  /\ UNCHANGED <<accepted, crashes, pc, lag, seen, cur, res>>

\* listDue
ListDue ==
  /\ pc[Monitor] = "recover" /\ todo[Monitor] = {}
  /\ pc' = [pc EXCEPT ![Monitor] = "claim"]
  /\ todo' = [todo EXCEPT ![Monitor] = {i \in Intents : IsDue(rows[i], Monitor)}]
  /\ seen' = [seen EXCEPT ![Monitor] = NothingSeen]
  /\ UNCHANGED <<rows, accepted, crashes, lag, cur, res>>

(* deliverRows for some rows that exist.                                   *)
DirectStart(d, ids) ==
  /\ pc[d] = "idle"
  /\ \A i \in ids : rows[i].status # "absent"
  /\ pc' = [pc EXCEPT ![d] = "claim"]
  /\ lag' = [lag EXCEPT ![d] = 0]
  /\ todo' = [todo EXCEPT ![d] = ids]
  /\ UNCHANGED <<rows, accepted, crashes, seen, cur, res>>

(* The loop both share: claim, send, record.                               *)

\* markSending: a row that is not PENDING and due is skipped.
MarkSending(w, i) ==
  /\ pc[w] = "claim"
  /\ i \in todo[w]
  /\ todo' = [todo EXCEPT ![w] = @ \ {i}]
  /\ IF IsDue(rows[i], w)
     THEN /\ rows' = [rows EXCEPT ![i] = Sending(@.attempts + 1, lag[w])]
          /\ cur' = [cur EXCEPT ![w] = [id |-> i, attempts |-> rows[i].attempts + 1]]
          /\ pc' = [pc EXCEPT ![w] = "notify"]
     ELSE UNCHANGED <<rows, cur, pc>>
  /\ UNCHANGED <<accepted, crashes, lag, seen, res>>

\* The transport may accept a message and still report a failure (a lost reply).
Notify(w, result) ==
  /\ pc[w] = "notify"
  /\ res' = [res EXCEPT ![w] = result]
  /\ pc' = [pc EXCEPT ![w] = "apply"]
  /\ \/ /\ result # "permanent"
        /\ accepted' = accepted \cup {cur[w].id}
     \/ /\ result # "ok"
        /\ UNCHANGED accepted
  /\ UNCHANGED <<rows, crashes, lag, todo, seen, cur>>

\* applyOutcome: an UPDATE by id alone.
ApplyOutcome(w) ==
  /\ pc[w] = "apply"
  /\ rows' = [rows EXCEPT ![cur[w].id] = Decide(cur[w].attempts, res[w], w)]
  /\ pc' = [pc EXCEPT ![w] = "claim"]
  /\ cur' = [cur EXCEPT ![w] = NoClaim]
  /\ res' = [res EXCEPT ![w] = "ok"]
  /\ UNCHANGED <<accepted, crashes, lag, todo, seen>>

\* A run is over and what it had in memory is gone; the monitor's session, and with
\* it the lock, is released.
Quit(w) ==
  /\ pc' = [pc EXCEPT ![w] = "idle"]
  /\ lag' = [lag EXCEPT ![w] = 0]
  /\ todo' = [todo EXCEPT ![w] = {}]
  /\ seen' = [seen EXCEPT ![w] = NothingSeen]
  /\ cur' = [cur EXCEPT ![w] = NoClaim]
  /\ res' = [res EXCEPT ![w] = "ok"]

RunEnds(w) ==
  /\ pc[w] = "claim" /\ todo[w] = {}
  /\ Quit(w)
  /\ UNCHANGED <<rows, accepted, crashes>>

-----------------------------------------------------------------------------
(* Failures and time.                                                      *)

\* The process dies, or a query fails and the run ends as OUTBOX_FAILED.
Crash(w) ==
  /\ crashes < MaxCrashes
  /\ pc[w] # "idle"
  /\ Quit(w)
  /\ crashes' = crashes + 1
  /\ UNCHANGED <<rows, accepted>>

Later(row) ==
  IF row.status = "PENDING" THEN [row EXCEPT !.due = Greater(@ - 1, -MaxRun)]
  ELSE IF row.status = "SENDING" THEN [row EXCEPT !.age = Lesser(@ + 1, MaxAge)]
  ELSE row

Tick ==
  /\ \A w \in Workers : pc[w] # "idle" => lag[w] < MaxRun
  /\ rows' = [i \in Intents |-> Later(rows[i])]
  /\ lag' = [w \in Workers |-> IF pc[w] = "idle" THEN 0 ELSE lag[w] + 1]
  /\ UNCHANGED <<accepted, crashes, pc, todo, seen, cur, res>>

-----------------------------------------------------------------------------
Work(w) ==
  \/ \E i \in Intents : MarkSending(w, i)
  \/ \E result \in Results : Notify(w, result)
  \/ ApplyOutcome(w)
  \/ RunEnds(w)

MonitorWork == (\E i \in Intents : Recover(i)) \/ ListDue \/ Work(Monitor)

Next ==
  \/ \E i \in Intents : Enqueue(i)
  \/ MonitorStart
  \/ \E i \in Intents : Recover(i)
  \/ ListDue
  \/ \E d \in Direct, ids \in SUBSET Intents : DirectStart(d, ids)
  \/ \E w \in Workers : Work(w) \/ Crash(w)
  \/ Tick

Spec == Init /\ [][Next]_vars

\* Time passes, the monitor's tick comes round again and again with a collection
\* that works, and a run that does not die goes on to its end.
Fairness ==
  /\ WF_vars(Tick)
  /\ WF_vars(MonitorStart) /\ WF_vars(MonitorWork)
  /\ \A d \in Direct : WF_vars(Work(d))

FairSpec == Spec /\ Fairness

-----------------------------------------------------------------------------
(* Properties.                                                             *)

\* Two runs never have the same row at the transport.
OneSenderPerRow ==
  \A v, w \in Workers :
    v # w /\ {pc[v], pc[w]} \subseteq {"notify", "apply"} => cur[v].id # cur[w].id

\* A claim is exclusive and lasts: "a row the monitor already owns is skipped,
\* never sent twice" (delivery-worker.ts), and a row that a live run has claimed
\* is SENDING and as that run claimed it, so the unconditional UPDATE of
\* applyOutcome overwrites nothing; as long as no run outlives staleSendingMs.
ClaimIsOwned ==
  /\ OneSenderPerRow
  /\ \A w \in Workers : pc[w] \in {"notify", "apply"} =>
       rows[cur[w].id].status = "SENDING" /\ rows[cur[w].id].attempts = cur[w].attempts

\* DELIVERED is recorded only for a notification the transport accepted.
DeliveredWasAccepted ==
  \A i \in Intents : rows[i].status = "DELIVERED" => i \in accepted

\* "A truly live SENDING row can only belong to the CURRENT run, never a concurrent
\* one" (outbox.ts): so a settled row is never written again, by a recovery, a late
\* outcome or a second claim.
SettledIsFinal ==
  [][\A i \in Intents : rows[i].status \in Settled => rows'[i].status = rows[i].status]_rows

\* A row is attempted at most maxAttempts times, and once more for each run that
\* died: recoverIfStaleSending returns a row to PENDING whatever its count, so that
\* "attemptCount reaching this without a DELIVERED outcome -> POISON"
\* (outbox-types.ts) is true of runs that live.
AttemptsWithinBudget ==
  \A i \in Intents : rows[i].attempts <= MaxAttempts + crashes

\* No notification is lost: every intent that was enqueued is delivered or becomes
\* visible as POISON, whichever run dies at whichever step.
EventuallySettled ==
  \A i \in Intents : rows[i].status # "absent" ~> rows[i].status \in Settled
=============================================================================
