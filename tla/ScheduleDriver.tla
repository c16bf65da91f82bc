--------------------------- MODULE ScheduleDriver ---------------------------
(***************************************************************************)
(* The production scheduler for one schedule.  A continuation of           *)
(* ScheduleTimerDriver.onWake reads the schedule, claims the lease, and    *)
(* for each due window creates the fire row, has the task admitted and     *)
(* binds it under its lease fence.  Two kinds of continuation run it over  *)
(* the same Postgres rows:                                                 *)
(*   - the Restate virtual object, one at a time, woken by an operator or  *)
(*     by the delayed call it sent itself; its steps are journaled, so a   *)
(*     crash re-runs the step that was not journaled, with its effect      *)
(*     possibly committed;                                                 *)
(*   - the fire-once command (canary-fire.ts), unjournaled, which runs     *)
(*     once under its own lease owner and is gone when it dies.            *)
(* The lease is claimed at the time the request carries, not at a clock's. *)
(***************************************************************************)
EXTENDS ScheduleLifecycle

CONSTANTS
  Windows,        \* the calendar's fire instants
  Horizon,        \* how far nextWindowAfter looks
  Ttl,            \* leaseTtlMs
  Restate,        \* the virtual object's continuation
  Tools,          \* runs of the fire-once command
  Owner,          \* the lease owner each continuation claims under
  NoOwner,        \* no lease row
  OperatorWakes,  \* the <<lastTick, now>> requests operators send
  ToolWakes,      \* the <<lastTick, now>> inputs of fire-once
  ArmNext,        \* the recurring self-rearm switch
  MaxSends,       \* bound: operator wakes sent
  MaxWakes,       \* bound: outstanding calls per request
  MaxCrashes      \* bound: crashes and lost steps

Conts == {Restate} \cup Tools
Owners == {Owner[c] : c \in Conts}
Keys == Versions \X Windows
\* Mutant: the request's end excludes the window, as dueFireWindows does.
SelfWakeShort(w) == <<w - 1, w>>

\* scheduleWake: the request of the delayed call for window w.
SelfWake(w) == <<w - 1, w + 1>>
Requests == OperatorWakes \cup ToolWakes \cup {SelfWake(w) : w \in Windows}

ASSUME DriverAssumption ==
  /\ Windows \subseteq Nat \ {0}
  /\ Horizon \in Nat /\ Ttl \in Nat
  /\ Restate \notin Tools
  /\ NoOwner \notin Owners
  /\ OperatorWakes \cup ToolWakes \subseteq Nat \X Nat
  /\ ArmNext \in BOOLEAN
  /\ MaxSends \in Nat /\ MaxWakes \in Nat /\ MaxCrashes \in Nat

VARIABLES
  fires,          \* schedule_fires
  lease,          \* the schedule_leases row
  admissions,     \* the admission door: task admitted per identity, 0 for none
  minted,         \* tasks the door has minted
  wakes,          \* Restate: outstanding calls of the fire handler
  sent,           \* operator wakes sent so far
  crashes,        \* crashes so far
  pc,             \* each continuation: its next step
  req,            \* its request
  ver,            \* the spec version getSchedule returned
  want,           \* fire-once: the active version the operator approved
  epoch,          \* its fence: the epoch claimLease returned
  todo,           \* due windows not yet processed
  win,            \* the window being processed
  child           \* the task admit returned

storeVars == <<fires, lease, admissions, minted>>
restateVars == <<wakes, sent>>
contVars == <<pc, req, ver, want, epoch, todo, win, child>>
driverVars == <<storeVars, restateVars, crashes, contVars>>
vars == <<lifecycleVars, driverVars>>

Steps == {"idle", "read", "claim", "window", "admit", "select", "update",
          "recheck", "done"}
FireStates == {"absent", "PLANNED", "ADMITTED"}

StoreTypeOK ==
  /\ fires \in [Keys -> [state : FireStates, child : Nat]]
  /\ lease \in [owner : Owners \cup {NoOwner}, epoch : Nat, expires : Nat]
  /\ admissions \in [Keys -> Nat] /\ minted \in Nat

RestateTypeOK ==
  wakes \in [Requests -> Nat] /\ sent \in Nat /\ crashes \in Nat

\* Steps at which a window is being processed.
InWindow == {"admit", "select", "update", "recheck"}

ContTypeOK ==
  /\ pc \in [Conts -> Steps]
  /\ \A c \in Conts : pc[c] \in InWindow => win[c] \in Windows
  /\ req \in [Conts -> Requests \cup {<<0, 0>>}]
  /\ ver \in [Conts -> Versions] /\ want \in [Conts -> Versions]
  /\ epoch \in [Conts -> Nat]
  /\ todo \in [Conts -> SUBSET Windows]
  /\ win \in [Conts -> Windows \cup {0}]
  /\ child \in [Conts -> Nat]

DriverTypeOK == LifecycleTypeOK /\ StoreTypeOK /\ RestateTypeOK /\ ContTypeOK

Init ==
  /\ LifecycleInit
  /\ fires = [k \in Keys |-> [state |-> "absent", child |-> 0]]
  /\ lease = [owner |-> NoOwner, epoch |-> 0, expires |-> 0]
  /\ admissions = [k \in Keys |-> 0] /\ minted = 0
  /\ wakes = [r \in Requests |-> 0] /\ sent = 0 /\ crashes = 0
  /\ pc = [c \in Conts |-> "idle"]
  /\ req = [c \in Conts |-> <<0, 0>>]
  /\ ver = [c \in Conts |-> SeedVersion] /\ want = [c \in Conts |-> SeedVersion]
  /\ epoch = [c \in Conts |-> 0]
  /\ todo = [c \in Conts |-> {}]
  /\ win = [c \in Conts |-> 0]
  /\ child = [c \in Conts |-> 0]

-----------------------------------------------------------------------------
(* Pure parts: fire.ts and durable-timer.ts.                               *)

\* dueFireWindows: the windows in [from, to).
Due(from, to) == {w \in Windows : from <= w /\ w < to}

Earliest(w, S) == w \in S /\ \A x \in S : w <= x

\* nextWindowAfter searches strictly after now, up to the horizon.
NextWindows(now) == Due(now + 1, now + 1 + Horizon)

\* idempotencyKey and fireIdentity: one logical fire per version and window.
Key(c) == <<ver[c], win[c]>>

\* fenceIsCurrent: the lease row still is what claimLease returned.
FenceCurrent(c) == lease.owner = Owner[c] /\ lease.epoch = epoch[c]

-----------------------------------------------------------------------------
(* Starting a continuation.                                                *)

OperatorWake(r) ==
  /\ sent < MaxSends /\ wakes[r] < MaxWakes
  /\ wakes' = [wakes EXCEPT ![r] = @ + 1]
  /\ sent' = sent + 1
  /\ UNCHANGED <<lifecycleVars, storeVars, crashes, contVars>>

\* Mutant: a call is run that nobody sent, or a second time.
DeliverAgain(r) ==
  /\ pc[Restate] = "idle"
  /\ wakes' = [wakes EXCEPT ![r] = @ - 1]
  /\ pc' = [pc EXCEPT ![Restate] = "read"]
  /\ req' = [req EXCEPT ![Restate] = r]
  /\ UNCHANGED <<lifecycleVars, storeVars, sent, crashes, ver, want, epoch, todo,
                 win, child>>

\* The virtual object runs one call at a time.
Deliver(r) ==
  /\ pc[Restate] = "idle"
  /\ wakes[r] > 0
  /\ wakes' = [wakes EXCEPT ![r] = @ - 1]
  /\ pc' = [pc EXCEPT ![Restate] = "read"]
  /\ req' = [req EXCEPT ![Restate] = r]
  /\ UNCHANGED <<lifecycleVars, storeVars, sent, crashes, ver, want, epoch, todo,
                 win, child>>

\* fireOnce checks the active version, that it may fire, and that its input
\* resolves to exactly one window, before it runs the driver (which re-reads).
FireOnce(t, r) ==
  /\ pc[t] = "idle"
  /\ r[2] > r[1]
  /\ CanFire
  /\ \E w \in Windows : Due(r[1], r[2]) = {w}
  /\ pc' = [pc EXCEPT ![t] = "read"]
  /\ req' = [req EXCEPT ![t] = r]
  /\ want' = [want EXCEPT ![t] = schedule.version]
  /\ UNCHANGED <<lifecycleVars, storeVars, restateVars, crashes, ver, epoch, todo,
                 win, child>>

-----------------------------------------------------------------------------
(* The steps of onWake and processWindowUnderFence.                        *)

\* Where a continuation stops: the object is free for the next call, a command
\* has exited.
EndPc(c) == IF c = Restate THEN "idle" ELSE "done"

\* A step's effect may commit and its result be lost before it is journaled: the
\* step runs again.  Without a journal the command is simply dead (ToolCrash).
Outcomes(c) ==
  {"journaled"} \cup (IF c = Restate /\ crashes < MaxCrashes THEN {"lost"} ELSE {})

Count(outcome) == crashes' = IF outcome = "lost" THEN crashes + 1 ELSE crashes

\* A gated wake returns at once and arms nothing.
GetSchedule(c) ==
  /\ pc[c] = "read"
  /\ \/ /\ CanFire
        /\ pc' = [pc EXCEPT ![c] = "claim"]
        /\ ver' = [ver EXCEPT ![c] = schedule.version]
     \/ /\ ~CanFire
        /\ pc' = [pc EXCEPT ![c] = EndPc(c)]
        /\ UNCHANGED ver
  /\ UNCHANGED <<lifecycleVars, storeVars, restateVars, crashes, req, want, epoch,
                 todo, win, child>>

\* The lease is free, expired at the request's time, or already this owner's.
Claimable(c) ==
  lease.owner \in {NoOwner, Owner[c]} \/ lease.expires <= req[c][2]

\* Mutant: an update of the lease row keeps its epoch.
NextEpochKept == lease.epoch

NextEpoch == IF lease.owner = NoOwner THEN 0 ELSE lease.epoch + 1

ClaimLease(c) ==
  /\ pc[c] = "claim"
  /\ \/ /\ Claimable(c)
        /\ lease' = [owner |-> Owner[c], epoch |-> NextEpoch,
                     expires |-> req[c][2] + Ttl]
        /\ \E outcome \in Outcomes(c) :
             /\ Count(outcome)
             /\ pc' = [pc EXCEPT ![c] = IF outcome = "lost" THEN "claim" ELSE "window"]
        /\ epoch' = [epoch EXCEPT ![c] = NextEpoch]
        /\ todo' = [todo EXCEPT ![c] = Due(req[c][1], req[c][2])]
     \/ /\ ~Claimable(c)          \* lease_held_by_other
        /\ pc' = [pc EXCEPT ![c] = EndPc(c)]
        /\ UNCHANGED <<lease, crashes, epoch, todo>>
  /\ UNCHANGED <<lifecycleVars, fires, admissions, minted, restateVars, req, ver,
                 want, win, child>>

\* Mutant: the insert overwrites the row it conflicts with.
OverwriteFire(c) ==
  /\ pc[c] = "window"
  /\ \E w \in todo[c] :
       /\ Earliest(w, todo[c])
       /\ fires' = [fires EXCEPT ![<<ver[c], w>>] = [state |-> "PLANNED", child |-> 0]]
       /\ pc' = [pc EXCEPT ![c] = "admit"]
       /\ win' = [win EXCEPT ![c] = w]
  /\ UNCHANGED <<lifecycleVars, lease, admissions, minted, restateVars, crashes, req,
                 ver, want, epoch, todo, child>>

\* createOrGetFire for the earliest due window; a fire already bound is a replay.
CreateOrGetFire(c) ==
  /\ pc[c] = "window"
  /\ \E w \in todo[c] :
       LET k == <<ver[c], w>> IN
       /\ Earliest(w, todo[c])
       /\ fires' = [fires EXCEPT ![k] =
                      IF @.state = "absent" THEN [state |-> "PLANNED", child |-> 0]
                                            ELSE @]
       /\ \E outcome \in Outcomes(c) :
            /\ Count(outcome)
            /\ IF outcome = "lost"
               THEN UNCHANGED <<pc, todo, win>>
               ELSE IF fires[k].child # 0
               THEN /\ todo' = [todo EXCEPT ![c] = @ \ {w}]
                    /\ UNCHANGED <<pc, win>>
               ELSE /\ pc' = [pc EXCEPT ![c] = "admit"]
                    /\ win' = [win EXCEPT ![c] = w]
                    /\ UNCHANGED todo
  /\ UNCHANGED <<lifecycleVars, lease, admissions, minted, restateVars, req, ver,
                 want, epoch, child>>

\* Mutant: the door ignores the identity and mints a task for every call.
AdmitAlways(c) ==
  /\ pc[c] = "admit"
  /\ minted' = minted + 1
  /\ admissions' = [admissions EXCEPT ![Key(c)] = minted']
  /\ child' = [child EXCEPT ![c] = minted']
  /\ \E outcome \in Outcomes(c) :
       /\ Count(outcome)
       /\ pc' = [pc EXCEPT ![c] = IF outcome = "lost" THEN "admit" ELSE "select"]
  /\ UNCHANGED <<lifecycleVars, fires, lease, restateVars, req, ver, want, epoch,
                 todo, win>>

\* The admission door mints a task for a new identity and returns the same task
\* for a repeated one.
Admit(c) ==
  /\ pc[c] = "admit"
  /\ LET fresh == admissions[Key(c)] = 0
         id == IF fresh THEN minted + 1 ELSE admissions[Key(c)] IN
     /\ admissions' = [admissions EXCEPT ![Key(c)] = id]
     /\ minted' = IF fresh THEN minted + 1 ELSE minted
     /\ child' = [child EXCEPT ![c] = id]
  /\ \E outcome \in Outcomes(c) :
       /\ Count(outcome)
       /\ pc' = [pc EXCEPT ![c] = IF outcome = "lost" THEN "admit" ELSE "select"]
  /\ UNCHANGED <<lifecycleVars, fires, lease, restateVars, req, ver, want, epoch,
                 todo, win>>

\* The window is finished; go on with the next one.
WindowDone(c) ==
  /\ pc' = [pc EXCEPT ![c] = "window"]
  /\ todo' = [todo EXCEPT ![c] = @ \ {win[c]}]

\* StaleFenceError: the continuation stops without arming a wake.
FencedOut(c) == pc' = [pc EXCEPT ![c] = EndPc(c)] /\ UNCHANGED todo

\* bindImpl, first statement: read the row and settle a fire already bound.  A row
\* bound to another task is an error: Restate retries the step, a command exits.
BindSelect(c) ==
  /\ pc[c] = "select"
  /\ LET bound == fires[Key(c)].child IN
     \/ /\ bound = 0
        /\ pc' = [pc EXCEPT ![c] = "update"]
        /\ UNCHANGED todo
     \/ bound = child[c] /\ bound # 0 /\ FenceCurrent(c) /\ WindowDone(c)
     \/ bound = child[c] /\ bound # 0 /\ ~FenceCurrent(c) /\ FencedOut(c)
     \/ /\ bound # 0 /\ bound # child[c]
        /\ pc' = [pc EXCEPT ![c] = IF c = Restate THEN "select" ELSE "done"]
        /\ UNCHANGED todo
  /\ UNCHANGED <<lifecycleVars, storeVars, restateVars, crashes, req, ver, want,
                 epoch, win, child>>

\* Mutant: the UPDATE trusts the fence that the first statement saw.
BindUpdateUnfenced(c) ==
  /\ pc[c] = "update"
  /\ fires' = [fires EXCEPT ![Key(c)] = [state |-> "ADMITTED", child |-> child[c]]]
  /\ WindowDone(c)
  /\ UNCHANGED <<lifecycleVars, lease, admissions, minted, restateVars, crashes, req,
                 ver, want, epoch, win, child>>

\* bindImpl, the fenced UPDATE: no row when the lease moved on or the fire is bound.
BindUpdate(c) ==
  /\ pc[c] = "update"
  /\ \/ /\ fires[Key(c)].child = 0 /\ FenceCurrent(c)
        /\ fires' = [fires EXCEPT ![Key(c)] =
                       [state |-> "ADMITTED", child |-> child[c]]]
        /\ \E outcome \in Outcomes(c) :
             /\ Count(outcome)
             /\ IF outcome = "lost"
                THEN pc' = [pc EXCEPT ![c] = "select"] /\ UNCHANGED todo
                ELSE WindowDone(c)
     \/ /\ fires[Key(c)].child # 0 \/ ~FenceCurrent(c)
        /\ pc' = [pc EXCEPT ![c] = "recheck"]
        /\ UNCHANGED <<fires, crashes, todo>>
  /\ UNCHANGED <<lifecycleVars, lease, admissions, minted, restateVars, req, ver,
                 want, epoch, win, child>>

\* bindImpl, after an UPDATE of no row: stale fence, replay, or a conflict.
BindRecheck(c) ==
  /\ pc[c] = "recheck"
  /\ \/ ~FenceCurrent(c) /\ FencedOut(c)
     \/ FenceCurrent(c) /\ fires[Key(c)].child = child[c] /\ WindowDone(c)
     \/ /\ FenceCurrent(c) /\ fires[Key(c)].child # child[c]
        /\ pc' = [pc EXCEPT ![c] = IF c = Restate THEN "select" ELSE "done"]
        /\ UNCHANGED todo
  /\ UNCHANGED <<lifecycleVars, storeVars, restateVars, crashes, req, ver, want,
                 epoch, win, child>>

\* All due windows processed: arm the next one, as a delayed call to itself.
ScheduleWake(c) ==
  /\ pc[c] = "window" /\ todo[c] = {}
  /\ pc' = [pc EXCEPT ![c] = EndPc(c)]
  /\ IF c = Restate /\ ArmNext /\ NextWindows(req[c][2]) # {}
     THEN \E w \in Windows :
            /\ Earliest(w, NextWindows(req[c][2]))
            /\ wakes' = [wakes EXCEPT ![SelfWake(w)] = @ + 1]
     ELSE UNCHANGED wakes
  /\ UNCHANGED <<lifecycleVars, storeVars, sent, crashes, req, ver, want, epoch,
                 todo, win, child>>

-----------------------------------------------------------------------------
(* Failures.                                                               *)

\* Mutant: the steps are not journaled, and a crash ends the continuation.
RestateCrashUnjournaled ==
  /\ crashes < MaxCrashes
  /\ pc[Restate] \in {"update", "recheck"}
  /\ pc' = [pc EXCEPT ![Restate] = "idle"]
  /\ crashes' = crashes + 1
  /\ UNCHANGED <<lifecycleVars, storeVars, restateVars, req, ver, want, epoch, todo,
                 win, child>>

\* A crash inside bindImpl re-runs the whole journaled step.
RestateCrash ==
  /\ crashes < MaxCrashes
  /\ pc[Restate] \in {"update", "recheck"}
  /\ pc' = [pc EXCEPT ![Restate] = "select"]
  /\ crashes' = crashes + 1
  /\ UNCHANGED <<lifecycleVars, storeVars, restateVars, req, ver, want, epoch, todo,
                 win, child>>

\* A fire-once command dies or gets an error it does not handle.
ToolCrash(t) ==
  /\ crashes < MaxCrashes
  /\ pc[t] \notin {"idle", "done"}
  /\ pc' = [pc EXCEPT ![t] = "done"]
  /\ crashes' = crashes + 1
  /\ UNCHANGED <<lifecycleVars, storeVars, restateVars, req, ver, want, epoch, todo,
                 win, child>>

-----------------------------------------------------------------------------
Continue(c) ==
  \/ GetSchedule(c) \/ ClaimLease(c) \/ CreateOrGetFire(c) \/ Admit(c)
  \/ BindSelect(c) \/ BindUpdate(c) \/ BindRecheck(c) \/ ScheduleWake(c)

Next ==
  \/ LifecycleNext /\ UNCHANGED driverVars
  \/ \E r \in OperatorWakes : OperatorWake(r)
  \/ \E r \in Requests : Deliver(r)
  \/ \E t \in Tools, r \in ToolWakes : FireOnce(t, r)
  \/ \E c \in Conts : Continue(c)
  \/ RestateCrash
  \/ \E t \in Tools : ToolCrash(t)

Spec == Init /\ [][Next]_vars

\* Restate delivers every outstanding call and keeps re-running a continuation
\* until it ends; a fire-once command that does not die runs to its end.  Nothing
\* is assumed of operators or of crashes.
Fairness ==
  /\ WF_vars((\E r \in Requests : Deliver(r)) \/ Continue(Restate))
  /\ \A t \in Tools : WF_vars(Continue(t))

FairSpec == Spec /\ Fairness

-----------------------------------------------------------------------------
(* Properties.                                                             *)

\* A continuation that claimed the lease and still acts under it.
Holds(c) == pc[c] \in {"window"} \cup InWindow

\* One canonical task per logical fire: the task a fire's row records is the one
\* the door admitted for that fire, no two fires share a task, and the door has
\* minted exactly as many tasks as fires were admitted, whatever was retried,
\* replayed, taken over or lost (migration header, "cannot create a second
\* canonical fire").
OneTaskPerFire ==
  /\ \A k \in Keys :
       /\ fires[k].child # 0 => fires[k].child = admissions[k]
       /\ fires[k].state = "ADMITTED" <=> fires[k].child # 0
       /\ admissions[k] <= minted
  /\ \A j, k \in Keys : admissions[j] # 0 /\ j # k => admissions[j] # admissions[k]

\* Two continuations never hold the same fence (claimLease gives every claim an
\* epoch of its own), so the fenced UPDATE admits at most one of them.
FenceMutex ==
  \A c, d \in Conts : c # d /\ Holds(c) /\ Holds(d) =>
    Owner[c] # Owner[d] \/ epoch[c] # epoch[d]

\* "A stale lease fence will NEVER become current for THIS continuation"
\* (restate-service.ts), the reason StaleFenceError is not retried.
NoFenceRevival ==
  [][\A c \in Conts : Holds(c) /\ ~FenceCurrent(c) /\ Holds(c)' => ~FenceCurrent(c)']_vars

\* Only the continuation that claimed the lease last binds a fire, and to the task it
\* had admitted for it, although bindImpl reads the row and the lease in one statement
\* and writes in another, with a takeover possible before, between and after.
LastClaimBinds ==
  [][\A k \in Keys : fires'[k].child # fires[k].child =>
       \E c \in Conts :
         /\ Holds(c) /\ Key(c) = k /\ child[c] = fires'[k].child
         /\ \A d \in Conts \ {c} : Holds(d) => epoch[d] < epoch[c]]_vars

\* "This binds the fire to the version the operator approved" (canary-fire.ts): a task
\* that a fire-once command has had admitted is of the version its operator named.
FiresApprovedVersion ==
  \A t \in Tools :
    pc[t] \in {"select", "update", "recheck"} => ver[t] = want[t]

\* The detailed scheduler does nothing but admit each fire once and bind it once.
Fires == INSTANCE ScheduleFires
           WITH admitted <- admissions, bound <- [k \in Keys |-> fires[k].child]
ImplementsFires == Fires!Spec

\* While only the Restate object fires the schedule, every task that was admitted is
\* bound to its fire, through any crash and although disable-canary may strike
\* between the two.
AdmittedIsBound ==
  \A k \in Keys : admissions[k] # 0 ~> fires[k].child # 0

\* "The current owner reconciles the fire on its next wake" (restate-service.ts): the
\* same when a fire-once command may take the lease over, for as long as the schedule
\* is on.
FencedFireIsReconciled ==
  \A k \in Keys :
    admissions[k] # 0 ~> (fires[k].child # 0 \/ schedule.state = "disabled")

\* A self-perpetuating schedule: when a wake has finished its windows, the next
\* window is fired too, by the version that is active then, unless the schedule is
\* stopped first.
NextWindowFires ==
  \A w \in Windows :
    (/\ pc[Restate] = "window" /\ todo[Restate] = {}
     /\ Earliest(w, NextWindows(req[Restate][2])))
      ~> (schedule.state = "disabled" \/ \E v \in Versions : fires[<<v, w>>].child # 0)
=============================================================================
