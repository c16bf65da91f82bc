------------------------- MODULE IdentityGovernance -------------------------
(***************************************************************************)
(* The Primary Identity of a tenant and the workflows that change it:      *)
(* IdentityChangeWorkflowV1 (identity-workflow.ts), the store and the      *)
(* completion transaction it calls, and the triggers of migration          *)
(* 20260925120000_primary_identity.sql that the store's writes meet.       *)
(*                                                                         *)
(* A durable step of the workflow commits to the database and is then      *)
(* journaled by Restate.  A worker that dies between the two repeats the   *)
(* step, so every such action either moves on or, LOST, stays in place     *)
(* with its writes done.  A document is its three sections.                *)
(***************************************************************************)
EXTENDS Integers, Sequences, FiniteSets

CONSTANTS
    Changes,        \* identity-change tasks
    IdentityPlans,  \* what they request, of whom, under which rules
    ApprovalWait,   \* ttlMs of the approval rules
    RateCap,        \* Class C and D activations per window
    RateWindow,     \* the rolling window of the rate cap
    MaxLost         \* bound: journal entries lost

ASSUME IdentityAssumption ==
    /\ RateCap \in Nat /\ RateWindow \in Nat /\ ApprovalWait \in Nat /\ MaxLost \in Nat
    /\ Changes \cap {"seed", "none"} = {}
    /\ \A p \in IdentityPlans : Len(p.seed) \in Nat

VARIABLES
    terms,        \* the plan of this behaviour
    profile,      \* the identity_profiles row of the tenant, or none
    versions,     \* identity_versions; the head is the last
    activations,  \* identity_activations
    frozen,       \* kernel_private.identity_governance_state
    candidates,   \* the identity_candidates row each task proposed
    change,       \* status of each task
    ruling,       \* decision of each task's POLICY_CHECKED event
    consent,      \* status of each task's approvals row
    flow,         \* each workflow's place and journal
    today,        \* the clock
    lost          \* journal entries lost so far

identityVars == <<terms, profile, versions, activations, frozen, candidates,
                  change, ruling, consent, flow, today, lost>>

rows == <<profile, versions, activations, candidates, change, ruling, consent>>

None == [id |-> "none"]

Classes == {"BOOTSTRAP", "A", "C", "D", "ROLLBACK"}

Over == {"COMPLETED", "FAILED", "CANCELLED"}

\* Classes that a human must approve.
HumanClasses == {"BOOTSTRAP", "A", "ROLLBACK"}

\* The policy of a plan decides every class, and the freeze is on or off.
ASSUME PlansRuled ==
    \A p \in IdentityPlans :
       p.frozen \in BOOLEAN /\ p.rules \in [Classes -> {"ALLOW", "DENY", "APPROVAL_REQUIRED"}]

HeadVersion == Len(versions)

IdentityTypeOK ==
    /\ terms \in IdentityPlans
    /\ \A v \in 1..HeadVersion : versions[v].class \in Classes /\ versions[v].base \in Nat
    /\ \A i \in 1..Len(activations) : activations[i].version \in 1..HeadVersion
    /\ frozen \in BOOLEAN
    /\ \A t \in Changes : candidates[t] = None \/ candidates[t].class \in Classes
    /\ change \in [Changes -> {"none", "RECEIVED", "COMPILED", "APPROVAL_REQUIRED", "READY",
                               "RUNNING", "VERIFYING"} \cup Over]
    /\ ruling \in [Changes -> {"none", "ALLOW", "DENY", "APPROVAL_REQUIRED"}]
    /\ consent \in [Changes -> {"none", "PENDING", "GRANTED", "DENIED", "CANCELLED", "EXPIRED"}]
    /\ today \in Nat /\ lost \in 0..MaxLost

\* A plan may begin with an identity that earlier tasks, seed, activated.
IdentityInit ==
    /\ terms \in IdentityPlans
    /\ profile = terms.profile
    /\ versions = [v \in 1..Len(terms.seed) |->
         [doc |-> terms.seed[v], class |-> IF v = 1 THEN "BOOTSTRAP" ELSE "A",
          task |-> "seed", base |-> v - 1]]
    /\ activations = [v \in 1..Len(terms.seed) |->
         [version |-> v, class |-> IF v = 1 THEN "BOOTSTRAP" ELSE "A", task |-> "seed", at |-> 0]]
    /\ frozen = terms.frozen
    /\ candidates = [t \in Changes |-> None]
    /\ change = [t \in Changes |-> "none"]
    /\ ruling = [t \in Changes |-> "none"]
    /\ consent = [t \in Changes |-> "none"]
    /\ flow = [t \in Changes |->
         [at |-> "run", profile |-> None, head |-> 0, draft |-> None, due |-> 0, reason |-> "none"]]
    /\ today = 0 /\ lost = 0

Wanted(t) == terms.requests[t]

----------------------------------------------------------------------------
(* Durable steps *)

\* ctx.run: the journal entry is written, or it is lost and the step repeats.
Journal(t, entry) ==
    \/ flow' = [flow EXCEPT ![t] = entry] /\ UNCHANGED lost
    \/ lost < MaxLost /\ lost' = lost + 1 /\ UNCHANGED flow

MoveTo(t, place) == [flow[t] EXCEPT !.at = place]

\* A read that only the journal keeps.
Reads(t, entry) == Journal(t, entry) /\ UNCHANGED <<terms, rows, frozen, today>>

\* emit: the status each ledger write commits and where the run goes next.
Emits ==
    [create  |-> [status |-> "RECEIVED",          next |-> "ensure"],
     compile |-> [status |-> "COMPILED",          next |-> "policy"],
     request |-> [status |-> "APPROVAL_REQUIRED", next |-> "await"],
     ready   |-> [status |-> "READY",             next |-> "start"],
     start   |-> [status |-> "RUNNING",           next |-> "complete"],
     complete |-> [status |-> "RUNNING",          next |-> "verify"],
     verify  |-> [status |-> "VERIFYING",         next |-> "apply"],
     refused |-> [status |-> "FAILED",            next |-> "done"],
     denied  |-> [status |-> "FAILED",            next |-> "done"],
     cancelled |-> [status |-> "CANCELLED",       next |-> "done"]]

Emit(t) ==
    LET at == flow[t].at IN
    /\ at \in DOMAIN Emits
    /\ change' = [change EXCEPT ![t] = Emits[at].status]
    /\ Journal(t, MoveTo(t, IF at = "create" /\ (flow[t].head > 0 \/ Wanted(t).kind = "ROLLBACK")
                            THEN "propose" ELSE Emits[at].next))
    /\ UNCHANGED <<terms, profile, versions, activations, frozen, candidates, ruling, consent, today>>

----------------------------------------------------------------------------
(* Before the task exists *)

\* run: the submission is authenticated and parsed; only a human may go on.
Submit(t) ==
    /\ flow[t].at = "run"
    /\ Reads(t, MoveTo(t, IF Wanted(t).human THEN "profile" ELSE "turnedAway"))

ReadProfile(t) ==
    /\ flow[t].at = "profile"
    /\ Reads(t, [flow[t] EXCEPT !.profile = profile, !.at = IF profile = None THEN "screen" ELSE "head"])

ReadHead(t) ==
    /\ flow[t].at = "head"
    /\ Reads(t, [flow[t] EXCEPT !.head = HeadVersion, !.at = "screen"])

\* The refusals that need no task.
TurnedAway(t) ==
    LET p == flow[t].profile
        q == Wanted(t)
    IN  \/ p # None /\ p.owner # q.actor
        \/ q.kind = "ROLLBACK" /\ (p = None \/ flow[t].head = 0)
        \/ q.kind = "PROPOSE" /\ (~q.sameTenant \/ (p # None /\ p.id # q.id) \/ q.secret)

\* Refuse, read the rollback target, or take the caller's document.
Screen(t) ==
    /\ flow[t].at = "screen"
    /\ Reads(t,
         IF TurnedAway(t) THEN MoveTo(t, "turnedAway")
         ELSE IF Wanted(t).kind = "PROPOSE" THEN [flow[t] EXCEPT !.draft = Wanted(t).doc, !.at = "create"]
         ELSE IF Wanted(t).to \in 1..HeadVersion
              THEN [flow[t] EXCEPT !.draft = versions[Wanted(t).to].doc, !.at = "create"]
              ELSE MoveTo(t, "turnedAway"))

----------------------------------------------------------------------------
(* Bootstrap, candidate and policy *)

Refusal(t, why) == [flow[t] EXCEPT !.at = "reject", !.reason = why]

\* ensureProfile: the row found must be this very identity.
EnsureProfile(t) ==
    /\ flow[t].at = "ensure"
    /\ Reads(t, MoveTo(t, IF profile = None THEN "insert"
                          ELSE IF profile.id = Wanted(t).id /\ profile.owner = Wanted(t).actor
                               THEN "propose" ELSE "refused"))

\* The insert: identity_owner_guard, and unique(tenant_id) against a rival.  A
\* lost journal entry repeats ensureProfile, which then finds its own row.
InsertProfile(t) ==
    /\ flow[t].at = "insert"
    /\ IF profile = None /\ Wanted(t).actor \in terms.members
       THEN /\ profile' = [id |-> Wanted(t).id, owner |-> Wanted(t).actor]
            /\ \/ flow' = [flow EXCEPT ![t] = MoveTo(t, "propose")] /\ UNCHANGED lost
               \/ lost < MaxLost /\ lost' = lost + 1 /\ flow' = [flow EXCEPT ![t] = MoveTo(t, "ensure")]
       ELSE UNCHANGED profile /\ Journal(t, MoveTo(t, "refused"))
    /\ UNCHANGED <<terms, versions, activations, frozen, candidates, change, ruling, consent, today>>

\* The class a document's difference from another gives it.
ClassOf(old, doc) ==
    IF old.a # doc.a THEN "A" ELSE IF old.c # doc.c THEN "C" ELSE IF old.d # doc.d THEN "D" ELSE "none"

\* identity_candidate_classify: the class the database gives a candidate, or
\* none when it refuses the row.
Classified(t) ==
    LET asked == IF Wanted(t).kind = "ROLLBACK" THEN "ROLLBACK"
                 ELSE IF flow[t].head > 0 THEN "A" ELSE "BOOTSTRAP"
        doc == flow[t].draft
    IN  IF profile = None \/ profile.owner # Wanted(t).actor THEN "none"
        ELSE IF HeadVersion = 0 THEN IF asked = "BOOTSTRAP" THEN asked ELSE "none"
        ELSE IF asked = "ROLLBACK"
             THEN IF \E v \in 1..HeadVersion : versions[v].doc = doc THEN asked ELSE "none"
             ELSE ClassOf(versions[HeadVersion].doc, doc)

\* propose: a repeated step finds its own row.
Propose(t) ==
    /\ flow[t].at = "propose"
    /\ IF candidates[t] # None \/ Classified(t) = "none"
       THEN /\ UNCHANGED candidates
            /\ Journal(t, MoveTo(t, IF candidates[t] # None THEN "compile" ELSE "refused"))
       ELSE /\ candidates' = [candidates EXCEPT ![t] =
                 [id |-> t, doc |-> flow[t].draft, class |-> Classified(t), base |-> HeadVersion, state |-> "HELD"]]
            /\ Journal(t, MoveTo(t, "compile"))
    /\ UNCHANGED <<terms, profile, versions, activations, frozen, change, ruling, consent, today>>

\* A decision that lets the class go on: ALLOW is enough only for C and D.
Acceptable(class, decision) ==
    decision = "APPROVAL_REQUIRED" \/ (decision = "ALLOW" /\ class \notin HumanClasses)

\* evaluate-policy: the rule of the candidate's class, and the deadline.
EvaluatePolicy(t) ==
    /\ flow[t].at = "policy"
    /\ Reads(t, [flow[t] EXCEPT !.due = today + ApprovalWait, !.at = "record"])

\* record-policy: the store refuses the decision of one who is no member; a
\* repeated step finds its event.
RecordPolicy(t) ==
    LET class == candidates[t].class
        decision == terms.rules[class]
        recorded == Wanted(t).actor \in terms.members
    IN  /\ flow[t].at = "record"
        /\ IF recorded
           THEN /\ ruling' = [ruling EXCEPT ![t] = decision]
                /\ consent' = [consent EXCEPT ![t] =
                     IF @ = "none" /\ decision = "APPROVAL_REQUIRED" THEN "PENDING" ELSE @]
           ELSE UNCHANGED <<ruling, consent>>
        /\ Journal(t, IF ~recorded THEN Refusal(t, "unrecorded")
                      ELSE IF ~Acceptable(class, decision) THEN Refusal(t, "policy")
                      ELSE MoveTo(t, IF decision = "ALLOW" THEN "ready" ELSE "request"))
        /\ UNCHANGED <<terms, profile, versions, activations, frozen, candidates, change, today>>

\* Where a refused run goes once its candidate is settled.
Ending(t) ==
    IF flow[t].reason = "CANCELLED" THEN "cancelled"
    ELSE IF flow[t].reason \in {"DENIED", "EXPIRED"} THEN "denied" ELSE "refused"

\* Mutant: a candidate that is no longer HELD is not skipped but refused.
RejectHeldOnly(t) ==
    /\ flow[t].at = "reject" /\ candidates[t].state = "HELD"
    /\ candidates' = [candidates EXCEPT ![t].state = "REJECTED"]
    /\ Journal(t, MoveTo(t, Ending(t)))
    /\ UNCHANGED <<terms, profile, versions, activations, frozen, change, ruling, consent, today>>

\* rejectIfHeld, then the emit that ends the task.
RejectIfHeld(t) ==
    /\ flow[t].at = "reject"
    /\ candidates' = [candidates EXCEPT ![t].state = IF @ = "HELD" THEN "REJECTED" ELSE @]
    /\ Journal(t, MoveTo(t, Ending(t)))
    /\ UNCHANGED <<terms, profile, versions, activations, frozen, change, ruling, consent, today>>

----------------------------------------------------------------------------
(* The human gate *)

\* approve and cancel: the first answer to a pending approval, unless it came
\* too late.  Every later one reads the row.
Answer(t) ==
    /\ consent[t] = "PENDING"
    /\ \E reply \in {"GRANTED", "DENIED", "CANCELLED"} :
         consent' = [consent EXCEPT ![t] = IF today >= flow[t].due THEN "EXPIRED" ELSE reply]
    /\ UNCHANGED <<terms, profile, versions, activations, frozen, candidates, change, ruling, flow, today, lost>>

\* The run wakes on the promise or the timer and resolves the deadline.
ResolveDeadline(t) ==
    /\ flow[t].at = "await"
    /\ consent[t] # "PENDING" \/ today >= flow[t].due
    /\ LET result == IF consent[t] = "PENDING" THEN "EXPIRED" ELSE consent[t]
       IN  /\ consent' = [consent EXCEPT ![t] = result]
           /\ Journal(t, IF result = "GRANTED" THEN MoveTo(t, "approve") ELSE Refusal(t, result))
    /\ UNCHANGED <<terms, profile, versions, activations, frozen, candidates, change, ruling, today>>

ApproveCandidate(t) ==
    /\ flow[t].at = "approve"
    /\ candidates' = [candidates EXCEPT ![t].state = IF @ = "HELD" THEN "APPROVED" ELSE @]
    /\ Journal(t, MoveTo(t, "ready"))
    /\ UNCHANGED <<terms, profile, versions, activations, frozen, change, ruling, consent, today>>

----------------------------------------------------------------------------
(* Completion, version and activation in one transaction *)

\* Mutant: the candidate is applied onto whatever the head is now.
VersionGuardNoCas(t) ==
    LET c == candidates[t]
    IN  /\ HeadVersion = 0 => c.class = "BOOTSTRAP"
        /\ c.class \in {"C", "D"} => versions[HeadVersion].doc.a = c.doc.a

\* identity_version_guard: compare-and-swap on the head the candidate was
\* proposed against.
VersionGuard(t) ==
    LET c == candidates[t]
    IN  /\ HeadVersion = c.base
        /\ HeadVersion = 0 => c.class = "BOOTSTRAP"
        /\ c.class \in {"C", "D"} => versions[HeadVersion].doc.a = c.doc.a

RecentSmall == {i \in 1..Len(activations) :
    activations[i].class \in {"C", "D"} /\ activations[i].at + RateWindow > today}

\* identity_activation_guard.
ActivationGuard(t) ==
    LET c == candidates[t]
        approved == ruling[t] = "APPROVAL_REQUIRED"
    IN  /\ c.class \in HumanClasses => approved
        /\ c.state = "APPROVED" \/ (c.state = "HELD" /\ c.class \in {"C", "D"})
        /\ IF approved THEN consent[t] = "GRANTED" ELSE ruling[t] = "ALLOW"
        /\ c.class \in {"C", "D"} => ~frozen /\ Cardinality(RecentSmall) < RateCap

\* Mutant: the head is read after the version was inserted.
NextVersionLate == HeadVersion + 2

NextVersion == HeadVersion + 1

\* completeAndActivateIdentity.  A repeated step finds the outcome and the
\* activation it committed; a refusal rolls everything back.
Apply(t) ==
    /\ flow[t].at = "apply"
    /\ IF change[t] = "COMPLETED"
       THEN UNCHANGED <<versions, activations, change>> /\ Journal(t, MoveTo(t, "done"))
       ELSE IF VersionGuard(t) /\ ActivationGuard(t)
       THEN /\ change' = [change EXCEPT ![t] = "COMPLETED"]
            /\ versions' = Append(versions, [doc |-> candidates[t].doc, class |-> candidates[t].class,
                                             task |-> t, base |-> candidates[t].base])
            /\ activations' = Append(activations, [version |-> NextVersion, class |-> candidates[t].class,
                                                   task |-> t, at |-> today])
            /\ Journal(t, MoveTo(t, "done"))
       ELSE UNCHANGED <<versions, activations, change>> /\ Journal(t, Refusal(t, "apply"))
    /\ UNCHANGED <<terms, profile, frozen, candidates, ruling, consent, today>>

----------------------------------------------------------------------------
(* Others *)

\* set_identity_freeze, run by deployment authority once a profile exists.
SetFreeze ==
    /\ terms.unfreezes /\ profile # None
    /\ frozen' = ~frozen
    /\ UNCHANGED <<terms, rows, flow, today, lost>>

\* Time, bounded by the plan's days, passes on while an approval is awaited.
Tick ==
    /\ today < terms.days \/ \E t \in Changes : consent[t] = "PENDING" /\ today < flow[t].due
    /\ today' = today + 1
    /\ UNCHANGED <<terms, rows, frozen, flow, lost>>

Workflow(t) ==
    \/ ReadProfile(t) \/ ReadHead(t) \/ Screen(t) \/ EnsureProfile(t) \/ InsertProfile(t)
    \/ Propose(t) \/ EvaluatePolicy(t) \/ RecordPolicy(t) \/ RejectIfHeld(t)
    \/ ResolveDeadline(t) \/ ApproveCandidate(t) \/ Apply(t) \/ Emit(t)

IdentityNext ==
    \/ \E t \in Changes : Submit(t) \/ Workflow(t) \/ Answer(t)
    \/ SetFreeze \/ Tick

\* Restate resumes a run until it ends, and its timers fire.
IdentityFairness == /\ \A t \in Changes : WF_identityVars(Workflow(t))
                    /\ WF_identityVars(Tick)

IdentitySpec == IdentityInit /\ [][IdentityNext]_identityVars

----------------------------------------------------------------------------
(* Properties *)

\* Every version of the identity was classified by its real difference from
\* the version just before it, and carries the authority of that class: two
\* changes in flight at once, a bootstrap that lost its race, a rollback or a
\* candidate gone stale while it waited for its approval never smuggle one
\* class's change in under another's (complete.ts, identity_version_guard and
\* identity_activation_guard).
GovernedHistory ==
    \A v \in 1..HeadVersion :
        LET e == versions[v]
        IN  /\ v = 1 <=> e.class = "BOOTSTRAP"
            /\ v > 1 /\ e.class \in {"A", "C", "D"} /\ e.task # "seed" =>
                   e.class = ClassOf(versions[v - 1].doc, e.doc)
            /\ e.class = "ROLLBACK" => \E w \in 1..(v - 1) : versions[w].doc = e.doc
            /\ e.class \in HumanClasses /\ e.task # "seed" => consent[e.task] = "GRANTED"

\* A change task is COMPLETED exactly when its version is active (D8), and a
\* task that ended otherwise left no version and no candidate still HELD.
CompletedIffActivated ==
    \A t \in Changes :
        /\ change[t] = "COMPLETED" <=> \E i \in 1..Len(activations) : activations[i].task = t
        /\ change[t] \in {"FAILED", "CANCELLED"} => candidates[t] = None \/ candidates[t].state # "HELD"

\* No more Class C and D activations in any window than the cap allows.
WithinRateCap ==
    \A i \in 1..Len(activations) :
        Cardinality({j \in 1..i : activations[j].class \in {"C", "D"}
                                  /\ activations[j].at + RateWindow > activations[i].at}) <= RateCap

\* The identity's whole history is governed: the class of every change, its human
\* authority, its completion and its rate (complete.ts:98, ADR-0021).  The freeze
\* and the policy's ALLOW of a C or D change are about the moment of activation:
\* they are conditions of ActivationGuard, and no part of the history.
IdentityGoverned == GovernedHistory /\ CompletedIffActivated /\ WithinRateCap

\* Every change task that was created has ended.
ChangesOver == \A t \in Changes : change[t] \in Over \cup {"none"}
=============================================================================
