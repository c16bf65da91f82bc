---------------------- MODULE IdentityGovernanceProofs ----------------------
(***************************************************************************)
(* The identity's history is governed for every set of change tasks and    *)
(* every plan of requests, rules and members, however the runs interleave  *)
(* and whichever journal entries are lost.  A candidate may be long stale  *)
(* when it is applied: what holds the argument together is that its class  *)
(* is relative to a base that stays in the history, and that the compare-  *)
(* and-swap makes that base the head again at the moment of activation.    *)
(***************************************************************************)
EXTENDS IdentityGovernance, SequenceTheorems, FiniteSetTheorems, TLAPS

\* A finite sequence, whatever its elements.
Listed(s) == Len(s) \in Nat /\ s = [i \in 1..Len(s) |-> s[i]]

LEMMA AppendListed ==
  ASSUME NEW s, Listed(s), NEW e
  PROVE  /\ Listed(Append(s, e)) /\ Len(Append(s, e)) = Len(s) + 1
         /\ \A i \in 1..Len(s) : Append(s, e)[i] = s[i]
         /\ Append(s, e)[Len(s) + 1] = e
<1> DEFINE S == {s[i] : i \in 1..Len(s)} \cup {e}
<1>1. s \in Seq(S)
  <2>1. s \in [1..Len(s) -> S]
    BY DEF Listed
  <2> QED BY <2>1 DEF Listed
<1>2. e \in S OBVIOUS
<1>3. /\ Append(s, e) \in Seq(S) /\ Len(Append(s, e)) = Len(s) + 1
      /\ \A i \in 1..Len(s) : Append(s, e)[i] = s[i]
      /\ Append(s, e)[Len(s) + 1] = e
  BY <1>1, <1>2
<1>4. Listed(Append(s, e))
  <2> DEFINE a == Append(s, e)
  <2>1. a \in Seq(S) BY <1>3
  <2> HIDE DEF a
  <2>2. a = [i \in 1..Len(a) |-> a[i]] /\ Len(a) \in Nat BY <2>1
  <2>3. Listed(a) BY <2>2 DEF Listed
  <2> QED BY <2>3 DEF a
<1> QED BY <1>3, <1>4

LEMMA MadeListed ==
  ASSUME NEW n \in Nat, NEW f, f = [i \in 1..n |-> f[i]]
  PROVE  Listed(f) /\ Len(f) = n
<1> DEFINE S == {f[i] : i \in 1..n}
<1>1. f \in [1..n -> S] OBVIOUS
<1>2. f \in Seq(S) BY <1>1
<1>3. DOMAIN f = 1..Len(f) /\ Len(f) \in Nat BY <1>2
<1>4. Len(f) = n BY <1>1, <1>3
<1> QED BY <1>4, <1>3 DEF Listed

-----------------------------------------------------------------------------
(* The inductive invariant, by parts. *)

Fields == {"at", "profile", "head", "draft", "due", "reason"}
Shaped(f) == f = [x \in Fields |-> f[x]]

Tabulated(f) == f = [t \in Changes |-> f[t]]

FlowShape == Tabulated(flow) /\ \A t \in Changes : Shaped(flow[t])

IdentityShape ==
  /\ Listed(versions) /\ Listed(activations)
  /\ Tabulated(candidates) /\ Tabulated(change) /\ Tabulated(consent)
  /\ FlowShape /\ today \in Nat

Early == {"run", "profile", "head", "screen", "create", "ensure", "insert", "turnedAway"}
Within == {"compile", "policy", "record", "request", "await", "approve", "ready", "start",
           "complete", "verify", "apply", "reject"}
Refusing == {"refused", "denied", "cancelled"}

Settled(t) == candidates[t] = None \/ candidates[t].state # "HELD"

\* What the place of a run says of its rows.
Placed(t) ==
  /\ flow[t].at \in Early \cup Within \cup Refusing \cup {"propose", "done"}
  /\ flow[t].at \in Early => candidates[t] = None
  /\ flow[t].at \in Within => candidates[t] # None
  /\ flow[t].at \in Refusing => Settled(t)
  /\ change[t] \in {"FAILED", "CANCELLED"} => flow[t].at \in Refusing \cup {"done"} /\ Settled(t)
  /\ change[t] = "COMPLETED" => flow[t].at \in {"apply", "done"}

\* A candidate keeps the class of its difference from the head it was proposed
\* against, and that head is still in the history.
CandidateStands(t) ==
  LET c == candidates[t]
  IN  c # None =>
        /\ c = [id |-> t, doc |-> c.doc, class |-> c.class, base |-> c.base, state |-> c.state]
        /\ c.base \in 0..HeadVersion
        /\ c.base = 0 <=> c.class = "BOOTSTRAP"
        /\ c.class \in {"A", "C", "D"} => c.base > 0 /\ c.class = ClassOf(versions[c.base].doc, c.doc)
        /\ c.class = "ROLLBACK" => \E w \in 1..c.base : versions[w].doc = c.doc

\* One version of GovernedHistory.
Governed(v) ==
  LET e == versions[v]
  IN  /\ v = 1 <=> e.class = "BOOTSTRAP"
      /\ v > 1 /\ e.class \in {"A", "C", "D"} /\ e.task # "seed" =>
             e.class = ClassOf(versions[v - 1].doc, e.doc)
      /\ e.class = "ROLLBACK" => \E w \in 1..(v - 1) : versions[w].doc = e.doc
      /\ e.class \in HumanClasses /\ e.task # "seed" => consent[e.task] = "GRANTED"

VersionsKnown == \A v \in 1..HeadVersion : versions[v].task \in Changes \cup {"seed"}

ActivatedIff ==
  \A t \in Changes : change[t] = "COMPLETED" <=> \E i \in 1..Len(activations) : activations[i].task = t

\* Neither a past window nor the one that ends today is over the cap.
RateInv ==
  /\ \A i \in 1..Len(activations) : activations[i].at \in Nat
  /\ WithinRateCap
  /\ Cardinality(RecentSmall) <= RateCap

IdentityInv ==
  /\ IdentityShape
  /\ \A t \in Changes : Placed(t) /\ CandidateStands(t)
  /\ GovernedHistory /\ VersionsKnown /\ ActivatedIff /\ RateInv

LEMMA InvGoverns == IdentityInv => IdentityGoverned
<1> SUFFICES ASSUME IdentityInv PROVE IdentityGoverned
  OBVIOUS
<1>1. CompletedIffActivated
  <2> SUFFICES ASSUME NEW t \in Changes
               PROVE  /\ change[t] = "COMPLETED" <=> \E i \in 1..Len(activations) : activations[i].task = t
                      /\ change[t] \in {"FAILED", "CANCELLED"} => Settled(t)
    BY DEF CompletedIffActivated, Settled
  <2> QED BY DEF IdentityInv, ActivatedIff, Placed
<1> QED BY <1>1 DEF IdentityInv, IdentityGoverned, RateInv

-----------------------------------------------------------------------------

LEMMA RecentFinite ==
  ASSUME Listed(activations)
  PROVE  IsFiniteSet(RecentSmall) /\ Cardinality(RecentSmall) \in Nat
<1>1. IsFiniteSet(1..Len(activations))
  <2>1. 1 \in Int /\ Len(activations) \in Int
    BY DEF Listed
  <2> QED BY <2>1, FS_Interval, Zenon
<1>2. RecentSmall \subseteq 1..Len(activations)
  BY DEF RecentSmall
<1>3. IsFiniteSet(RecentSmall)
  BY <1>1, <1>2, FS_Subset
<1> QED BY <1>3, FS_CardinalityType

\* The window only slides: nothing enters it but a new activation.
LEMMA RecentShrinks ==
  ASSUME IdentityInv, activations' = activations, today' \in Nat, today' >= today
  PROVE  RateInv'
<1>1. IsFiniteSet(RecentSmall)
  BY RecentFinite DEF IdentityInv, IdentityShape
<1>2. RecentSmall' \subseteq RecentSmall
  BY IdentityAssumption DEF RecentSmall, IdentityInv, IdentityShape, RateInv
<1>3. Cardinality(RecentSmall') <= Cardinality(RecentSmall) /\ Cardinality(RecentSmall') \in Nat /\ Cardinality(RecentSmall) \in Nat
  BY <1>1, <1>2, FS_Subset, FS_CardinalityType
<1>4. Cardinality(RecentSmall)' <= RateCap
  BY <1>3, IdentityAssumption DEF IdentityInv, RateInv
<1> QED BY <1>4 DEF RateInv, IdentityInv, WithinRateCap

\* What a step of one run must show when it makes no version.
LEMMA StepKeeps ==
  ASSUME IdentityInv, NEW t \in Changes,
         versions' = versions, activations' = activations, today' = today,
         IdentityShape',
         \A u \in Changes \ {t} :
            flow'[u] = flow[u] /\ candidates'[u] = candidates[u] /\ change'[u] = change[u],
         Placed(t)', CandidateStands(t)',
         \A u \in Changes : consent[u] = "GRANTED" => consent'[u] = "GRANTED",
         change'[t] = "COMPLETED" <=> change[t] = "COMPLETED"
  PROVE  IdentityInv'
<1>1. \A u \in Changes : Placed(u)' /\ CandidateStands(u)'
  <2> SUFFICES ASSUME NEW u \in Changes \ {t} PROVE Placed(u)' /\ CandidateStands(u)'
    OBVIOUS
  <2>1. Placed(u)'
    BY DEF IdentityInv, Placed, Settled
  <2>2. CandidateStands(u)'
    BY DEF IdentityInv, CandidateStands, HeadVersion
  <2> QED BY <2>1, <2>2
<1>2. VersionsKnown'
  BY DEF IdentityInv, VersionsKnown, HeadVersion
<1>5. GovernedHistory'
  <2> SUFFICES ASSUME NEW v \in 1..HeadVersion PROVE Governed(v)'
    BY DEF GovernedHistory, Governed, HeadVersion
  <2>1. Governed(v) /\ versions[v].task \in Changes \cup {"seed"}
    BY DEF IdentityInv, GovernedHistory, Governed, VersionsKnown
  <2> QED BY <2>1 DEF Governed, HeadVersion
<1>3. ActivatedIff'
  BY DEF IdentityInv, ActivatedIff
<1>4. RateInv'
  BY RecentShrinks DEF IdentityInv, IdentityShape
<1> QED BY <1>1, <1>2, <1>3, <1>4, <1>5 DEF IdentityInv

\* A journal entry, or none.
LEMMA Journaled ==
  ASSUME FlowShape, NEW t \in Changes, NEW e, Shaped(e), Journal(t, e)
  PROVE  /\ FlowShape' /\ flow'[t] \in {flow[t], e}
         /\ \A u \in Changes \ {t} : flow'[u] = flow[u]
  BY DEF FlowShape, Tabulated, Journal

LEMMA Moved ==
  ASSUME FlowShape, NEW t \in Changes
  PROVE  /\ \A p : Shaped(MoveTo(t, p)) /\ MoveTo(t, p).at = p
         /\ \A w : Shaped(Refusal(t, w)) /\ Refusal(t, w).at = "reject"
  BY DEF FlowShape, Shaped, Fields, MoveTo, Refusal

-----------------------------------------------------------------------------
(* The steps of a run, by what they write. *)

\* Steps that only the journal keeps.
LEMMA ReadsKeep ==
  ASSUME IdentityInv, NEW t \in Changes, NEW e, Shaped(e), Reads(t, e),
         \/ flow[t].at \in Early /\ e.at \in Early \cup {"propose"}
         \/ flow[t].at \in Early /\ e.at = "refused"
         \/ flow[t].at \in Within /\ e.at \in Within,
         flow[t].at # "apply"
  PROVE  IdentityInv'
<1>1. FlowShape' /\ flow'[t] \in {flow[t], e} /\ \A u \in Changes \ {t} : flow'[u] = flow[u]
  BY Journaled DEF Reads, IdentityInv, IdentityShape
<1>2. UNCHANGED <<versions, activations, candidates, change, consent, today>>
  BY DEF Reads, rows
<1>3. IdentityShape'
  BY <1>1, <1>2 DEF IdentityInv, IdentityShape, Listed, Tabulated
<1>4. Placed(t)'
  BY <1>1, <1>2 DEF IdentityInv, Placed, Settled, Early, Within, Refusing, Over
<1>5. CandidateStands(t)'
  BY <1>2 DEF IdentityInv, CandidateStands, HeadVersion
<1> QED BY <1>1, <1>2, <1>3, <1>4, <1>5, StepKeeps
LEMMA ReadersKeep ==
  ASSUME IdentityInv, NEW t \in Changes,
         \/ Submit(t) \/ ReadProfile(t) \/ ReadHead(t) \/ Screen(t) \/ EnsureProfile(t)
         \/ EvaluatePolicy(t)
  PROVE  IdentityInv'
<1> USE DEF Early, Within
<1>0. FlowShape /\ flow[t] = [x \in Fields |-> flow[t][x]]
  BY DEF IdentityInv, IdentityShape, FlowShape, Shaped
<1>1. \A p : Shaped(MoveTo(t, p)) /\ MoveTo(t, p).at = p
  BY <1>0, Moved
<1>2. CASE Submit(t)
  <2> DEFINE p == IF Wanted(t).human THEN "profile" ELSE "turnedAway"
  <2> QED BY <1>1, <1>2, ReadsKeep DEF Submit
<1>3. CASE ReadProfile(t)
  <2> DEFINE e == [flow[t] EXCEPT !.profile = profile, !.at = IF profile = None THEN "screen" ELSE "head"]
  <2>1. Shaped(e) /\ e.at \in Early
    BY <1>0 DEF Shaped, Fields
  <2>2. flow[t].at = "profile" /\ Reads(t, e)
    BY <1>3 DEF ReadProfile
  <2> QED BY <2>1, <2>2, ReadsKeep
<1>4. CASE ReadHead(t)
  <2> DEFINE e == [flow[t] EXCEPT !.head = HeadVersion, !.at = "screen"]
  <2>1. Shaped(e) /\ e.at \in Early
    BY <1>0 DEF Shaped, Fields
  <2>2. flow[t].at = "head" /\ Reads(t, e)
    BY <1>4 DEF ReadHead
  <2> QED BY <2>1, <2>2, ReadsKeep
<1>5. CASE Screen(t)
  <2>1. \A d : LET e == [flow[t] EXCEPT !.draft = d, !.at = "create"] IN Shaped(e) /\ e.at = "create"
    BY <1>0 DEF Shaped, Fields
  <2>2. PICK e : Reads(t, e) /\ \/ e = MoveTo(t, "turnedAway")
                                \/ \E d : e = [flow[t] EXCEPT !.draft = d, !.at = "create"]
    BY <1>5 DEF Screen
  <2>3. Shaped(e) /\ e.at \in Early
    BY <1>1, <2>1, <2>2
  <2> QED BY <1>5, <2>2, <2>3, ReadsKeep DEF Screen
<1>6. CASE EnsureProfile(t)
  <2> DEFINE p == IF profile = None THEN "insert"
                  ELSE IF profile.id = Wanted(t).id /\ profile.owner = Wanted(t).actor
                       THEN "propose" ELSE "refused"
  <2>1. Reads(t, MoveTo(t, p)) /\ flow[t].at = "ensure"
    BY <1>6 DEF EnsureProfile
  <2>2. p \in {"insert", "propose", "refused"}
    OBVIOUS
  <2> HIDE DEF p
  <2> QED BY <1>1, <2>1, <2>2, ReadsKeep
<1>7. CASE EvaluatePolicy(t)
  <2> DEFINE e == [flow[t] EXCEPT !.due = today + ApprovalWait, !.at = "record"]
  <2>1. Shaped(e) /\ e.at = "record"
    BY <1>0 DEF Shaped, Fields
  <2>2. flow[t].at = "policy" /\ Reads(t, e)
    BY <1>7 DEF EvaluatePolicy
  <2> QED BY <2>1, <2>2, ReadsKeep
<1> QED BY <1>2, <1>3, <1>4, <1>5, <1>6, <1>7

\* A step of a run that moves it and may write its task, its candidate or its
\* consent.
LEMMA WritesKeep ==
  ASSUME IdentityInv, NEW t \in Changes,
         FlowShape', \A u \in Changes \ {t} : flow'[u] = flow[u],
         UNCHANGED <<versions, activations, today>>,
         NEW c, candidates' = [candidates EXCEPT ![t] = c],
         NEW s, change' = [change EXCEPT ![t] = s],
         NEW a, consent' = [consent EXCEPT ![t] = a],
         consent[t] = "GRANTED" => a = "GRANTED",
         s = "COMPLETED" <=> change[t] = "COMPLETED",
         Placed(t)', CandidateStands(t)'
  PROVE  IdentityInv'
<1>1. IdentityShape'
  BY DEF IdentityInv, IdentityShape, Listed, Tabulated
<1>2. /\ candidates'[t] = c /\ change'[t] = s /\ consent'[t] = a
      /\ \A u \in Changes \ {t} : candidates'[u] = candidates[u] /\ change'[u] = change[u]
                                  /\ consent'[u] = consent[u]
  BY DEF IdentityInv, IdentityShape, Tabulated
<1> QED BY <1>1, <1>2, StepKeeps

\* Nothing but the run's place, its task and its consent changes.
LEMMA CandidateKept ==
  ASSUME IdentityInv, NEW t \in Changes,
         FlowShape', \A u \in Changes \ {t} : flow'[u] = flow[u],
         UNCHANGED <<versions, activations, today, candidates>>,
         NEW s, change' = [change EXCEPT ![t] = s],
         NEW a, consent' = [consent EXCEPT ![t] = a],
         consent[t] = "GRANTED" => a = "GRANTED",
         s = "COMPLETED" <=> change[t] = "COMPLETED",
         Placed(t)'
  PROVE  IdentityInv'
<1>1. candidates' = [candidates EXCEPT ![t] = candidates[t]]
  BY DEF IdentityInv, IdentityShape, Tabulated
<1>2. CandidateStands(t)'
  BY DEF IdentityInv, CandidateStands, HeadVersion
<1> QED BY <1>1, <1>2, WritesKeep

\* A table is not changed by writing what it holds.
LEMMA Same ==
  ASSUME NEW f, Tabulated(f), NEW t \in Changes
  PROVE  f = [f EXCEPT ![t] = f[t]]
  BY DEF Tabulated

LEMMA Tables == ASSUME IdentityInv PROVE Tabulated(candidates) /\ Tabulated(change) /\ Tabulated(consent) /\ FlowShape
  BY DEF IdentityInv, IdentityShape

LEMMA InsertKeeps ==
  ASSUME IdentityInv, NEW t \in Changes, InsertProfile(t)
  PROVE  IdentityInv'
<1>1. /\ FlowShape' /\ \A u \in Changes \ {t} : flow'[u] = flow[u]
      /\ flow'[t] = flow[t] \/ \E p \in {"propose", "ensure", "refused"} : flow'[t] = MoveTo(t, p)
  <2>1. CASE profile = None /\ Wanted(t).actor \in terms.members
    <3>1. \E p \in {"propose", "ensure"} : flow' = [flow EXCEPT ![t] = MoveTo(t, p)]
      BY <2>1 DEF InsertProfile
    <3> QED BY <3>1, Moved, Tables DEF FlowShape, Tabulated
  <2>2. CASE ~(profile = None /\ Wanted(t).actor \in terms.members)
    <3>1. Journal(t, MoveTo(t, "refused"))
      BY <2>2 DEF InsertProfile
    <3> QED BY <3>1, Moved, Tables, Journaled
  <2> QED BY <2>1, <2>2
<1>2. flow[t].at = "insert" /\ UNCHANGED <<versions, activations, candidates, change, consent, today>>
  BY DEF InsertProfile
<1>3. flow'[t].at \in {"insert", "propose", "ensure", "refused"}
  BY <1>1, <1>2, Moved, Tables
<1>4. Placed(t)'
  BY <1>2, <1>3 DEF IdentityInv, Placed, Settled, Early, Within, Refusing
<1> QED BY <1>1, <1>2, <1>4, CandidateKept, Same, Tables

LEMMA RecordKeeps ==
  ASSUME IdentityInv, NEW t \in Changes, RecordPolicy(t)
  PROVE  IdentityInv'
<1>1. PICK e : /\ Journal(t, e)
               /\ \/ \E w : e = Refusal(t, w)
                  \/ \E p \in {"ready", "request"} : e = MoveTo(t, p)
  BY DEF RecordPolicy
<1>2. Shaped(e) /\ e.at \in {"reject", "ready", "request"}
  BY <1>1, Moved, Tables
<1>3. FlowShape' /\ flow'[t] \in {flow[t], e} /\ \A u \in Changes \ {t} : flow'[u] = flow[u]
  BY <1>1, <1>2, Journaled, Tables
<1>4. flow[t].at = "record" /\ UNCHANGED <<versions, activations, candidates, change, today>>
  BY DEF RecordPolicy
<1>5. PICK a : consent' = [consent EXCEPT ![t] = a] /\ (consent[t] = "GRANTED" => a = "GRANTED")
  <2>1. CASE Wanted(t).actor \in terms.members
    BY <2>1 DEF RecordPolicy
  <2>2. CASE Wanted(t).actor \notin terms.members
    BY <2>2, Same, Tables DEF RecordPolicy
  <2> QED BY <2>1, <2>2
<1>6. Placed(t)'
  BY <1>2, <1>3, <1>4 DEF IdentityInv, Placed, Settled, Early, Within, Refusing
<1>7. change' = [change EXCEPT ![t] = change[t]]
  BY <1>4, Same, Tables
<1> QED BY <1>3, <1>4, <1>5, <1>6, <1>7, CandidateKept

LEMMA ResolveKeeps ==
  ASSUME IdentityInv, NEW t \in Changes, ResolveDeadline(t)
  PROVE  IdentityInv'
<1> DEFINE result == IF consent[t] = "PENDING" THEN "EXPIRED" ELSE consent[t]
<1>1. PICK e : Journal(t, e) /\ (e = MoveTo(t, "approve") \/ e = Refusal(t, result))
  BY DEF ResolveDeadline
<1>2. Shaped(e) /\ e.at \in {"reject", "approve"}
  BY <1>1, Moved, Tables
<1>3. FlowShape' /\ flow'[t] \in {flow[t], e} /\ \A u \in Changes \ {t} : flow'[u] = flow[u]
  BY <1>1, <1>2, Journaled, Tables
<1>4. flow[t].at = "await" /\ UNCHANGED <<versions, activations, candidates, change, today>>
  BY DEF ResolveDeadline
<1>5. consent' = [consent EXCEPT ![t] = result] /\ (consent[t] = "GRANTED" => result = "GRANTED")
  BY DEF ResolveDeadline
<1>6. Placed(t)'
  BY <1>2, <1>3, <1>4 DEF IdentityInv, Placed, Settled, Early, Within, Refusing
<1>7. change' = [change EXCEPT ![t] = change[t]]
  BY <1>4, Same, Tables
<1> HIDE DEF result
<1> QED BY <1>3, <1>4, <1>5, <1>6, <1>7, CandidateKept

LEMMA AnswerKeeps ==
  ASSUME IdentityInv, NEW t \in Changes, Answer(t)
  PROVE  IdentityInv'
<1>1. UNCHANGED <<versions, activations, candidates, change, flow, today>> /\ consent[t] = "PENDING"
  BY DEF Answer
<1>2. PICK a : consent' = [consent EXCEPT ![t] = a]
  BY DEF Answer
<1>3. FlowShape' /\ Placed(t)' /\ \A u \in Changes \ {t} : flow'[u] = flow[u]
  BY <1>1, Tables DEF FlowShape, IdentityInv, Placed, Settled
<1>4. change' = [change EXCEPT ![t] = change[t]]
  BY <1>1, Same, Tables
<1> QED BY <1>1, <1>2, <1>3, <1>4, CandidateKept

\* What a ledger write commits, and where it leads.
LEMMA EmitTable ==
  ASSUME NEW at \in DOMAIN Emits
  PROVE  /\ Emits[at].status # "COMPLETED"
         /\ Emits[at].status \in {"FAILED", "CANCELLED"} <=> at \in Refusing
         /\ at = "create" => Emits[at].next = "ensure"
         /\ at \in Refusing => Emits[at].next = "done"
         /\ at \notin Refusing \cup {"create"} => at \in Within /\ Emits[at].next \in Within
  BY DEF Emits, Refusing, Within

LEMMA EmitKeeps ==
  ASSUME IdentityInv, NEW t \in Changes, Emit(t)
  PROVE  IdentityInv'
<1> DEFINE at == flow[t].at
           n == IF at = "create" /\ (flow[t].head > 0 \/ Wanted(t).kind = "ROLLBACK")
                THEN "propose" ELSE Emits[at].next
           s == Emits[at].status
<1>1. /\ at \in DOMAIN Emits /\ Journal(t, MoveTo(t, n)) /\ change' = [change EXCEPT ![t] = s]
      /\ UNCHANGED <<versions, activations, candidates, consent, today>>
  BY DEF Emit
<1>2. /\ s # "COMPLETED"
      /\ s \in {"FAILED", "CANCELLED"} <=> at \in Refusing
      /\ at \in Refusing => n = "done"
      /\ at = "create" => n \in {"propose", "ensure"}
      /\ at \notin Refusing \cup {"create"} => at \in Within /\ n \in Within
  BY <1>1, EmitTable DEF Refusing
<1>3. at \notin {"apply", "done"}
  BY <1>1 DEF Emits
<1> HIDE DEF n, s
<1>4. FlowShape' /\ flow'[t].at \in {at, n} /\ \A u \in Changes \ {t} : flow'[u] = flow[u]
  BY <1>1, Moved, Journaled, Tables
<1>5. change'[t] = s
  BY <1>1, Tables DEF Tabulated
<1>6. change[t] # "COMPLETED"
  BY <1>3 DEF IdentityInv, Placed
<1>7. Placed(t)'
  BY <1>1, <1>2, <1>4, <1>5, <1>6 DEF IdentityInv, Placed, Settled, Early, Within, Refusing
<1>8. consent' = [consent EXCEPT ![t] = consent[t]]
  BY <1>1, Same, Tables
<1> QED BY <1>1, <1>2, <1>4, <1>6, <1>7, <1>8, CandidateKept

\* The database's class of a new candidate is that of its difference from the head.
LEMMA Classifies ==
  ASSUME IdentityInv, NEW t \in Changes, Classified(t) # "none"
  PROVE  LET k == Classified(t) doc == flow[t].draft
         IN  /\ HeadVersion = 0 <=> k = "BOOTSTRAP"
             /\ k \in {"A", "C", "D"} => HeadVersion > 0 /\ k = ClassOf(versions[HeadVersion].doc, doc)
             /\ k = "ROLLBACK" => \E w \in 1..HeadVersion : versions[w].doc = doc
<1>1. HeadVersion \in Nat
  BY DEF IdentityInv, IdentityShape, Listed, HeadVersion
<1>2. \A d, e : ClassOf(d, e) \in {"A", "C", "D", "none"}
  BY DEF ClassOf
<1> QED BY <1>1, <1>2 DEF Classified

LEMMA ProposeKeeps ==
  ASSUME IdentityInv, NEW t \in Changes, Propose(t)
  PROVE  IdentityInv'
<1>1. flow[t].at = "propose" /\ UNCHANGED <<versions, activations, change, consent, today>>
  BY DEF Propose
<1>2. /\ change' = [change EXCEPT ![t] = change[t]]
      /\ consent' = [consent EXCEPT ![t] = consent[t]]
      /\ Tabulated(candidates)
  BY <1>1, Same, Tables
<1>3. CASE candidates[t] # None \/ Classified(t) = "none"
  <2>1. /\ UNCHANGED candidates
        /\ Journal(t, MoveTo(t, IF candidates[t] # None THEN "compile" ELSE "refused"))
    BY <1>3 DEF Propose
  <2>2. /\ FlowShape' /\ \A u \in Changes \ {t} : flow'[u] = flow[u]
        /\ flow'[t].at \in {"propose", IF candidates[t] # None THEN "compile" ELSE "refused"}
    BY <1>1, <2>1, Moved, Journaled, Tables
  <2>3. Placed(t)'
    BY <1>1, <2>1, <2>2 DEF IdentityInv, Placed, Settled, Early, Within, Refusing
  <2> QED BY <1>1, <1>2, <2>1, <2>2, <2>3, CandidateKept
<1>4. CASE candidates[t] = None /\ Classified(t) # "none"
  <2> DEFINE c == [id |-> t, doc |-> flow[t].draft, class |-> Classified(t), base |-> HeadVersion,
                   state |-> "HELD"]
  <2>1. candidates' = [candidates EXCEPT ![t] = c] /\ Journal(t, MoveTo(t, "compile"))
    BY <1>4 DEF Propose
  <2>2. /\ FlowShape' /\ \A u \in Changes \ {t} : flow'[u] = flow[u]
        /\ flow'[t].at \in {"propose", "compile"}
    BY <1>1, <2>1, Moved, Journaled, Tables
  <2>3. candidates'[t] = c /\ c # None
    BY <1>2, <2>1, IdentityAssumption DEF Tabulated, None
  <2>4. Placed(t)'
    BY <1>1, <2>2, <2>3 DEF IdentityInv, Placed, Settled, Early, Within, Refusing
  <2>5. CandidateStands(t)'
    <3>1. HeadVersion \in Nat /\ HeadVersion' = HeadVersion /\ versions' = versions
      BY <1>1 DEF IdentityInv, IdentityShape, Listed, HeadVersion
    <3> QED BY <1>4, <2>3, <3>1, Classifies DEF CandidateStands
  <2> QED BY <1>1, <1>2, <2>1, <2>2, <2>4, <2>5, WritesKeep
<1> QED BY <1>3, <1>4

\* A candidate that is rejected or approved is the same candidate.
LEMMA StateMoved ==
  ASSUME IdentityInv, NEW t \in Changes, candidates[t] # None, NEW s,
         UNCHANGED versions, candidates' = [candidates EXCEPT ![t].state = s]
  PROVE  /\ CandidateStands(t)' /\ candidates'[t] # None /\ candidates'[t].state = s
         /\ candidates' = [candidates EXCEPT ![t] = [candidates[t] EXCEPT !.state = s]]
<1> DEFINE c == candidates[t]
           d == [id |-> t, doc |-> c.doc, class |-> c.class, base |-> c.base, state |-> s]
<1>1. c = [id |-> t, doc |-> c.doc, class |-> c.class, base |-> c.base, state |-> c.state]
  BY DEF IdentityInv, CandidateStands
<1>2. [c EXCEPT !.state = s] = d
  BY <1>1
<1>3. candidates' = [candidates EXCEPT ![t] = [c EXCEPT !.state = s]] /\ candidates'[t] = d
  BY <1>2, Tables DEF Tabulated
<1>4. d # None
  BY IdentityAssumption DEF None
<1>5. HeadVersion' = HeadVersion
  BY DEF HeadVersion
<1>6. CandidateStands(t)'
  <2>1. /\ d = [id |-> t, doc |-> d.doc, class |-> d.class, base |-> d.base, state |-> d.state]
        /\ d.doc = c.doc /\ d.class = c.class /\ d.base = c.base
    OBVIOUS
  <2>2. /\ c.base \in 0..HeadVersion
        /\ c.base = 0 <=> c.class = "BOOTSTRAP"
        /\ c.class \in {"A", "C", "D"} => c.base > 0 /\ c.class = ClassOf(versions[c.base].doc, c.doc)
        /\ c.class = "ROLLBACK" => \E w \in 1..c.base : versions[w].doc = c.doc
    BY DEF IdentityInv, CandidateStands
  <2> HIDE DEF c, d
  <2>3. /\ d.base \in 0..HeadVersion'
        /\ d.base = 0 <=> d.class = "BOOTSTRAP"
        /\ d.class \in {"A", "C", "D"} => d.base > 0 /\ d.class = ClassOf(versions'[d.base].doc, d.doc)
        /\ d.class = "ROLLBACK" => \E w \in 1..d.base : versions'[w].doc = d.doc
    BY <1>5, <2>1, <2>2
  <2>4. candidates'[t] = d
    BY <1>3
  <2> QED BY <2>1, <2>3, <2>4 DEF CandidateStands
<1> QED BY <1>3, <1>4, <1>6

LEMMA SettleKeeps ==
  ASSUME IdentityInv, NEW t \in Changes, RejectIfHeld(t) \/ ApproveCandidate(t)
  PROVE  IdentityInv'
<1>1. flow[t].at \in {"reject", "approve"} /\ UNCHANGED <<versions, activations, change, consent, today>>
  BY DEF RejectIfHeld, ApproveCandidate
<1>2. candidates[t] # None
  BY <1>1 DEF IdentityInv, Placed, Within
<1> DEFINE was == candidates[t].state
           s == IF was # "HELD" THEN was ELSE IF flow[t].at = "reject" THEN "REJECTED" ELSE "APPROVED"
<1>3. candidates' = [candidates EXCEPT ![t].state = s] /\ s # "HELD"
  BY DEF RejectIfHeld, ApproveCandidate
<1> HIDE DEF s
<1>4. /\ CandidateStands(t)' /\ candidates'[t] # None /\ candidates'[t].state = s
      /\ candidates' = [candidates EXCEPT ![t] = [candidates[t] EXCEPT !.state = s]]
  BY <1>1, <1>2, <1>3, StateMoved
<1>5. PICK p : Journal(t, MoveTo(t, p)) /\ ((p \in Refusing /\ RejectIfHeld(t)) \/ p = "ready")
  BY DEF RejectIfHeld, ApproveCandidate, Ending, Refusing
<1>6. FlowShape' /\ flow'[t].at \in {flow[t].at, p} /\ \A u \in Changes \ {t} : flow'[u] = flow[u]
  BY <1>5, Moved, Journaled, Tables
<1>7. Placed(t)'
  BY <1>1, <1>3, <1>4, <1>5, <1>6 DEF IdentityInv, Placed, Settled, Early, Within, Refusing
<1>8. /\ change' = [change EXCEPT ![t] = change[t]]
      /\ consent' = [consent EXCEPT ![t] = consent[t]]
  BY <1>1, Same, Tables
<1> QED BY <1>1, <1>4, <1>6, <1>7, <1>8, WritesKeep

-----------------------------------------------------------------------------
(* Completion, version and activation. *)

NewVersion(t) == [doc |-> candidates[t].doc, class |-> candidates[t].class, task |-> t,
                  base |-> candidates[t].base]
NewActivation(t) == [version |-> NextVersion, class |-> candidates[t].class, task |-> t, at |-> today]

\* The transaction that commits all three.
Activates(t) ==
  /\ flow[t].at = "apply" /\ change[t] # "COMPLETED"
  /\ VersionGuard(t) /\ ActivationGuard(t)
  /\ change' = [change EXCEPT ![t] = "COMPLETED"]
  /\ versions' = Append(versions, NewVersion(t))
  /\ activations' = Append(activations, NewActivation(t))
  /\ Journal(t, MoveTo(t, "done"))
  /\ UNCHANGED <<terms, profile, frozen, candidates, ruling, consent, today>>

LEMMA ActivatesRows ==
  ASSUME IdentityInv, NEW t \in Changes, Activates(t)
  PROVE  /\ Listed(versions') /\ Listed(activations')
         /\ Len(versions) \in Nat /\ Len(activations) \in Nat
         /\ Len(versions') = Len(versions) + 1 /\ Len(activations') = Len(activations) + 1
         /\ \A v \in 1..Len(versions) : versions'[v] = versions[v]
         /\ \A i \in 1..Len(activations) : activations'[i] = activations[i]
         /\ versions'[Len(versions) + 1] = NewVersion(t)
         /\ activations'[Len(activations) + 1] = NewActivation(t)
<1>1. Listed(versions) /\ Listed(activations)
  BY DEF IdentityInv, IdentityShape
<1>2. versions' = Append(versions, NewVersion(t)) /\ activations' = Append(activations, NewActivation(t))
  BY DEF Activates
<1>3. Len(versions) \in Nat /\ Len(activations) \in Nat
  BY <1>1 DEF Listed
<1> QED BY <1>1, <1>2, <1>3, AppendListed

\* The activation counts against the cap only if it is small, and then there
\* was room.
LEMMA ActivatesRate ==
  ASSUME IdentityInv, NEW t \in Changes, Activates(t)
  PROVE  RateInv'
<1> DEFINE n == Len(activations)
           a == NewActivation(t)
<1>0. /\ n \in Nat /\ Len(activations') = n + 1 /\ activations'[n + 1] = a
      /\ \A i \in 1..n : activations'[i] = activations[i]
  BY ActivatesRows
<1>1. a.at = today /\ a.class = candidates[t].class /\ today' = today /\ today \in Nat
  BY DEF NewActivation, Activates, IdentityInv, IdentityShape
<1> HIDE DEF a, n
<1>2. \A i \in 1..(n + 1) : activations'[i].at \in Nat
  BY <1>0, <1>1 DEF IdentityInv, RateInv, n
<1>3. IsFiniteSet(RecentSmall) /\ Cardinality(RecentSmall) \in Nat
  BY RecentFinite DEF IdentityInv, IdentityShape
<1>4. Cardinality(RecentSmall) <= RateCap
  BY DEF IdentityInv, RateInv
<1>5. Cardinality(RecentSmall)' <= RateCap
  <2>1. CASE a.class \in {"C", "D"}
    <3>1. Cardinality(RecentSmall) < RateCap
      BY <1>1, <2>1 DEF Activates, ActivationGuard
    <3>2. RecentSmall' \subseteq RecentSmall \cup {n + 1}
      BY <1>0, <1>1 DEF RecentSmall, n
    <3>3. /\ IsFiniteSet(RecentSmall \cup {n + 1})
          /\ \/ Cardinality(RecentSmall \cup {n + 1}) = Cardinality(RecentSmall) + 1
             \/ Cardinality(RecentSmall \cup {n + 1}) = Cardinality(RecentSmall)
      BY <1>3, FS_AddElement
    <3>4. /\ Cardinality(RecentSmall') <= Cardinality(RecentSmall \cup {n + 1})
          /\ Cardinality(RecentSmall') \in Nat
      BY <3>2, <3>3, FS_Subset, FS_CardinalityType
    <3> QED BY <1>3, <3>1, <3>3, <3>4, IdentityAssumption
  <2>2. CASE a.class \notin {"C", "D"}
    <3>1. RecentSmall' \subseteq RecentSmall
      BY <1>0, <1>1, <2>2 DEF RecentSmall, n
    <3>2. Cardinality(RecentSmall') <= Cardinality(RecentSmall) /\ Cardinality(RecentSmall') \in Nat
      BY <1>3, <3>1, FS_Subset, FS_CardinalityType
    <3> QED BY <1>3, <1>4, <3>2, IdentityAssumption
  <2> QED BY <2>1, <2>2
<1>6. WithinRateCap'
  <2> SUFFICES ASSUME NEW i \in 1..(n + 1)
               PROVE  Cardinality({j \in 1..i : activations'[j].class \in {"C", "D"}
                         /\ activations'[j].at + RateWindow > activations'[i].at}) <= RateCap
    BY <1>0 DEF WithinRateCap
  <2>1. CASE i = n + 1
    <3>1. {j \in 1..i : activations'[j].class \in {"C", "D"}
             /\ activations'[j].at + RateWindow > activations'[i].at} = RecentSmall'
      BY <1>0, <1>1, <2>1 DEF RecentSmall
    <3> QED BY <1>5, <3>1
  <2>2. CASE i \in 1..n
    <3>1. {j \in 1..i : activations'[j].class \in {"C", "D"}
             /\ activations'[j].at + RateWindow > activations'[i].at}
          = {j \in 1..i : activations[j].class \in {"C", "D"}
             /\ activations[j].at + RateWindow > activations[i].at}
      BY <1>0, <2>2
    <3> QED BY <2>2, <3>1 DEF IdentityInv, RateInv, WithinRateCap, n
  <2> QED BY <1>0, <2>1, <2>2
<1> QED BY <1>0, <1>2, <1>5, <1>6 DEF RateInv

LEMMA ActivatesKeeps ==
  ASSUME IdentityInv, NEW t \in Changes, Activates(t)
  PROVE  IdentityInv'
<1> DEFINE n == Len(versions)
           c == candidates[t]
           e == NewVersion(t)
<1>0. /\ Listed(versions') /\ Listed(activations') /\ n \in Nat /\ Len(versions') = n + 1
      /\ \A v \in 1..n : versions'[v] = versions[v]
      /\ versions'[n + 1] = e
  BY ActivatesRows
<1>1. /\ FlowShape' /\ \A u \in Changes \ {t} : flow'[u] = flow[u]
      /\ flow'[t].at \in {"apply", "done"}
  BY Moved, Journaled, Tables DEF Activates
<1>2. /\ UNCHANGED <<candidates, consent, today>> /\ change'[t] = "COMPLETED"
      /\ \A u \in Changes \ {t} : change'[u] = change[u]
      /\ change' = [change EXCEPT ![t] = "COMPLETED"]
  BY Tables DEF Activates, Tabulated
<1>3. IdentityShape'
  BY <1>0, <1>1, <1>2, Tables DEF IdentityInv, IdentityShape, Tabulated
<1>4. c # None /\ c.base = n
  BY DEF Activates, IdentityInv, Placed, Within, VersionGuard, HeadVersion
<1>5. e.doc = c.doc /\ e.class = c.class /\ e.task = t
  BY DEF NewVersion
<1>6. \A u \in Changes : Placed(u)'
  <2>1. ASSUME NEW u \in Changes, u # t PROVE Placed(u)'
    BY <1>1, <1>2, <2>1 DEF IdentityInv, Placed, Settled
  <2>2. Placed(t)'
    BY <1>1, <1>2, <1>4 DEF Placed, Early, Within, Refusing
  <2> QED BY <2>1, <2>2
<1>7. \A u \in Changes : CandidateStands(u)'
  <2> SUFFICES ASSUME NEW u \in Changes PROVE CandidateStands(u)'
    OBVIOUS
  <2>1. CandidateStands(u)
    BY DEF IdentityInv
  <2> QED BY <1>0, <1>2, <2>1 DEF CandidateStands, HeadVersion
<1>8. VersionsKnown'
  BY <1>0, <1>5 DEF IdentityInv, VersionsKnown, HeadVersion
<1>9. GovernedHistory'
  <2> SUFFICES ASSUME NEW v \in 1..(n + 1) PROVE Governed(v)'
    BY <1>0 DEF GovernedHistory, Governed, HeadVersion
  <2>1. CASE v \in 1..n
    <3>1. Governed(v)
      BY <2>1 DEF IdentityInv, GovernedHistory, Governed, HeadVersion
    <3> QED BY <1>0, <1>2, <2>1, <3>1 DEF Governed
  <2>2. CASE v = n + 1
    <3>1. c.class \in HumanClasses => consent'[t] = "GRANTED"
      BY <1>2 DEF Activates, ActivationGuard
    <3>2. /\ n = 0 <=> c.class = "BOOTSTRAP"
          /\ c.class \in {"A", "C", "D"} => n > 0 /\ c.class = ClassOf(versions[n].doc, c.doc)
          /\ c.class = "ROLLBACK" => \E w \in 1..n : versions[w].doc = c.doc
      BY <1>4 DEF IdentityInv, CandidateStands
    <3> HIDE DEF c, e, n
    <3> QED BY <1>0, <1>5, <2>2, <3>1, <3>2 DEF Governed
  <2> QED BY <1>0, <2>1, <2>2
<1>10. ActivatedIff'
  <2>1. /\ Len(activations) \in Nat /\ Len(activations') = Len(activations) + 1
        /\ \A i \in 1..Len(activations) : activations'[i] = activations[i]
        /\ activations'[Len(activations) + 1] = NewActivation(t)
    BY ActivatesRows
  <2>2. NewActivation(t).task = t
    BY DEF NewActivation
  <2> QED BY <1>2, <2>1, <2>2 DEF IdentityInv, ActivatedIff
<1> QED BY <1>3, <1>6, <1>7, <1>8, <1>9, <1>10, ActivatesRate DEF IdentityInv

LEMMA ApplyKeeps ==
  ASSUME IdentityInv, NEW t \in Changes, Apply(t)
  PROVE  IdentityInv'
<1>1. CASE change[t] # "COMPLETED" /\ VersionGuard(t) /\ ActivationGuard(t)
  <2>1. Activates(t)
    BY <1>1 DEF Apply, Activates, NewVersion, NewActivation
  <2> QED BY <2>1, ActivatesKeeps
<1>2. CASE change[t] = "COMPLETED" \/ ~(VersionGuard(t) /\ ActivationGuard(t))
  <2>1. flow[t].at = "apply" /\ UNCHANGED <<versions, activations, change, candidates, consent, today>>
    BY <1>2 DEF Apply
  <2>2. PICK e : /\ Journal(t, e)
                 /\ IF change[t] = "COMPLETED" THEN e = MoveTo(t, "done") ELSE e = Refusal(t, "apply")
    BY <1>2 DEF Apply
  <2>3. Shaped(e) /\ e.at = IF change[t] = "COMPLETED" THEN "done" ELSE "reject"
    BY <2>2, Moved, Tables
  <2>4. FlowShape' /\ flow'[t] \in {flow[t], e} /\ \A u \in Changes \ {t} : flow'[u] = flow[u]
    BY <2>2, <2>3, Journaled, Tables
  <2>5. Placed(t)'
    BY <2>1, <2>3, <2>4 DEF IdentityInv, Placed, Settled, Early, Within, Refusing
  <2> QED BY <2>1, <2>4, <2>5, CandidateKept, Same, Tables
<1> QED BY <1>1, <1>2

-----------------------------------------------------------------------------
(* Time, the freeze, and the whole. *)

LEMMA RowsKept ==
  ASSUME IdentityInv, UNCHANGED <<versions, activations, candidates, change, consent, flow>>,
         today' \in Nat, today' >= today
  PROVE  IdentityInv'
<1>1. IdentityShape'
  BY DEF IdentityInv, IdentityShape, Listed, Tabulated, FlowShape
<1>2. \A t \in Changes : Placed(t)' /\ CandidateStands(t)'
  BY DEF IdentityInv, Placed, Settled, CandidateStands, HeadVersion
<1>3. GovernedHistory' /\ VersionsKnown' /\ ActivatedIff'
  <2>1. VersionsKnown' /\ ActivatedIff'
    BY DEF IdentityInv, VersionsKnown, ActivatedIff, HeadVersion
  <2>2. GovernedHistory'
    BY DEF IdentityInv, GovernedHistory, HeadVersion
  <2> QED BY <2>1, <2>2
<1>4. RateInv'
  BY RecentShrinks
<1> QED BY <1>1, <1>2, <1>3, <1>4 DEF IdentityInv

LEMMA OthersKeep ==
  ASSUME IdentityInv, SetFreeze \/ Tick \/ UNCHANGED identityVars
  PROVE  IdentityInv'
<1>1. /\ UNCHANGED <<versions, activations, candidates, change, consent, flow>>
      /\ today' \in Nat /\ today' >= today
  BY DEF IdentityInv, IdentityShape, SetFreeze, Tick, identityVars, rows
<1> QED BY <1>1, RowsKept

LEMMA InvInit == IdentityInit => IdentityInv
<1> SUFFICES ASSUME IdentityInit PROVE IdentityInv
  OBVIOUS
<1> DEFINE n == Len(terms.seed)
<1>0. n \in Nat /\ "seed" \notin Changes
  BY IdentityAssumption DEF IdentityInit
<1> HIDE DEF n
<1>1. versions = [v \in 1..n |->
         [doc |-> terms.seed[v], class |-> IF v = 1 THEN "BOOTSTRAP" ELSE "A", task |-> "seed", base |-> v - 1]]
  BY DEF IdentityInit, n
<1>2. activations = [v \in 1..n |->
         [version |-> v, class |-> IF v = 1 THEN "BOOTSTRAP" ELSE "A", task |-> "seed", at |-> 0]]
  BY DEF IdentityInit, n
<1>3. Listed(versions) /\ HeadVersion = n
  <2>1. versions = [v \in 1..n |-> versions[v]]
    BY <1>1
  <2> QED BY <1>0, <2>1, MadeListed DEF HeadVersion
<1>4. Listed(activations) /\ Len(activations) = n
  <2>1. activations = [v \in 1..n |-> activations[v]]
    BY <1>2
  <2> QED BY <1>0, <2>1, MadeListed
<1>5. \A v \in 1..n : /\ versions[v].class = (IF v = 1 THEN "BOOTSTRAP" ELSE "A")
                      /\ versions[v].task = "seed"
  BY <1>1
<1>6. \A v \in 1..n : /\ activations[v].class \in {"BOOTSTRAP", "A"}
                      /\ activations[v].task = "seed" /\ activations[v].at = 0
  BY <1>2
<1>7. IdentityShape
  <2>1. Tabulated(candidates) /\ Tabulated(change) /\ Tabulated(consent) /\ Tabulated(flow) /\ today \in Nat
    BY DEF IdentityInit, Tabulated
  <2>2. \A t \in Changes : Shaped(flow[t])
    BY DEF IdentityInit, Shaped, Fields
  <2> QED BY <1>3, <1>4, <2>1, <2>2 DEF IdentityShape, FlowShape
<1>8. \A t \in Changes : Placed(t) /\ CandidateStands(t)
  <2>1. \A t \in Changes : candidates[t] = None /\ change[t] = "none" /\ flow[t].at = "run"
    BY DEF IdentityInit
  <2> QED BY <2>1 DEF Placed, Settled, CandidateStands, Early, Within, Refusing
<1>9. VersionsKnown /\ ActivatedIff
  <2>1. VersionsKnown
    BY <1>3, <1>5 DEF VersionsKnown
  <2>2. \A t \in Changes : change[t] = "none"
    BY DEF IdentityInit
  <2>3. ActivatedIff
    BY <1>0, <1>4, <1>6, <2>2 DEF ActivatedIff
  <2> QED BY <2>1, <2>3
<1>10. GovernedHistory
  BY <1>0, <1>3, <1>5 DEF GovernedHistory, HumanClasses
<1>11. RateInv
  <2>1. RecentSmall = {}
    BY <1>4, <1>6 DEF RecentSmall
  <2>2. \A i \in 1..n : {j \in 1..i : activations[j].class \in {"C", "D"}
                           /\ activations[j].at + RateWindow > activations[i].at} = {}
    BY <1>0, <1>6
  <2>3. Cardinality({}) = 0
    BY FS_EmptySet, Zenon
  <2>4. WithinRateCap
    <3> SUFFICES ASSUME NEW i \in 1..n
                 PROVE  Cardinality({j \in 1..i : activations[j].class \in {"C", "D"}
                           /\ activations[j].at + RateWindow > activations[i].at}) <= RateCap
      BY <1>4 DEF WithinRateCap
    <3>1. {j \in 1..i : activations[j].class \in {"C", "D"}
             /\ activations[j].at + RateWindow > activations[i].at} = {}
      BY <2>2
    <3>2. 0 <= RateCap
      BY IdentityAssumption
    <3> QED BY <2>3, <3>1, <3>2
  <2> QED BY <1>4, <1>6, <2>1, <2>3, <2>4, IdentityAssumption DEF RateInv
<1> QED BY <1>7, <1>8, <1>9, <1>10, <1>11 DEF IdentityInv

LEMMA InvStep == IdentityInv /\ [IdentityNext]_identityVars => IdentityInv'
<1> SUFFICES ASSUME IdentityInv, [IdentityNext]_identityVars PROVE IdentityInv'
  OBVIOUS
<1>1. CASE \E t \in Changes : Submit(t) \/ Workflow(t) \/ Answer(t)
  <2> PICK t \in Changes : Submit(t) \/ Workflow(t) \/ Answer(t)
    BY <1>1
  <2> QED BY ReadersKeep, InsertKeeps, ProposeKeeps, RecordKeeps, SettleKeeps, ResolveKeeps,
             ApplyKeeps, EmitKeeps, AnswerKeeps DEF Workflow
<1>2. CASE SetFreeze \/ Tick \/ UNCHANGED identityVars
  BY <1>2, OthersKeep
<1> QED BY <1>1, <1>2 DEF IdentityNext

\* For every set of changes and every plan of them, with any number of lost
\* journal entries: the identity's whole history is governed.  Every version is
\* of the class of its difference from its predecessor and has that class's
\* authority, a task is COMPLETED exactly when its version was activated, and no
\* window has more small changes than the cap.
THEOREM IdentityIsGoverned == IdentitySpec => []IdentityGoverned
<1>1. IdentityInit => IdentityInv
  BY InvInit
<1>2. IdentityInv /\ [IdentityNext]_identityVars => IdentityInv'
  BY InvStep
<1>3. IdentityInv => IdentityGoverned
  BY InvGoverns
<1> QED BY <1>1, <1>2, <1>3, PTL DEF IdentitySpec

-----------------------------------------------------------------------------
(* The types of the rows.  The versions and the activations are one to one. *)

Statuses == {"none", "RECEIVED", "COMPILED", "APPROVAL_REQUIRED", "READY", "RUNNING", "VERIFYING"} \cup Over
Rulings == {"none", "ALLOW", "DENY", "APPROVAL_REQUIRED"}
Consents == {"none", "PENDING", "GRANTED", "DENIED", "CANCELLED", "EXPIRED"}

\* Every version has its class and base, and an activation of its own.
HistoryTyped ==
  /\ Len(versions) = Len(activations)
  /\ \A v \in 1..HeadVersion : versions[v].class \in Classes /\ versions[v].base \in Nat
  /\ \A i \in 1..Len(activations) : activations[i].version \in 1..HeadVersion

CandidatesTyped == \A t \in Changes : candidates[t] = None \/ candidates[t].class \in Classes

TablesTyped ==
  change \in [Changes -> Statuses] /\ ruling \in [Changes -> Rulings] /\ consent \in [Changes -> Consents]

IdentityTypeInv ==
  /\ terms \in IdentityPlans /\ HistoryTyped /\ CandidatesTyped /\ TablesTyped
  /\ frozen \in BOOLEAN /\ today \in Nat /\ lost \in 0..MaxLost

LEMMA InvTyped == IdentityTypeInv => IdentityTypeOK
BY DEF IdentityTypeInv, IdentityTypeOK, HistoryTyped, CandidatesTyped, TablesTyped, Statuses, Rulings, Consents

\* A document's difference is of a class, or there is none.
LEMMA ClassesAre ==
  ASSUME NEW t, Classified(t) # "none"
  PROVE  Classified(t) \in Classes
BY DEF Classified, ClassOf, Classes

LEMMA Lost ==
  ASSUME lost \in 0..MaxLost, NEW t, NEW e, Journal(t, e)
  PROVE  lost' \in 0..MaxLost
BY IdentityAssumption DEF Journal

LEMMA HistoryKeeps ==
  ASSUME IdentityInv, HistoryTyped, CandidatesTyped, NEW t \in Changes, Apply(t)
  PROVE  HistoryTyped'
<1>1. CASE UNCHANGED <<versions, activations>>
  BY <1>1 DEF HistoryTyped, HeadVersion
<1>2. CASE Activates(t)
  <2> DEFINE n == Len(versions)
             c == candidates[t]
  <2>1. /\ n \in Nat /\ Len(activations) = n
        /\ Len(versions') = n + 1 /\ Len(activations') = n + 1
        /\ \A v \in 1..n : versions'[v] = versions[v] /\ activations'[v] = activations[v]
        /\ versions'[n + 1] = NewVersion(t)
        /\ activations'[n + 1] = NewActivation(t)
    BY <1>2, ActivatesRows DEF HistoryTyped
  <2>2. c # None /\ c.base = n
    BY <1>2 DEF Activates, IdentityInv, Placed, Within, VersionGuard, HeadVersion
  <2>3. c.class \in Classes
    BY <2>2 DEF CandidatesTyped
  <2>4. NewVersion(t).class \in Classes /\ NewVersion(t).base = n /\ NewActivation(t).version = n + 1
    BY <2>2, <2>3 DEF NewVersion, NewActivation, NextVersion, HeadVersion
  <2>5. \A v \in 1..n : /\ versions[v].class \in Classes /\ versions[v].base \in Nat
                        /\ activations[v].version \in 1..n
    BY <2>1 DEF HistoryTyped, HeadVersion
  <2> HIDE DEF n, c
  <2>6. \A v \in 1..(n + 1) : /\ versions'[v].class \in Classes /\ versions'[v].base \in Nat
                              /\ activations'[v].version \in 1..(n + 1)
    BY <2>1, <2>4, <2>5
  <2> QED BY <2>1, <2>6 DEF HistoryTyped, HeadVersion
<1>3. Activates(t) \/ UNCHANGED <<versions, activations>>
  BY DEF Apply, Activates, NewVersion, NewActivation
<1> QED BY <1>1, <1>2, <1>3

\* One entry of a table.
LEMMA EntryTyped ==
  ASSUME NEW S, NEW f \in [Changes -> S], NEW t \in Changes, NEW x \in S
  PROVE  [f EXCEPT ![t] = x] \in [Changes -> S]
OBVIOUS

LEMMA CandidateWritten ==
  ASSUME IdentityInv, CandidatesTyped, NEW t \in Changes,
         Propose(t) \/ RejectIfHeld(t) \/ ApproveCandidate(t)
  PROVE  CandidatesTyped'
<1>0. Tabulated(candidates)
  BY Tables
<1>1. ASSUME NEW c, candidates' = [candidates EXCEPT ![t] = c], c.class \in Classes
      PROVE  CandidatesTyped'
  BY <1>0, <1>1 DEF CandidatesTyped, Tabulated
<1>2. CASE UNCHANGED candidates
  BY <1>2 DEF CandidatesTyped
<1>3. CASE Propose(t) /\ candidates' # candidates
  <2>1. PICK d : candidates' = [candidates EXCEPT ![t] =
                   [id |-> t, doc |-> d, class |-> Classified(t), base |-> HeadVersion, state |-> "HELD"]]
                 /\ Classified(t) # "none"
    BY <1>3 DEF Propose
  <2> DEFINE c == [id |-> t, doc |-> d, class |-> Classified(t), base |-> HeadVersion, state |-> "HELD"]
  <2>2. c.class \in Classes
    BY <2>1, ClassesAre
  <2> HIDE DEF c
  <2> QED BY <1>1, <2>1, <2>2 DEF c
<1>4. CASE RejectIfHeld(t) \/ ApproveCandidate(t)
  <2>1. PICK s : candidates' = [candidates EXCEPT ![t].state = s]
    BY <1>4 DEF RejectIfHeld, ApproveCandidate
  <2>2. candidates[t] # None /\ CandidateStands(t)
    BY <1>4 DEF RejectIfHeld, ApproveCandidate, IdentityInv, Placed, Within
  <2>3. candidates[t].class \in Classes
    BY <2>2 DEF CandidatesTyped
  <2>4. [candidates[t] EXCEPT !.state = s].class = candidates[t].class
    BY <2>2 DEF CandidateStands
  <2>5. candidates' = [candidates EXCEPT ![t] = [candidates[t] EXCEPT !.state = s]]
    BY <2>1
  <2> QED BY <1>1, <2>3, <2>4, <2>5
<1> QED BY <1>2, <1>3, <1>4

LEMMA StatusWritten ==
  ASSUME TablesTyped, NEW t \in Changes, Emit(t) \/ Apply(t)
  PROVE  TablesTyped'
<1>1. UNCHANGED <<ruling, consent>>
  BY DEF Emit, Apply
<1>2. change' \in [Changes -> Statuses]
  <2>1. ASSUME NEW s \in Statuses, change' = [change EXCEPT ![t] = s] PROVE change' \in [Changes -> Statuses]
    BY <2>1, EntryTyped DEF TablesTyped
  <2>2. CASE Emit(t)
    <3>1. \A x \in DOMAIN Emits : Emits[x].status \in Statuses
      BY DEF Emits, Statuses, Over
    <3>2. PICK x \in DOMAIN Emits : change' = [change EXCEPT ![t] = Emits[x].status]
      BY <2>2, Zenon DEF Emit
    <3> QED BY <2>1, <3>1, <3>2
  <2>3. CASE Apply(t)
    <3>1. change' = change \/ change' = [change EXCEPT ![t] = "COMPLETED"]
      BY <2>3 DEF Apply
    <3>2. "COMPLETED" \in Statuses
      BY DEF Statuses, Over
    <3> QED BY <2>1, <3>1, <3>2 DEF TablesTyped
  <2> QED BY <2>2, <2>3
<1> QED BY <1>1, <1>2 DEF TablesTyped

\* The policy's decision is of the candidate's class, which it has by then.
LEMMA RulingWritten ==
  ASSUME IdentityInv, TablesTyped, CandidatesTyped, terms \in IdentityPlans, NEW t \in Changes, RecordPolicy(t)
  PROVE  TablesTyped'
<1>1. candidates[t].class \in Classes
  BY DEF RecordPolicy, IdentityInv, Placed, Within, CandidatesTyped
<1>2. PICK d : d = terms.rules[candidates[t].class]
  OBVIOUS
<1>3. d \in Rulings
  BY <1>1, <1>2, PlansRuled DEF Rulings
<1>4. /\ change' = change
      /\ ruling' = ruling \/ ruling' = [ruling EXCEPT ![t] = d]
      /\ consent' = consent \/ consent' = [consent EXCEPT ![t] = "PENDING"]
         \/ consent' = [consent EXCEPT ![t] = consent[t]]
  BY <1>2 DEF RecordPolicy
<1>5. consent[t] \in Consents /\ "PENDING" \in Consents
  BY DEF TablesTyped, Consents
<1> QED BY <1>3, <1>4, <1>5, EntryTyped DEF TablesTyped

LEMMA ConsentWritten ==
  ASSUME TablesTyped, NEW t \in Changes, Answer(t) \/ ResolveDeadline(t)
  PROVE  TablesTyped'
<1>1. UNCHANGED <<change, ruling>>
  BY DEF Answer, ResolveDeadline
<1>2. consent[t] \in Consents /\ \A x \in {"EXPIRED", "GRANTED", "DENIED", "CANCELLED"} : x \in Consents
  BY DEF TablesTyped, Consents
<1>3. \E x \in Consents : consent' = [consent EXCEPT ![t] = x]
  BY <1>2 DEF Answer, ResolveDeadline
<1> QED BY <1>1, <1>3, EntryTyped DEF TablesTyped

\* A step of one task, by what it writes.
LEMMA TaskTyped ==
  ASSUME IdentityInv, IdentityTypeInv, NEW t \in Changes, Submit(t) \/ Workflow(t) \/ Answer(t)
  PROVE  IdentityTypeInv'
<1>0. /\ terms \in IdentityPlans /\ HistoryTyped /\ CandidatesTyped /\ TablesTyped
      /\ frozen \in BOOLEAN /\ today \in Nat /\ lost \in 0..MaxLost
  BY DEF IdentityTypeInv
<1>1. UNCHANGED <<terms, frozen, today>>
  <2>1. Submit(t) \/ ReadProfile(t) \/ ReadHead(t) \/ Screen(t) \/ EnsureProfile(t) \/ EvaluatePolicy(t)
        => UNCHANGED <<terms, frozen, today>>
    BY DEF Submit, ReadProfile, ReadHead, Screen, EnsureProfile, EvaluatePolicy, Reads
  <2>2. InsertProfile(t) \/ Propose(t) \/ RecordPolicy(t) \/ RejectIfHeld(t) \/ ResolveDeadline(t)
        => UNCHANGED <<terms, frozen, today>>
    BY DEF InsertProfile, Propose, RecordPolicy, RejectIfHeld, ResolveDeadline
  <2>3. ApproveCandidate(t) \/ Apply(t) \/ Emit(t) \/ Answer(t) => UNCHANGED <<terms, frozen, today>>
    BY DEF ApproveCandidate, Apply, Emit, Answer
  <2> QED BY <2>1, <2>2, <2>3 DEF Workflow
<1>2. lost' \in 0..MaxLost
  <2>1. CASE InsertProfile(t) \/ Answer(t)
    BY <1>0, <2>1, Lost, IdentityAssumption DEF InsertProfile, Answer
  <2>2. Submit(t) \/ ReadProfile(t) \/ ReadHead(t) \/ Screen(t) \/ EnsureProfile(t) \/ EvaluatePolicy(t)
        => \E e : Journal(t, e)
    BY DEF Submit, ReadProfile, ReadHead, Screen, EnsureProfile, EvaluatePolicy, Reads
  <2>3. Propose(t) \/ RecordPolicy(t) \/ RejectIfHeld(t) \/ ResolveDeadline(t) => \E e : Journal(t, e)
    BY DEF Propose, RecordPolicy, RejectIfHeld, ResolveDeadline
  <2>4. ApproveCandidate(t) \/ Apply(t) \/ Emit(t) => \E e : Journal(t, e)
    BY DEF ApproveCandidate, Apply, Emit
  <2> QED BY <1>0, <2>1, <2>2, <2>3, <2>4, Lost DEF Workflow
<1>3. HistoryTyped'
  <2>1. CASE Apply(t)
    BY <1>0, <2>1, HistoryKeeps
  <2>2. CASE UNCHANGED <<versions, activations>>
    BY <1>0, <2>2 DEF HistoryTyped, HeadVersion
  <2>3. Submit(t) \/ ReadProfile(t) \/ ReadHead(t) \/ Screen(t) \/ EnsureProfile(t) \/ EvaluatePolicy(t)
        => UNCHANGED <<versions, activations>>
    BY DEF Submit, ReadProfile, ReadHead, Screen, EnsureProfile, EvaluatePolicy, Reads, rows
  <2>4. InsertProfile(t) \/ Propose(t) \/ RecordPolicy(t) \/ RejectIfHeld(t) \/ ResolveDeadline(t)
        => UNCHANGED <<versions, activations>>
    BY DEF InsertProfile, Propose, RecordPolicy, RejectIfHeld, ResolveDeadline
  <2>5. ApproveCandidate(t) \/ Emit(t) \/ Answer(t) => UNCHANGED <<versions, activations>>
    BY DEF ApproveCandidate, Emit, Answer
  <2> QED BY <2>1, <2>2, <2>3, <2>4, <2>5 DEF Workflow
<1>4. CandidatesTyped'
  <2>1. CASE Propose(t) \/ RejectIfHeld(t) \/ ApproveCandidate(t)
    BY <1>0, <2>1, CandidateWritten
  <2>2. CASE UNCHANGED candidates
    BY <1>0, <2>2 DEF CandidatesTyped
  <2>3. Submit(t) \/ ReadProfile(t) \/ ReadHead(t) \/ Screen(t) \/ EnsureProfile(t) \/ EvaluatePolicy(t)
        => UNCHANGED candidates
    BY DEF Submit, ReadProfile, ReadHead, Screen, EnsureProfile, EvaluatePolicy, Reads, rows
  <2>4. InsertProfile(t) \/ RecordPolicy(t) \/ ResolveDeadline(t) \/ Apply(t) \/ Emit(t) \/ Answer(t)
        => UNCHANGED candidates
    BY DEF InsertProfile, RecordPolicy, ResolveDeadline, Apply, Emit, Answer
  <2> QED BY <2>1, <2>2, <2>3, <2>4 DEF Workflow
<1>5. TablesTyped'
  <2>1. CASE Emit(t) \/ Apply(t) \/ RecordPolicy(t) \/ Answer(t) \/ ResolveDeadline(t)
    BY <1>0, <2>1, StatusWritten, RulingWritten, ConsentWritten
  <2>2. CASE UNCHANGED <<change, ruling, consent>>
    BY <1>0, <2>2 DEF TablesTyped
  <2>3. Submit(t) \/ ReadProfile(t) \/ ReadHead(t) \/ Screen(t) \/ EnsureProfile(t) \/ EvaluatePolicy(t)
        => UNCHANGED <<change, ruling, consent>>
    BY DEF Submit, ReadProfile, ReadHead, Screen, EnsureProfile, EvaluatePolicy, Reads, rows
  <2>4. InsertProfile(t) \/ Propose(t) \/ RejectIfHeld(t) \/ ApproveCandidate(t)
        => UNCHANGED <<change, ruling, consent>>
    BY DEF InsertProfile, Propose, RejectIfHeld, ApproveCandidate
  <2> QED BY <2>1, <2>2, <2>3, <2>4 DEF Workflow
<1> QED BY <1>0, <1>1, <1>2, <1>3, <1>4, <1>5 DEF IdentityTypeInv

\* Nothing but the journal's losses and the clock moves.
LEMMA RowsTyped ==
  ASSUME IdentityTypeInv, UNCHANGED <<terms, rows>>, frozen' \in BOOLEAN, today' \in Nat, lost' \in 0..MaxLost
  PROVE  IdentityTypeInv'
<1>1. UNCHANGED <<terms, versions, activations, candidates, change, ruling, consent>>
  BY DEF rows
<1>2. HistoryTyped'
  BY <1>1 DEF IdentityTypeInv, HistoryTyped, HeadVersion
<1>3. CandidatesTyped' /\ TablesTyped'
  BY <1>1 DEF IdentityTypeInv, CandidatesTyped, TablesTyped
<1> QED BY <1>1, <1>2, <1>3 DEF IdentityTypeInv

LEMMA TypedStep ==
  ASSUME IdentityInv, IdentityTypeInv, [IdentityNext]_identityVars
  PROVE  IdentityTypeInv'
<1>0. frozen \in BOOLEAN /\ today \in Nat /\ lost \in 0..MaxLost
  BY DEF IdentityTypeInv
<1>1. CASE \E t \in Changes : Submit(t) \/ Workflow(t) \/ Answer(t)
  BY <1>1, TaskTyped
<1>2. CASE SetFreeze \/ Tick \/ UNCHANGED identityVars
  <2>1. frozen' \in BOOLEAN
    BY <1>0, <1>2, Zenon DEF SetFreeze, Tick, identityVars
  <2>2. UNCHANGED <<terms, rows, lost>> /\ today' \in Nat
    BY <1>0, <1>2 DEF SetFreeze, Tick, identityVars, rows
  <2> QED BY <1>0, <2>1, <2>2, RowsTyped
<1> QED BY <1>1, <1>2 DEF IdentityNext

LEMMA TypedInit == IdentityInit => IdentityTypeInv
<1> SUFFICES ASSUME IdentityInit PROVE IdentityTypeInv
  OBVIOUS
<1> DEFINE n == Len(terms.seed)
<1>0. n \in Nat /\ terms \in IdentityPlans
  BY IdentityAssumption DEF IdentityInit
<1> HIDE DEF n
<1>1. versions = [v \in 1..n |->
         [doc |-> terms.seed[v], class |-> IF v = 1 THEN "BOOTSTRAP" ELSE "A", task |-> "seed", base |-> v - 1]]
  BY DEF IdentityInit, n
<1>2. activations = [v \in 1..n |->
         [version |-> v, class |-> IF v = 1 THEN "BOOTSTRAP" ELSE "A", task |-> "seed", at |-> 0]]
  BY DEF IdentityInit, n
<1>3. HistoryTyped
  <2>1. versions = [v \in 1..n |-> versions[v]] /\ activations = [v \in 1..n |-> activations[v]]
    BY <1>1, <1>2
  <2>2. Len(versions) = n /\ Len(activations) = n
    BY <1>0, <2>1, MadeListed
  <2>3. \A v \in 1..n : /\ versions[v].class \in {"BOOTSTRAP", "A"} /\ versions[v].base = v - 1
                        /\ activations[v].version = v
    BY <1>1, <1>2
  <2> QED BY <1>0, <2>2, <2>3 DEF HistoryTyped, HeadVersion, Classes
<1>4. CandidatesTyped /\ TablesTyped
  BY DEF IdentityInit, CandidatesTyped, TablesTyped, Statuses, Rulings, Consents
<1>5. frozen \in BOOLEAN
  BY <1>0, PlansRuled, Zenon DEF IdentityInit
<1>6. today \in Nat /\ lost \in 0..MaxLost
  BY IdentityAssumption DEF IdentityInit
<1> QED BY <1>0, <1>3, <1>4, <1>5, <1>6 DEF IdentityTypeInv
=============================================================================
