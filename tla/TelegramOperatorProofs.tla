----------------------- MODULE TelegramOperatorProofs -----------------------
(***************************************************************************)
(* What the operator is told is what the ledger holds, and no update is    *)
(* lost or left half done, for every script of updates, every set of other *)
(* clients, and any number of dead pollers, doors and workers.  The poll   *)
(* reads the ledger at one moment and tells the operator at a later one,   *)
(* so the argument rests on what cannot change between the two: a decision *)
(* once made, an admission once committed, and, for a card closed as       *)
(* expired on a ledger that still says PENDING, the database's clock, when *)
(* the worker's is not ahead of it.                                        *)
(***************************************************************************)
EXTENDS TelegramOperator, WellFoundedInduction, TLAPS

-----------------------------------------------------------------------------
(* The inductive invariant, by parts. *)

PollFields == {"at", "now", "round", "batch", "last", "pressed", "closing", "request", "answer", "disposition"}
Polled(p) == p = [x \in PollFields |-> p[x]]

\* The steps of a poll that work on one update.
Deciding == {"asked", "reread", "reply", "complete"}

PollShape ==
  /\ Polled(poll)
  /\ \A u \in poll.batch : u \in 1..Len(updates)
  /\ poll.last \in 0..Len(updates)
  /\ poll.now \in 0..WorkerClock
  /\ poll.at \in Deciding => poll.batch # {}
  /\ poll.at \notin Deciding => poll.disposition = ""

RowFields == {"state", "at", "disposition", "mission", "replied"}
PressFields == {"state", "disposition", "pressed"}

ChannelShape ==
  /\ plan \in Plans /\ time \in Nat
  /\ updates \in Seq(Update) /\ Len(updates) <= Len(plan.script)
  /\ \E S : messages \in Seq(S)
  /\ inbox = [u \in UpdateIds |-> inbox[u]]
  /\ presses = [u \in UpdateIds |-> presses[u]]
  /\ \A u \in UpdateIds : /\ inbox[u] = [x \in RowFields |-> inbox[u][x]]
                         /\ presses[u] = [x \in PressFields |-> presses[u][x]]

\* A text in the chat that is, and stays, true of the ledger.
Holds(text) ==
  /\ text \in Decisions => approval.status = text
  /\ text = "EXPIRED" /\ plan.worker <= plan.db =>
       /\ approval.status # "GRANTED"
       /\ approval.status = "PENDING" => DbClock >= ApprovalTtl

\* What a press was told that is, and stays, true of the ledger.
Told(disposition, pressed) ==
  /\ disposition = "RESOLVED" => approval.status = pressed /\ approval.status # "PENDING"
  /\ disposition = "EXPIRED" => Holds("EXPIRED")

\* What the poll is about to say, and what it said.
TruthInv ==
  /\ poll.at = "close" => Holds(poll.closing)
  /\ Told(poll.disposition, updates[Current].decision)
  /\ \A u \in UpdateIds : Told(presses[u].disposition, presses[u].pressed)
  /\ \A m \in DOMAIN messages : Holds(messages[m])

Done(u) ==
  /\ updates[u].kind \in CommandKinds => inbox[u].state = "DONE"
  /\ updates[u].kind \in {"PRESS", "STRANGE PRESS"} => presses[u].state = "DONE"

\* Everything below the offset is done, and everything of the fetched batch
\* that is no longer in it.
OffsetInv ==
  /\ offset \in Nat \ {0} /\ offset <= Len(updates) + 1
  /\ \A u \in UpdateIds : u < offset \/ (u <= poll.last /\ u \notin poll.batch) => Done(u)

RequestFields == {"id", "who", "op", "key", "body", "waited", "at", "answer"}
Admitted(who, key) == \E a \in admissions : a.who = who /\ a.key = key

\* A request in flight: its id, and what its stage says of the admissions.
Flown(r) ==
  /\ r = [x \in RequestFields |-> r[x]]
  /\ r.id \in Nat /\ r.id <= issued
  /\ r.at = "sent" => r.op # "SUBMIT"
  /\ r.op = "SUBMIT" /\ (r.at = "admitted" \/ r.answer = "202") => Admitted(r.who, r.key)

\* The request the poll waits for is about the update at hand.
Presses == {"PRESS", "STRANGE PRESS"}
Asked(r, u, kind) ==
  \/ r.op = "APPROVE" /\ kind \in Presses
  \/ r.op = "SUBMIT" /\ r.who = "operator" /\ r.key = u /\ kind \in CommandKinds

AdmittedInv ==
  /\ issued \in Nat
  /\ \A r \in flight : Flown(r)
  /\ poll.at = "asked" =>
       /\ poll.request \in Nat /\ poll.request <= issued
       /\ \A r \in flight : r.id = poll.request => Asked(r, Current, updates[Current].kind)
  /\ poll.disposition = "ADMITTED" => Admitted("operator", Current)
  /\ \A u \in UpdateIds : inbox[u].mission => Admitted("operator", u)

OperatorInv == PollShape /\ ChannelShape /\ TruthInv /\ OffsetInv /\ AdmittedInv

\* What a conjunct of the property is of the invariant.
LEMMA InvTells == OperatorInv => OperatorToldTruth /\ OffsetCoversHandled
<1> SUFFICES ASSUME OperatorInv PROVE OperatorToldTruth /\ OffsetCoversHandled
  OBVIOUS
<1>1. OperatorToldTruth
  BY DEF OperatorInv, TruthInv, OperatorToldTruth, Told, Holds
<1>2. OffsetCoversHandled
  <2> SUFFICES ASSUME NEW u \in UpdateIds
               PROVE  (u < offset => Done(u)) /\ (inbox[u].mission => Admitted("operator", u))
    BY DEF OffsetCoversHandled, Done, Admitted
  <2> QED BY DEF OperatorInv, OffsetInv, AdmittedInv
<1> QED BY <1>1, <1>2

-----------------------------------------------------------------------------
(* The update at hand, and the sequences. *)

LEMMA LeastExists ==
  ASSUME NEW S \in SUBSET Nat, S # {}
  PROVE  Min(S) \in S
<1> DEFINE R == OpToRel(<, Nat)
<1>0. \A y \in S : y \in Nat
  OBVIOUS
<1>1. IsWellFoundedOn(R, Nat)
  BY NatLessThanWellFounded
<1>2. \A x, y \in Nat : y < x => <<y, x>> \in R
  BY DEF OpToRel, R
<1> HIDE DEF R
<1>3. PICK x \in S : \A y \in S : ~ (<<y, x>> \in R)
  BY <1>1, WFMin
<1>4. \A y \in S : ~(y < x)
  BY <1>0, <1>2, <1>3, Zenon
<1>5. \A y \in S : x =< y
  BY <1>0, <1>4
<1> QED BY <1>5 DEF Min

LEMMA CurrentIsOne ==
  ASSUME PollShape, ChannelShape, poll.batch # {}
  PROVE  Current \in poll.batch /\ Current \in 1..Len(updates) /\ Current \in UpdateIds
<1>1. Len(updates) \in Nat /\ Len(plan.script) \in Nat /\ Len(updates) <= Len(plan.script)
  BY OperatorConstants DEF ChannelShape
<1>2. \A u \in poll.batch : u \in 1..Len(updates)
  BY Zenon DEF PollShape, WorkerClock
<1>3. Current \in poll.batch
  <2>1. poll.batch \in SUBSET Nat
    BY <1>1, <1>2
  <2> QED BY <2>1, LeastExists DEF Current
<1>4. Current \in 1..Len(updates)
  BY <1>2, <1>3, Zenon
<1> QED BY <1>1, <1>3, <1>4 DEF UpdateIds

LEMMA Sizes ==
  ASSUME OperatorInv
  PROVE  /\ time \in Nat /\ WorkerClock \in Nat /\ DbClock \in Nat
         /\ updates \in Seq(Update) /\ Len(updates) \in Nat
         /\ Len(plan.script) \in Nat /\ Len(updates) <= Len(plan.script)
         /\ \A u \in poll.batch : u \in 1..Len(updates)
         /\ poll.last \in 0..Len(updates) /\ poll.now \in 0..WorkerClock
<1>1. time \in Nat /\ updates \in Seq(Update) /\ Len(updates) <= Len(plan.script) /\ plan \in Plans
  BY Zenon DEF OperatorInv, ChannelShape
<1>2. Len(updates) \in Nat /\ Len(plan.script) \in Nat
  BY <1>1, OperatorConstants
<1>4. WorkerClock \in Nat /\ DbClock \in Nat
  BY <1>1, DoorConstants DEF WorkerClock, DbClock
<1>3. /\ \A u \in poll.batch : u \in 1..Len(updates)
      /\ poll.last \in 0..Len(updates) /\ poll.now \in 0..WorkerClock
  BY Zenon DEF OperatorInv, PollShape, WorkerClock
<1> QED BY <1>1, <1>2, <1>3, <1>4, Zenon

LEMMA Bounds == \A n \in Nat : 0 \in 0..n /\ n \in 0..n /\ \A u \in 1..n : ~(u <= 0)
OBVIOUS

LEMMA ElementOf == \A S : \A s \in Seq(S) : \A i \in 1..Len(s) : s[i] \in S
OBVIOUS

LEMMA AppendHas ==
  ASSUME NEW S, NEW s \in Seq(S), NEW e
  PROVE  /\ Append(s, e) \in Seq(S \cup {e}) /\ Len(Append(s, e)) = Len(s) + 1
         /\ DOMAIN Append(s, e) = 1..(Len(s) + 1) /\ DOMAIN s = 1..Len(s)
         /\ \A i \in 1..Len(s) : Append(s, e)[i] = s[i]
         /\ Append(s, e)[Len(s) + 1] = e
<1>1. s \in Seq(S \cup {e}) /\ Len(s) \in Nat
  OBVIOUS
<1> QED BY <1>1

-----------------------------------------------------------------------------
(* The door, the worker and the clock move under the poll. *)

\* A decision is made once, and not for the better once its time is over.
DecisionKept ==
  \/ approval' = approval
  \/ approval.status = "PENDING" /\ (DbClock >= ApprovalTtl => approval'.status = "EXPIRED")

LEMMA LedgerMoves ==
  ASSUME OperatorInv, UNCHANGED channelVars, plan' = plan,
         time' \in Nat, time' >= time, DecisionKept
  PROVE  PollShape' /\ ChannelShape' /\ TruthInv' /\ OffsetInv'
<1>1. UNCHANGED <<updates, messages, offset, inbox, presses, poll, plan>>
  BY DEF channelVars
<1>2. PollShape'
  <2>1. poll.now \in 0..WorkerClock'
    BY <1>1, Sizes, DoorConstants DEF OperatorInv, ChannelShape, WorkerClock
  <2> QED BY <1>1, <2>1 DEF OperatorInv, PollShape, WorkerClock, Polled
<1>3. ChannelShape'
  BY <1>1 DEF OperatorInv, ChannelShape, UpdateIds
<1>4. OffsetInv'
  BY <1>1 DEF OperatorInv, OffsetInv, UpdateIds, Done
<1>5. \A text : Holds(text) => Holds(text)'
  <2> SUFFICES ASSUME NEW text, Holds(text) PROVE Holds(text)'
    OBVIOUS
  <2>1. CASE approval' = approval
    BY <2>1, DoorConstants DEF Holds, DbClock, OperatorInv, ChannelShape
  <2>2. CASE approval.status = "PENDING" /\ (DbClock >= ApprovalTtl => approval'.status = "EXPIRED")
    BY <2>2 DEF Holds, Decisions
  <2> QED BY <2>1, <2>2 DEF DecisionKept
<1>6. \A d, p : Told(d, p) => Told(d, p)'
  BY <1>5 DEF Told, DecisionKept
<1>7. TruthInv'
  BY <1>1, <1>5, <1>6 DEF OperatorInv, TruthInv, Current, UpdateIds
<1> QED BY <1>2, <1>3, <1>4, <1>7

\* Requests move on, new ones join, and admissions are added.
LEMMA FlightMoves ==
  ASSUME OperatorInv, UNCHANGED channelVars, plan' = plan,
         issued' \in Nat, issued' >= issued,
         admissions \subseteq admissions',
         \A r \in flight' :
           /\ Flown(r)'
           /\ \/ r.id > issued
              \/ \E q \in flight : r.id = q.id /\ r.op = q.op /\ r.who = q.who /\ r.key = q.key
  PROVE  AdmittedInv'
<1>1. UNCHANGED <<inbox, poll, plan, updates>>
  BY DEF channelVars
<1>2. \A w, k : Admitted(w, k) => Admitted(w, k)'
  BY DEF Admitted
<1>3. poll.at = "asked" =>
       /\ poll'.request \in Nat /\ poll'.request <= issued'
       /\ \A r \in flight' : r.id = poll'.request => Asked(r, Current', updates'[Current'].kind)
  <2> SUFFICES ASSUME poll.at = "asked"
               PROVE  /\ poll'.request \in Nat /\ poll'.request <= issued'
                      /\ \A r \in flight' : r.id = poll'.request => Asked(r, Current', updates'[Current'].kind)
    OBVIOUS
  <2>1. Current' = Current /\ poll.request \in Nat /\ poll.request <= issued /\ issued \in Nat
    BY <1>1 DEF OperatorInv, AdmittedInv, Current
  <2>2. \A q \in flight : q.id = poll.request => Asked(q, Current, updates[Current].kind)
    BY DEF OperatorInv, AdmittedInv
  <2>3. \A r \in flight' : r.id = poll.request => Asked(r, Current, updates[Current].kind)
    <3> SUFFICES ASSUME NEW r \in flight', r.id = poll.request
                 PROVE  Asked(r, Current, updates[Current].kind)
      OBVIOUS
    <3>1. ~(r.id > issued)
      BY <2>1
    <3>2. PICK q \in flight : r.id = q.id /\ r.op = q.op /\ r.who = q.who /\ r.key = q.key
      BY <3>1
    <3> QED BY <2>2, <3>2 DEF Asked
  <2> QED BY <1>1, <2>1, <2>3
<1> QED BY <1>1, <1>2, <1>3 DEF OperatorInv, AdmittedInv, Current, UpdateIds

LEMMA OneMoves ==
  ASSUME OperatorInv, UNCHANGED channelVars, plan' = plan, issued' = issued,
         admissions \subseteq admissions',
         NEW r \in flight, NEW e, flight' \subseteq flight \cup {e},
         e = [x \in RequestFields |-> e[x]], e.id = r.id, e.op = r.op, e.who = r.who, e.key = r.key,
         e.at = "sent" => r.op # "SUBMIT",
         r.op = "SUBMIT" /\ (e.at = "admitted" \/ e.answer = "202") => Admitted(r.who, r.key)'
  PROVE  AdmittedInv'
<1>1. issued \in Nat /\ \A q \in flight : Flown(q)
  BY DEF OperatorInv, AdmittedInv
<1>2. \A w, k : Admitted(w, k) => Admitted(w, k)'
  BY DEF Admitted
<1>3. \A q \in flight : Flown(q)'
  BY <1>1, <1>2 DEF Flown
<1>4. Flown(e)'
  BY <1>1 DEF Flown
<1> QED BY <1>1, <1>3, <1>4, FlightMoves

LEMMA DoorLeaves ==
  ASSUME NEW r \in flight,
         DoorAdmit(r) \/ DoorDispatch(r) \/ DoorControl(r) \/ DoorRelay(r) \/ DoorTimeout(r) \/ DoorDies(r)
  PROVE  /\ UNCHANGED <<plan, issued, approval, time>>
         /\ admissions' = admissions \/ DoorAdmit(r)
BY DEF DoorAdmit, DoorDispatch, DoorControl, DoorRelay, DoorTimeout, DoorDies, controlVars, admissionVars

LEMMA RequestMoves ==
  ASSUME OperatorInv, UNCHANGED channelVars, NEW r \in flight,
         DoorAdmit(r) \/ DoorDispatch(r) \/ DoorControl(r) \/ DoorRelay(r) \/ DoorTimeout(r) \/ DoorDies(r)
  PROVE  AdmittedInv'
<1>0. UNCHANGED <<plan, issued>> /\ Flown(r)
  BY DoorLeaves DEF OperatorInv, AdmittedInv
<1>1. r = [x \in RequestFields |-> r[x]]
  BY <1>0 DEF Flown
<1>2. ASSUME NEW code, flight' = Answered(r, code), admissions' = admissions,
             code = "202" => r.at = "admitted" \/ r.op # "SUBMIT"
      PROVE  AdmittedInv'
  <2> DEFINE e == [r EXCEPT !.at = "answered", !.answer = code]
  <2>1. flight' \subseteq flight \cup {e}
    BY <1>2 DEF Answered
  <2>2. /\ e = [x \in RequestFields |-> e[x]] /\ e.at = "answered" /\ e.answer = code
        /\ e.id = r.id /\ e.op = r.op /\ e.who = r.who /\ e.key = r.key
    BY <1>1 DEF RequestFields
  <2> HIDE DEF e
  <2>3. r.op = "SUBMIT" /\ code = "202" => Admitted(r.who, r.key)'
    BY <1>0, <1>2 DEF Flown, Admitted
  <2> QED BY <1>0, <1>2, <2>1, <2>2, <2>3, OneMoves
<1>3. ASSUME NEW a, flight' = Moved(r, a), admissions \subseteq admissions', r.answer # "202" \/ r.op # "SUBMIT" \/ Admitted(r.who, r.key),
             a = "sent" => r.op # "SUBMIT", r.op = "SUBMIT" /\ a = "admitted" => Admitted(r.who, r.key)'
      PROVE  AdmittedInv'
  <2> DEFINE e == [r EXCEPT !.at = a]
  <2>1. flight' \subseteq flight \cup {e}
    BY <1>3 DEF Moved
  <2>2. /\ e = [x \in RequestFields |-> e[x]] /\ e.at = a /\ e.answer = r.answer
        /\ e.id = r.id /\ e.op = r.op /\ e.who = r.who /\ e.key = r.key
    BY <1>1 DEF RequestFields
  <2> HIDE DEF e
  <2>3. r.op = "SUBMIT" /\ r.answer = "202" => Admitted(r.who, r.key)'
    BY <1>3 DEF Admitted
  <2> QED BY <1>0, <1>3, <2>1, <2>2, <2>3, OneMoves
<1>4. r.answer # "202" \/ r.op # "SUBMIT" \/ Admitted(r.who, r.key)
  BY <1>0 DEF Flown
<1>5. CASE DoorAdmit(r)
  <2>1. CASE admissions' = admissions /\ (flight' = Answered(r, "403") \/ flight' = Answered(r, "409"))
    BY <1>2, <2>1
  <2>2. CASE /\ admissions' = admissions \cup {[who |-> r.who, key |-> r.key, body |-> r.body]}
             /\ flight' = Moved(r, "admitted")
    <3> DEFINE a == [who |-> r.who, key |-> r.key, body |-> r.body]
    <3>0. a \in admissions' /\ a.who = r.who /\ a.key = r.key
      BY <2>2
    <3> HIDE DEF a
    <3>1. Admitted(r.who, r.key)'
      BY <3>0 DEF Admitted
    <3> QED BY <1>3, <1>4, <2>2, <3>1
  <2> QED BY <1>5, <2>1, <2>2 DEF DoorAdmit
<1>6. CASE DoorDispatch(r)
  BY <1>2, <1>6 DEF DoorDispatch
<1>7. CASE DoorControl(r)
  <2>1. r.op # "SUBMIT" /\ admissions' = admissions
    BY <1>7 DEF DoorControl, admissionVars
  <2>2. flight' = Moved(r, "sent") \/ \E code : flight' = Answered(r, code)
    BY <1>7 DEF DoorControl
  <2> QED BY <1>2, <1>3, <1>4, <2>1, <2>2
<1>8. CASE DoorRelay(r)
  <2>1. r.op # "SUBMIT" /\ admissions' = admissions
    BY <1>0, <1>8 DEF DoorRelay, admissionVars, Flown
  <2>2. \E code : flight' = Answered(r, code)
    BY <1>8 DEF DoorRelay
  <2> QED BY <1>2, <2>1, <2>2
<1>9. CASE DoorTimeout(r) \/ DoorDies(r)
  <2>1. admissions' = admissions /\ (flight' = Answered(r, "503") \/ flight' = Answered(r, "lost"))
    BY <1>9 DEF DoorTimeout, DoorDies, admissionVars
  <2> QED BY <1>2, <2>1
<1> QED BY <1>5, <1>6, <1>7, <1>8, <1>9

LEMMA ClientJoins ==
  ASSUME OperatorInv, UNCHANGED channelVars, NEW c \in others, OtherClient(c)
  PROVE  AdmittedInv' /\ UNCHANGED <<plan, approval, time>>
<1> DEFINE n == NewRequest(c)
<1>1. PICK e : /\ e = [n EXCEPT !.waited = FALSE]
               /\ UNCHANGED <<plan, approval, time, admissions>> /\ issued' = issued + 1
               /\ flight' = flight \cup {e}
  BY DEF OtherClient, controlVars, admissionVars
<1>2. issued \in Nat /\ \A q \in flight : Flown(q)
  BY DEF OperatorInv, AdmittedInv
<1>3. n = [x \in RequestFields |-> n[x]] /\ n.id = issued + 1 /\ n.at = "received" /\ n.answer = ""
  BY DEF NewRequest, RequestFields
<1> HIDE DEF n
<1>4. e = [x \in RequestFields |-> e[x]] /\ e.at = "received" /\ e.answer = "" /\ e.id = issued + 1
  BY <1>1, <1>3 DEF RequestFields
<1>5. Flown(e)' /\ e.id > issued
  <2>1. issued' = issued + 1 /\ issued \in Nat /\ e.id = issued + 1
    BY <1>1, <1>2, <1>4, Zenon
  <2>2. e.id \in Nat /\ e.id <= issued' /\ e.id > issued
    BY <2>1
  <2>3. e.at # "sent" /\ e.at # "admitted" /\ e.answer # "202"
    BY <1>4
  <2> QED BY <1>4, <2>2, <2>3, Zenon DEF Flown
<1>6. \A q \in flight : Flown(q)'
  <2> SUFFICES ASSUME NEW q \in flight PROVE Flown(q)'
    OBVIOUS
  <2>1. Flown(q) /\ (Admitted(q.who, q.key) => Admitted(q.who, q.key)')
    BY <1>1, <1>2 DEF Admitted
  <2> QED BY <1>1, <1>2, <2>1 DEF Flown
<1>7. issued' \in Nat /\ issued' >= issued /\ admissions \subseteq admissions' /\ plan' = plan
  BY <1>1, <1>2
<1>8. \A r \in flight' : /\ Flown(r)'
                        /\ \/ r.id > issued
                           \/ \E q \in flight : r.id = q.id /\ r.op = q.op /\ r.who = q.who /\ r.key = q.key
  BY <1>1, <1>5, <1>6
<1> QED BY <1>1, <1>7, <1>8, FlightMoves

LEMMA WorkerDecides ==
  ASSUME WorkerStep
  PROVE  /\ UNCHANGED <<plan, flight, issued, admissions, time>>
         /\ DecisionKept
<1>1. ASSUME NEW a, approval' = Finished(a) PROVE DecisionKept
  <2>1. CASE approval.status # "PENDING"
    BY <1>1, <2>1 DEF Finished, DecisionKept
  <2>2. CASE approval.status = "PENDING"
    BY <1>1, <2>2 DEF Finished, DecisionKept
  <2> QED BY <2>1, <2>2
<1>2. ASSUME NEW i \in invocations, WorkerAuthenticate(i) \/ WorkerNotify(i) \/ WorkerRetries(i)
      PROVE  UNCHANGED <<plan, flight, issued, admissions, time, approval>>
  BY <1>2 DEF WorkerAuthenticate, WorkerNotify, WorkerRetries, admissionVars
<1>3. ASSUME NEW i \in invocations, WorkerResolve(i)
      PROVE  /\ UNCHANGED <<plan, flight, issued, admissions, time>>
             /\ approval' = approval \/ \E a : approval' = Finished(a)
  BY <1>3 DEF WorkerResolve, admissionVars
<1>4. AwaitApproval => UNCHANGED <<plan, flight, issued, admissions, time, approval>>
  BY DEF AwaitApproval, admissionVars
<1>5. LeaveApproval => UNCHANGED <<plan, flight, issued, admissions, time>> /\ \E a : approval' = Finished(a)
  BY DEF LeaveApproval, admissionVars
<1> QED BY <1>1, <1>2, <1>3, <1>4, <1>5 DEF WorkerStep, DecisionKept

LEMMA OthersKeep ==
  ASSUME OperatorInv, UNCHANGED channelVars, DoorStep \/ WorkerStep \/ Elapse
  PROVE  OperatorInv'
<1>0. time \in Nat /\ issued \in Nat /\ \A q \in flight : Flown(q)
  BY DEF OperatorInv, ChannelShape, AdmittedInv
<1>1. CASE \E r \in flight : DoorAdmit(r) \/ DoorDispatch(r) \/ DoorControl(r) \/ DoorRelay(r)
                                 \/ DoorTimeout(r) \/ DoorDies(r)
  <2>1. UNCHANGED <<plan, approval, time>>
    BY <1>1, DoorLeaves
  <2>2. AdmittedInv'
    BY <1>1, RequestMoves
  <2> QED BY <1>0, <2>1, <2>2, LedgerMoves DEF OperatorInv, DecisionKept
<1>2. CASE \E c \in others : OtherClient(c)
  BY <1>0, <1>2, ClientJoins, LedgerMoves DEF OperatorInv, DecisionKept
<1>3. CASE WorkerStep \/ Elapse
  <2>1. /\ UNCHANGED <<plan, flight, issued, admissions>> /\ DecisionKept
        /\ time' \in Nat /\ time' >= time
    BY <1>0, <1>3, WorkerDecides DEF Elapse, admissionVars, controlVars, DecisionKept
  <2>2. \A q \in flight : Flown(q)'
    BY <1>0, <2>1 DEF Flown, Admitted
  <2>3. AdmittedInv'
    BY <1>0, <2>1, <2>2, FlightMoves
  <2> QED BY <2>1, <2>3, LedgerMoves DEF OperatorInv
<1> QED BY <1>1, <1>2, <1>3 DEF DoorStep

-----------------------------------------------------------------------------
(* The poll serves the cards. *)

\* A step of the poll outside the handling of an update: it may go to rest,
\* and it may post or close a card.
LEMMA ServiceKeeps ==
  ASSUME OperatorInv, poll.at \notin Deciding,
         UNCHANGED <<plan, flight, issued, admissions, approval, time, updates, offset, inbox, presses>>,
         Polled(poll'), poll'.at \notin Deciding, poll'.disposition = "",
         (poll'.batch = poll.batch /\ poll'.last = poll.last) \/ (poll'.batch = {} /\ poll'.last = 0),
         poll'.now \in {poll.now, WorkerClock, 0},
         poll'.at = "close" => Holds(poll'.closing),
         \E S : messages' \in Seq(S),
         \A m \in DOMAIN messages' : Holds(messages'[m])
  PROVE  OperatorInv'
<1>0. WorkerClock \in Nat /\ Len(updates) \in Nat /\ Len(plan.script) \in Nat
  BY Sizes, Zenon
<1>1. PollShape'
  <2>0. /\ \A u \in poll.batch : u \in 1..Len(updates)
        /\ poll.last \in 0..Len(updates) /\ poll.now \in 0..WorkerClock
    BY Sizes, Zenon
  <2>1. \A u \in poll'.batch : u \in 1..Len(updates)
    BY <2>0
  <2>2. poll'.last \in 0..Len(updates)
    <3>1. 0 \in 0..Len(updates)
      BY <1>0, Bounds, Zenon
    <3> QED BY <2>0, <3>1, Zenon
  <2>3. poll'.now \in 0..WorkerClock
    <3>1. 0 \in 0..WorkerClock /\ WorkerClock \in 0..WorkerClock
      BY <1>0, Bounds, Zenon
    <3> QED BY <2>0, <3>1, Zenon
  <2> QED BY <2>1, <2>2, <2>3, Zenon DEF PollShape, WorkerClock
<1>2. ChannelShape'
  BY DEF OperatorInv, ChannelShape, UpdateIds
<1>3. TruthInv'
  <2>1. \A text : Holds(text)' = Holds(text)
    BY DEF Holds, DbClock
  <2>9. \A d, p : Told(d, p)' = Told(d, p)
    BY <2>1 DEF Told
  <2>8. Told(poll.disposition, updates[Current].decision)'
    BY Zenon DEF Told
  <2> QED BY <2>1, <2>8, <2>9 DEF OperatorInv, TruthInv, UpdateIds
<1>4. OffsetInv'
  <2>1. \A u \in UpdateIds : u <= poll'.last /\ u \notin poll'.batch => u <= poll.last /\ u \notin poll.batch
    <3>1. CASE poll'.batch = poll.batch /\ poll'.last = poll.last
      BY <3>1
    <3>2. CASE poll'.last = 0
      BY <1>0, <3>2, Bounds, Zenon DEF UpdateIds
    <3> QED BY <3>1, <3>2
  <2> QED BY <2>1 DEF OperatorInv, OffsetInv, UpdateIds, Done
<1>5. AdmittedInv'
  <2>1. \A r \in flight : Flown(r)'
    BY DEF OperatorInv, AdmittedInv, Flown, Admitted
  <2> QED BY <2>1 DEF OperatorInv, AdmittedInv, Deciding, Admitted, UpdateIds
<1> QED BY <1>1, <1>2, <1>3, <1>4, <1>5 DEF OperatorInv

LEMMA RestingPoll ==
  /\ Polled(Resting) /\ Resting.at = "idle" /\ Resting.batch = {} /\ Resting.last = 0 /\ Resting.now = 0
  /\ Resting.disposition = ""
BY DEF Resting, Polled, PollFields

\* Where a service leads.
LEMMA ServicedPoll ==
  ASSUME Polled(poll)
  PROVE  /\ Polled(Serviced) /\ Serviced.at \in {"fetch", "idle"}
         /\ \/ /\ Serviced.batch = poll.batch /\ Serviced.last = poll.last /\ Serviced.now = poll.now
               /\ Serviced.disposition = poll.disposition
            \/ Serviced = Resting
<1>1. CASE poll.round = 1
  <2>1. Serviced = [poll EXCEPT !.at = "fetch"]
    BY <1>1 DEF Serviced
  <2> QED BY <2>1 DEF Polled, PollFields
<1>2. CASE poll.round # 1
  BY <1>2, RestingPoll DEF Serviced
<1> QED BY <1>1, <1>2

LEMMA StartKeeps ==
  ASSUME OperatorInv, StartService \/ MarkSent
  PROVE  OperatorInv'
<1>1. UNCHANGED <<plan, flight, issued, admissions, approval, time, updates, offset, inbox, presses, messages>>
  BY DEF StartService, MarkSent, doorVars, admissionVars, controlVars
<1>2. poll.at \in {"idle", "service", "mark"}
  BY DEF StartService, MarkSent
<1>3. PICK a \in {"send", "list"}, t \in {WorkerClock, poll.now} : poll' = [poll EXCEPT !.at = a, !.now = t]
  <2>1. CASE StartService
    BY <2>1 DEF StartService
  <2>2. CASE MarkSent
    <3>1. poll' = [poll EXCEPT !.at = "list", !.now = poll.now]
      BY <2>2 DEF MarkSent, OperatorInv, PollShape, WorkerClock, Polled, PollFields
    <3> QED BY <3>1
  <2> QED BY <2>1, <2>2
<1>4. Polled(poll) /\ poll.disposition = ""
  BY <1>2 DEF OperatorInv, PollShape, WorkerClock, Deciding
<1>5. /\ Polled(poll') /\ poll'.at = a /\ poll'.now = t /\ poll'.batch = poll.batch /\ poll'.last = poll.last
      /\ poll'.disposition = ""
  BY <1>3, <1>4 DEF Polled, PollFields
<1>6. poll.at \notin Deciding /\ poll'.at \notin Deciding /\ poll'.at # "close"
  BY <1>2, <1>5 DEF Deciding
<1>7. (\E S : messages' \in Seq(S)) /\ \A m \in DOMAIN messages' : Holds(messages'[m])
  BY <1>1 DEF OperatorInv, ChannelShape, TruthInv
<1> QED BY <1>1, <1>5, <1>6, <1>7, ServiceKeeps

LEMMA SendKeeps ==
  ASSUME OperatorInv, SendCard
  PROVE  OperatorInv'
<1>1. UNCHANGED <<plan, flight, issued, admissions, approval, time, updates, offset, inbox, presses>>
  BY DEF SendCard, DoorUnchanged, admissionVars, controlVars
<1>2. PICK a \in {"mark", "list"} : poll' = [poll EXCEPT !.at = a]
  BY DEF SendCard
<1>3. messages' \in {messages, Append(messages, "card")} /\ poll.at = "send"
  BY DEF SendCard
<1>4. Polled(poll) /\ poll.disposition = ""
  BY <1>3 DEF OperatorInv, PollShape, WorkerClock, Deciding
<1>5. /\ Polled(poll') /\ poll'.at = a /\ poll'.now = poll.now /\ poll'.batch = poll.batch /\ poll'.last = poll.last
      /\ poll'.disposition = ""
  BY <1>2, <1>4 DEF Polled, PollFields
<1>6. poll.at \notin Deciding /\ poll'.at \notin Deciding /\ poll'.at # "close"
  BY <1>3, <1>5 DEF Deciding
<1>7. (\E S : messages' \in Seq(S)) /\ \A m \in DOMAIN messages' : Holds(messages'[m])
  <2> PICK S : messages \in Seq(S)
    BY DEF OperatorInv, ChannelShape
  <2>1. \A m \in DOMAIN messages : Holds(messages[m])
    BY DEF OperatorInv, TruthInv
  <2>2. CASE messages' = messages
    BY <2>1, <2>2
  <2>3. CASE messages' = Append(messages, "card")
    <3>1. /\ messages' \in Seq(S \cup {"card"}) /\ DOMAIN messages = 1..Len(messages)
          /\ DOMAIN messages' = 1..(Len(messages) + 1) /\ Len(messages) \in Nat
          /\ \A m \in 1..Len(messages) : messages'[m] = messages[m]
          /\ messages'[Len(messages) + 1] = "card"
      BY <2>3, AppendHas
    <3>2. Holds("card")
      BY DEF Holds, Decisions
    <3>3. \A m \in DOMAIN messages' : m \in 1..Len(messages) \/ m = Len(messages) + 1
      BY <3>1
    <3> QED BY <2>1, <3>1, <3>2, <3>3
  <2> QED BY <1>3, <2>2, <2>3
<1> QED BY <1>1, <1>5, <1>6, <1>7, ServiceKeeps

LEMMA ListKeeps ==
  ASSUME OperatorInv, ListToClose
  PROVE  OperatorInv'
<1>1. UNCHANGED <<plan, flight, issued, admissions, approval, time, updates, offset, inbox, presses, messages>>
  BY DEF ListToClose, doorVars, admissionVars, controlVars
<1>2. poll.at = "list" /\ poll.at \notin Deciding
  BY DEF ListToClose, Deciding
<1>3. Polled(poll) /\ poll.disposition = ""
  BY <1>2 DEF OperatorInv, PollShape, WorkerClock
<1>4. (\E S : messages' \in Seq(S)) /\ \A m \in DOMAIN messages' : Holds(messages'[m])
  BY <1>1 DEF OperatorInv, ChannelShape, TruthInv
<1>5. CASE poll' = Serviced
  <2>1. /\ Polled(poll') /\ poll'.at \notin Deciding /\ poll'.at # "close" /\ poll'.disposition = ""
        /\ (poll'.batch = poll.batch /\ poll'.last = poll.last) \/ (poll'.batch = {} /\ poll'.last = 0)
        /\ poll'.now \in {poll.now, WorkerClock, 0}
    BY <1>3, <1>5, ServicedPoll, RestingPoll DEF Deciding
  <2> QED BY <1>1, <1>2, <1>4, <2>1, ServiceKeeps
<1>6. CASE ToClose /\ poll' = [poll EXCEPT !.at = "close",
                                   !.closing = IF approval.status = "PENDING" THEN "EXPIRED" ELSE approval.status]
  <2> DEFINE c == IF approval.status = "PENDING" THEN "EXPIRED" ELSE approval.status
  <2>1. /\ Polled(poll') /\ poll'.at = "close" /\ poll'.now = poll.now /\ poll'.closing = c
        /\ poll'.batch = poll.batch /\ poll'.last = poll.last /\ poll'.disposition = ""
    BY <1>3, <1>6 DEF Polled, PollFields
  <2>2. poll.now \in 0..WorkerClock /\ time \in Nat /\ plan \in Plans
    BY DEF OperatorInv, PollShape, WorkerClock, ChannelShape
  <2>3. approval.status = "PENDING" => ApprovalTtl <= poll.now
    BY <1>6 DEF ToClose
  <2>4. approval.status = "PENDING" /\ plan.worker <= plan.db => DbClock >= ApprovalTtl
    BY <2>2, <2>3, DoorConstants DEF WorkerClock, DbClock
  <2>5. Holds(c)
    BY <2>4 DEF Holds, Decisions
  <2> HIDE DEF c
  <2>6. poll'.at \notin Deciding
    BY <2>1 DEF Deciding
  <2> QED BY <1>1, <1>2, <1>4, <2>1, <2>5, <2>6, ServiceKeeps
<1> QED BY <1>5, <1>6 DEF ListToClose

LEMMA CloseKeeps ==
  ASSUME OperatorInv, CloseCard \/ MarkResolved
  PROVE  OperatorInv'
<1>1. UNCHANGED <<plan, flight, issued, admissions, approval, time, updates, offset, inbox, presses>>
  BY DEF CloseCard, MarkResolved, DoorUnchanged, doorVars, admissionVars, controlVars
<1>2. poll.at \in {"close", "resolve"} /\ poll.at \notin Deciding
  BY DEF CloseCard, MarkResolved, Deciding
<1>3. Polled(poll) /\ poll.disposition = ""
  BY <1>2 DEF OperatorInv, PollShape, WorkerClock
<1>4. poll' = Serviced \/ poll' = [poll EXCEPT !.at = "resolve"]
  BY DEF CloseCard, MarkResolved
<1>5. /\ Polled(poll') /\ poll'.at \notin Deciding /\ poll'.at # "close" /\ poll'.disposition = ""
      /\ (poll'.batch = poll.batch /\ poll'.last = poll.last) \/ (poll'.batch = {} /\ poll'.last = 0)
      /\ poll'.now \in {poll.now, WorkerClock, 0}
  <2>1. CASE poll' = Serviced
    BY <1>3, <2>1, ServicedPoll, RestingPoll DEF Deciding
  <2>2. CASE poll' = [poll EXCEPT !.at = "resolve"]
    BY <1>3, <2>2 DEF Polled, PollFields, Deciding
  <2> QED BY <1>4, <2>1, <2>2
<1>6. (\E S : messages' \in Seq(S)) /\ \A m \in DOMAIN messages' : Holds(messages'[m])
  <2> PICK S : messages \in Seq(S)
    BY DEF OperatorInv, ChannelShape
  <2>1. \A m \in DOMAIN messages : Holds(messages[m])
    BY DEF OperatorInv, TruthInv
  <2>2. CASE messages' = messages
    BY <2>1, <2>2
  <2>3. ASSUME NEW text, Holds(text), messages' = [messages EXCEPT ![card.message] = text]
        PROVE  (\E T : messages' \in Seq(T)) /\ \A m \in DOMAIN messages' : Holds(messages'[m])
    <3>2. messages' \in Seq(S \cup {text})
      <4>1. messages \in [1..Len(messages) -> S] /\ Len(messages) \in Nat
        OBVIOUS
      <4>2. messages' \in [1..Len(messages) -> S \cup {text}]
        BY <2>3, <4>1
      <4> QED BY <4>1, <4>2
    <3>3. DOMAIN messages' = DOMAIN messages /\ \A m \in DOMAIN messages : messages'[m] \in {messages[m], text}
      BY <2>3
    <3> QED BY <2>1, <2>3, <3>2, <3>3
  <2>4. CASE poll.at = "close" /\ messages' = [messages EXCEPT ![card.message] = poll.closing]
    <3>1. PICK text : text = poll.closing
      OBVIOUS
    <3>2. Holds(text)
      BY <2>4, <3>1 DEF OperatorInv, TruthInv
    <3> QED BY <2>3, <2>4, <3>1, <3>2
  <2>5. CASE messages' = [messages EXCEPT ![card.message] = "gone"]
    <3>1. Holds("gone")
      BY DEF Holds, Decisions
    <3> QED BY <2>3, <2>5, <3>1
  <2> QED BY <2>2, <2>4, <2>5 DEF CloseCard, MarkResolved
<1> QED BY <1>1, <1>2, <1>5, <1>6, ServiceKeeps

-----------------------------------------------------------------------------
(* The poll fetches a batch, handles its updates and acknowledges it. *)

LEMMA FetchKeeps ==
  ASSUME OperatorInv, FetchUpdates
  PROVE  OperatorInv'
<1>1. UNCHANGED <<plan, flight, issued, admissions, approval, time, updates, offset, inbox, presses, messages>>
  BY DEF FetchUpdates, DoorUnchanged, admissionVars, controlVars
<1>2. poll.at = "fetch" /\ poll.at \notin Deciding
  BY DEF FetchUpdates, Deciding
<1>3. Polled(poll) /\ poll.disposition = ""
  BY <1>2 DEF OperatorInv, PollShape, WorkerClock
<1>4. (\E S : messages' \in Seq(S)) /\ \A m \in DOMAIN messages' : Holds(messages'[m])
  BY <1>1 DEF OperatorInv, ChannelShape, TruthInv
<1>5. CASE poll' = Resting
  <2>1. /\ Polled(poll') /\ poll'.at \notin Deciding /\ poll'.at # "close" /\ poll'.disposition = ""
        /\ poll'.batch = {} /\ poll'.last = 0 /\ poll'.now \in {poll.now, WorkerClock, 0}
    BY <1>5, RestingPoll DEF Deciding
  <2> QED BY <1>1, <1>2, <1>4, <2>1, ServiceKeeps
<1>6. CASE poll' # Resting
  <2> DEFINE fetched == {u \in DOMAIN updates : u >= offset}
             last == IF fetched = {} THEN 0 ELSE Max(fetched)
  <2>1. poll' = [poll EXCEPT !.at = "handle", !.batch = fetched, !.last = last]
    BY <1>6 DEF FetchUpdates
  <2>2. updates \in Seq(Update) /\ Len(updates) \in Nat /\ Len(plan.script) \in Nat /\ poll.now \in 0..WorkerClock
    BY Sizes, Zenon
  <2>3. offset \in Nat \ {0}
    BY DEF OperatorInv, OffsetInv
  <2>4. DOMAIN updates = 1..Len(updates)
    BY <2>2
  <2>5. \A u \in fetched : u \in 1..Len(updates)
    BY <2>4
  <2>6. last \in 0..Len(updates) /\ \A u \in 1..Len(plan.script) : u <= last /\ u \notin fetched => u < offset
    <3>1. CASE fetched = {}
      BY <2>2, <3>1
    <3>2. CASE fetched # {}
      <4>1. PICK f \in fetched : TRUE
        BY <3>2
      <4>2. f \in 1..Len(updates) /\ f >= offset
        BY <2>4
      <4>3. Len(updates) \in fetched
        BY <2>2, <2>3, <2>4, <4>2
      <4>4. \A y \in fetched : Len(updates) >= y
        BY <2>2, <2>5
      <4>5. Max(fetched) \in fetched
        BY <4>3, <4>4 DEF Max
      <4>6. last = Max(fetched)
        BY <3>2
      <4>7. last \in 1..Len(updates)
        BY <2>5, <4>5, <4>6
      <4>8. ASSUME NEW u \in 1..Len(plan.script), u <= last, u \notin fetched PROVE u < offset
        <5> HIDE DEF last
        <5>1. u \in 1..Len(updates)
          BY <2>2, <4>7, <4>8
        <5> QED BY <2>3, <2>4, <4>8, <5>1
      <4> QED BY <2>2, <4>7, <4>8
    <3> QED BY <3>1, <3>2
  <2> HIDE DEF last, fetched
  <2>7. /\ Polled(poll') /\ poll'.at = "handle" /\ poll'.batch = fetched /\ poll'.last = last
        /\ poll'.now = poll.now /\ poll'.disposition = ""
    BY <1>3, <2>1 DEF Polled, PollFields
  <2>8. PollShape'
    <3>1. poll'.at \notin Deciding
      BY <2>7 DEF Deciding
    <3> QED BY <1>1, <2>2, <2>5, <2>6, <2>7, <3>1, Zenon DEF PollShape, WorkerClock
  <2>9. ChannelShape'
    BY <1>1 DEF OperatorInv, ChannelShape, UpdateIds
  <2>10. TruthInv'
    <3>1. \A text : Holds(text)' = Holds(text)
      BY <1>1 DEF Holds, DbClock
    <3>9. \A d, p : Told(d, p)' = Told(d, p)
      BY <1>1, <3>1 DEF Told
    <3>8. Told(poll.disposition, updates[Current].decision)'
      BY <2>7, Zenon DEF Told
    <3> QED BY <1>1, <2>7, <3>1, <3>8, <3>9 DEF OperatorInv, TruthInv, UpdateIds
  <2>11. OffsetInv'
    <3>1. \A u \in UpdateIds : u < offset \/ (u <= last /\ u \notin fetched) => Done(u)
      BY <2>6 DEF UpdateIds, OperatorInv, OffsetInv
    <3>2. \A u : Done(u)' = Done(u)
      BY <1>1 DEF Done
    <3>3. UpdateIds' = UpdateIds
      BY <1>1 DEF UpdateIds
    <3> QED BY <1>1, <2>7, <3>1, <3>2, <3>3 DEF OperatorInv, OffsetInv
  <2>12. AdmittedInv'
    <3>1. \A r \in flight : Flown(r)'
      BY <1>1 DEF OperatorInv, AdmittedInv, Flown, Admitted
    <3> QED BY <1>1, <2>7, <3>1 DEF OperatorInv, AdmittedInv, Admitted, UpdateIds
  <2> QED BY <2>8, <2>9, <2>10, <2>11, <2>12 DEF OperatorInv
<1> QED BY <1>5, <1>6

LEMMA AcknowledgeKeeps ==
  ASSUME OperatorInv, AcknowledgeBatch
  PROVE  OperatorInv'
<1>1. UNCHANGED <<plan, flight, issued, admissions, approval, time, updates, inbox, presses, messages>>
  BY DEF AcknowledgeBatch, doorVars, admissionVars, controlVars
<1>2. poll.batch = {} /\ poll' \in {Resting, [Resting EXCEPT !.at = "service", !.round = 2]}
  BY DEF AcknowledgeBatch
<1>3. /\ Polled(poll') /\ poll'.at \in {"idle", "service"} /\ poll'.disposition = ""
      /\ poll'.batch = {} /\ poll'.last = 0 /\ poll'.now = 0
  <2>1. CASE poll' = Resting
    BY <2>1, RestingPoll
  <2>2. CASE poll' = [Resting EXCEPT !.at = "service", !.round = 2]
    BY <2>2, RestingPoll DEF Polled, PollFields
  <2> QED BY <1>2, <2>1, <2>2
<1>4. Len(updates) \in Nat /\ Len(plan.script) \in Nat /\ WorkerClock \in Nat /\ poll.last \in 0..Len(updates)
  BY Sizes, Zenon
<1>5. PollShape'
  <2>1. poll'.at \notin Deciding
    BY <1>3 DEF Deciding
  <2>2. 0 \in 0..WorkerClock /\ 0 \in 0..Len(updates)
    BY <1>4
  <2> QED BY <1>1, <1>3, <2>1, <2>2 DEF PollShape, WorkerClock
<1>6. ChannelShape'
  BY <1>1 DEF OperatorInv, ChannelShape, UpdateIds
<1>7. TruthInv'
  <2>1. \A text : Holds(text)' = Holds(text)
    BY <1>1 DEF Holds, DbClock
  <2>9. \A d, p : Told(d, p)' = Told(d, p)
    BY <1>1, <2>1 DEF Told
  <2>8. Told(poll.disposition, updates[Current].decision)'
    BY <1>3, Zenon DEF Told
  <2> QED BY <1>1, <1>3, <2>1, <2>8, <2>9 DEF OperatorInv, TruthInv, UpdateIds
<1>8. OffsetInv'
  <2> DEFINE l == poll.last
  <2>1. offset' = IF l = 0 \/ l + 1 < offset THEN offset ELSE l + 1
    BY DEF AcknowledgeBatch
  <2>2. /\ offset \in Nat \ {0} /\ offset <= Len(updates) + 1
        /\ \A u \in UpdateIds : u < offset \/ u <= l => Done(u)
    BY <1>2 DEF OperatorInv, OffsetInv
  <2>3. l \in 0..Len(updates)
    BY <1>4
  <2> HIDE DEF l
  <2>4. offset' \in Nat \ {0} /\ offset' <= Len(updates) + 1
    BY <1>4, <2>1, <2>2, <2>3
  <2>5. \A u \in UpdateIds : u < offset' => u < offset \/ u <= l
    BY <1>4, <2>1, <2>2, <2>3 DEF UpdateIds
  <2>6. \A u : Done(u)' = Done(u)
    BY <1>1 DEF Done
  <2>7. UpdateIds' = UpdateIds
    BY <1>1 DEF UpdateIds
  <2>8. \A u \in UpdateIds : ~(u <= 0)
    BY <1>4, Bounds, Zenon DEF UpdateIds
  <2> QED BY <1>1, <1>3, <2>2, <2>4, <2>5, <2>6, <2>7, <2>8 DEF OffsetInv
<1>9. AdmittedInv'
  <2>1. \A r \in flight : Flown(r)'
    BY <1>1 DEF OperatorInv, AdmittedInv, Flown, Admitted
  <2> QED BY <1>1, <1>3, <2>1 DEF OperatorInv, AdmittedInv, Admitted, UpdateIds
<1> QED BY <1>5, <1>6, <1>7, <1>8, <1>9 DEF OperatorInv

LEMMA DeathKeeps ==
  ASSUME OperatorInv, PollerDies
  PROVE  OperatorInv'
<1>1. UNCHANGED <<plan, issued, admissions, approval, time, updates, offset, inbox, presses, messages>>
  BY DEF PollerDies, admissionVars, controlVars
<1>2. /\ Polled(poll') /\ poll'.at = "idle" /\ poll'.disposition = ""
      /\ poll'.batch = {} /\ poll'.last = 0 /\ poll'.now = 0
  BY RestingPoll DEF PollerDies
<1>3. Len(updates) \in Nat /\ Len(plan.script) \in Nat /\ WorkerClock \in Nat
  BY Sizes, Zenon
<1>4. PollShape'
  <2>1. poll'.at \notin Deciding
    BY <1>2 DEF Deciding
  <2>2. 0 \in 0..WorkerClock /\ 0 \in 0..Len(updates)
    BY <1>3
  <2> QED BY <1>1, <1>2, <2>1, <2>2 DEF PollShape, WorkerClock
<1>5. ChannelShape'
  BY <1>1 DEF OperatorInv, ChannelShape, UpdateIds
<1>6. TruthInv'
  <2>1. \A text : Holds(text)' = Holds(text)
    BY <1>1 DEF Holds, DbClock
  <2>9. \A d, p : Told(d, p)' = Told(d, p)
    BY <1>1, <2>1 DEF Told
  <2>8. Told(poll.disposition, updates[Current].decision)'
    BY <1>2, Zenon DEF Told
  <2> QED BY <1>1, <1>2, <2>1, <2>8, <2>9 DEF OperatorInv, TruthInv, UpdateIds
<1>7. OffsetInv'
  <2>1. \A u \in UpdateIds : ~(u <= 0)
    BY <1>3, Bounds, Zenon DEF UpdateIds
  <2> QED BY <1>1, <1>2, <2>1 DEF OperatorInv, OffsetInv, UpdateIds, Done
<1>8. AdmittedInv'
  <2>1. \A q \in flight : Flown(q)
    BY DEF OperatorInv, AdmittedInv
  <2>2. \A r \in flight' : r \in flight \/ \E q \in flight : r = [q EXCEPT !.waited = FALSE]
    BY DEF PollerDies
  <2>3. ASSUME NEW q \in flight PROVE Flown(q)' /\ Flown([q EXCEPT !.waited = FALSE])'
    <3> DEFINE e == [q EXCEPT !.waited = FALSE]
    <3>1. /\ e = [x \in RequestFields |-> e[x]] /\ e.at = q.at /\ e.answer = q.answer
          /\ e.id = q.id /\ e.op = q.op /\ e.who = q.who /\ e.key = q.key
      BY <2>1 DEF Flown, RequestFields
    <3> HIDE DEF e
    <3>2. Flown(q)'
      BY <1>1, <2>1 DEF Flown, Admitted
    <3>3. Flown(e)'
      BY <3>1, <3>2 DEF Flown
    <3> QED BY <3>2, <3>3 DEF e
  <2>4. \A r \in flight' : Flown(r)'
    BY <2>2, <2>3
  <2> QED BY <1>1, <1>2, <2>4 DEF OperatorInv, AdmittedInv, Admitted, UpdateIds
<1> QED BY <1>4, <1>5, <1>6, <1>7, <1>8 DEF OperatorInv

\* The operator goes on writing while the poll works.
LEMMA UpdateKeeps ==
  ASSUME OperatorInv, SendUpdate
  PROVE  OperatorInv'
<1>1. UNCHANGED <<plan, flight, issued, admissions, approval, time, offset, inbox, presses, messages, poll>>
  BY DEF SendUpdate, doorVars, admissionVars, controlVars
<1>2. /\ time \in Nat /\ updates \in Seq(Update) /\ Len(updates) \in Nat
      /\ Len(plan.script) \in Nat /\ Len(updates) <= Len(plan.script)
      /\ \A u \in poll.batch : u \in 1..Len(updates)
      /\ poll.last \in 0..Len(updates) /\ poll.now \in 0..WorkerClock
  BY Sizes, Zenon
<1>3. PICK e \in Update : updates' = Append(updates, e) /\ Len(updates) < Len(plan.script)
  <2> DEFINE k == plan.script[Len(updates) + 1]
  <2>1. Len(updates) < Len(plan.script)
    BY DEF SendUpdate
  <2>2. k \in UpdateKinds
    <3>1. PICK s \in Seq(UpdateKinds) : s = plan.script
      BY OperatorConstants DEF OperatorInv, ChannelShape
    <3>2. PICK i \in 1..Len(s) : i = Len(updates) + 1
      BY <1>2, <2>1, <3>1
    <3>3. s[i] \in UpdateKinds
      BY ElementOf
    <3> QED BY <3>1, <3>2, <3>3, Zenon
  <2>3. PICK m, d : /\ updates' = Append(updates, [kind |-> k, decision |-> d, message |-> m])
                    /\ m \in DOMAIN messages \/ m = 0
                    /\ d \in Decisions \cup {""}
    <3> HIDE DEF k
    <3>1. PICK m \in (IF k = "PRESS" THEN {n \in DOMAIN messages : messages[n] \in {"card", "gone"}} ELSE {0}),
               d \in (IF k = "PRESS" THEN Decisions ELSE {""}) :
                 updates' = Append(updates, [kind |-> k, decision |-> d, message |-> m])
      BY DEF SendUpdate, k
    <3>2. (m \in DOMAIN messages \/ m = 0) /\ d \in Decisions \cup {""}
      OBVIOUS
    <3> QED BY <3>1, <3>2
  <2>4. m \in Nat
    <3> PICK S : messages \in Seq(S)
      BY DEF OperatorInv, ChannelShape
    <3>1. DOMAIN messages = 1..Len(messages) /\ Len(messages) \in Nat
      OBVIOUS
    <3>2. m \in DOMAIN messages \/ m = 0
      BY <2>3, Zenon
    <3> HIDE <2>3 DEF k
    <3> QED BY <3>1, <3>2
  <2>5. [kind |-> k, decision |-> d, message |-> m] \in Update
    BY <2>2, <2>3, <2>4 DEF Update
  <2> QED BY <2>1, <2>3, <2>5
<1>4. /\ updates' \in Seq(Update) /\ Len(updates') = Len(updates) + 1
      /\ \A u \in 1..Len(updates) : updates'[u] = updates[u]
  BY <1>2, <1>3
<1>5. 1..Len(updates) \subseteq 1..Len(updates') /\ 0..Len(updates) \subseteq 0..Len(updates')
      /\ Len(updates') <= Len(plan.script)
  BY <1>2, <1>3, <1>4
<1>6. PollShape'
  <2>1. \A u \in poll.batch : u \in 1..Len(updates')
    BY <1>2, <1>5, Zenon
  <2>2. poll.last \in 0..Len(updates')
    BY <1>2, <1>5, Zenon
  <2> QED BY <1>1, <1>2, <2>1, <2>2 DEF OperatorInv, PollShape, WorkerClock, Polled
<1>7. ChannelShape'
  BY <1>1, <1>4, <1>5 DEF OperatorInv, ChannelShape, UpdateIds
<1>8. poll.batch # {} => updates'[Current'] = updates[Current] /\ Current' = Current
  <2>1. Current' = Current
    BY <1>1 DEF Current
  <2>2. poll.batch # {} => Current \in 1..Len(updates)
    BY CurrentIsOne DEF OperatorInv
  <2> QED BY <1>4, <2>1, <2>2
<1>9. TruthInv'
  <2>1. \A text : Holds(text)' = Holds(text)
    BY <1>1 DEF Holds, DbClock
  <2>9. \A d, p : Told(d, p)' = Told(d, p)
    BY <1>1, <2>1 DEF Told
  <2>2. poll.batch = {} => poll.disposition = ""
    BY Zenon DEF OperatorInv, PollShape, WorkerClock
  <2>8. Told(poll.disposition, updates[Current].decision)'
    <3>1. CASE poll.batch # {}
      BY <1>1, <1>8, <2>9, <3>1 DEF OperatorInv, TruthInv
    <3>2. CASE poll.batch = {}
      BY <1>1, <2>2, <3>2, Zenon DEF Told
    <3> QED BY <3>1, <3>2
  <2> QED BY <1>1, <2>1, <2>8, <2>9 DEF OperatorInv, TruthInv, UpdateIds
<1>10. OffsetInv'
  <2>1. offset \in Nat \ {0} /\ offset <= Len(updates) + 1
    BY DEF OperatorInv, OffsetInv
  <2>2. \A u \in UpdateIds : u < offset \/ u <= poll.last => u \in 1..Len(updates)
    BY <1>2, <2>1 DEF UpdateIds
  <2>3. \A u \in 1..Len(updates) : Done(u)' = Done(u)
    BY <1>1, <1>4 DEF Done
  <2>4. offset' \in Nat \ {0} /\ offset' <= Len(updates') + 1
    BY <1>1, <1>2, <1>4, <2>1
  <2>5. \A u \in UpdateIds : u < offset \/ (u <= poll.last /\ u \notin poll.batch) => Done(u)'
    <3>1. \A u \in UpdateIds : u < offset \/ (u <= poll.last /\ u \notin poll.batch) => Done(u)
      BY DEF OperatorInv, OffsetInv
    <3> QED BY <2>2, <2>3, <3>1, Zenon
  <2>6. UpdateIds' = UpdateIds
    BY <1>1 DEF UpdateIds
  <2> QED BY <1>1, <2>4, <2>5, <2>6 DEF OffsetInv
<1>11. AdmittedInv'
  <2>1. \A r \in flight : Flown(r)'
    BY <1>1 DEF OperatorInv, AdmittedInv, Flown, Admitted
  <2>2. poll.at = "asked" => \A r \in flight : r.id = poll.request => Asked(r, Current', updates'[Current'].kind)
    <3>1. poll.at = "asked" => poll.batch # {}
      BY DEF OperatorInv, PollShape, WorkerClock, Deciding
    <3> QED BY <1>8, <3>1 DEF OperatorInv, AdmittedInv
  <2>3. Current' = Current
    BY <1>1 DEF Current
  <2> QED BY <1>1, <2>1, <2>2, <2>3 DEF OperatorInv, AdmittedInv, Admitted, UpdateIds
<1> QED BY <1>6, <1>7, <1>9, <1>10, <1>11 DEF OperatorInv

-----------------------------------------------------------------------------
(* The end of one update. *)

\* The rows of an update are written, and the poll goes on to the next.
LEMMA HandledKeeps ==
  ASSUME OperatorInv, poll.batch # {}, NEW c, c = Current,
         UNCHANGED <<plan, flight, issued, admissions, approval, time, updates, offset, messages>>,
         Polled(poll'), poll'.at = "handle", poll'.disposition = "", poll'.batch = poll.batch \ {c},
         poll'.last = poll.last, poll'.now = poll.now,
         inbox' = [u \in UpdateIds |-> inbox'[u]], presses' = [u \in UpdateIds |-> presses'[u]],
         \A u \in UpdateIds : /\ inbox'[u] = [x \in RowFields |-> inbox'[u][x]]
                             /\ presses'[u] = [x \in PressFields |-> presses'[u][x]],
         \A u \in UpdateIds \ {c} : inbox'[u] = inbox[u] /\ presses'[u] = presses[u],
         Done(c)',
         Told(presses'[c].disposition, presses'[c].pressed),
         inbox'[c].mission => Admitted("operator", c)
  PROVE  OperatorInv'
<1>1. c \in UpdateIds /\ UpdateIds' = UpdateIds
  BY CurrentIsOne DEF OperatorInv, UpdateIds
<1>2. PollShape'
  <2>1. poll'.at \notin Deciding
    BY DEF Deciding
  <2> QED BY <2>1 DEF OperatorInv, PollShape, WorkerClock
<1>3. ChannelShape'
  BY <1>1, Zenon DEF OperatorInv, ChannelShape
<1>4. TruthInv'
  <2>1. \A text : Holds(text)' = Holds(text)
    BY DEF Holds, DbClock
  <2>9. \A d, p : Told(d, p)' = Told(d, p)
    BY <2>1 DEF Told
  <2>2. \A u \in UpdateIds : Told(presses'[u].disposition, presses'[u].pressed)
    BY DEF OperatorInv, TruthInv
  <2>8. Told(poll.disposition, updates[Current].decision)'
    BY Zenon DEF Told
  <2> QED BY <1>1, <2>1, <2>2, <2>8, <2>9 DEF OperatorInv, TruthInv
<1>5. OffsetInv'
  <2>1. \A u \in UpdateIds \ {c} : Done(u)' = Done(u)
    BY DEF Done
  <2>2. \A u \in UpdateIds : u < offset \/ (u <= poll.last /\ u \notin poll.batch) => Done(u)
    BY DEF OperatorInv, OffsetInv
  <2>3. \A u \in UpdateIds : u < offset \/ (u <= poll.last /\ u \notin poll'.batch) => Done(u)'
    <3> SUFFICES ASSUME NEW u \in UpdateIds, u < offset \/ (u <= poll.last /\ u \notin poll'.batch) PROVE Done(u)'
      OBVIOUS
    <3>1. CASE u = c
      BY <3>1 DEF Done
    <3>2. CASE u # c
      BY <2>1, <2>2, <3>2
    <3> QED BY <3>1, <3>2
  <2> QED BY <1>1, <2>3 DEF OperatorInv, OffsetInv
<1>6. AdmittedInv'
  <2>1. \A r \in flight : Flown(r)'
    BY DEF OperatorInv, AdmittedInv, Flown, Admitted
  <2>2. \A u \in UpdateIds : inbox'[u].mission => Admitted("operator", u)
    <3> SUFFICES ASSUME NEW u \in UpdateIds, inbox'[u].mission PROVE Admitted("operator", u)
      OBVIOUS
    <3>1. CASE u = c
      BY <3>1, Zenon
    <3>2. CASE u # c
      <4>1. inbox[u].mission
        BY <3>2, Zenon
      <4> QED BY <4>1, Zenon DEF OperatorInv, AdmittedInv
    <3> QED BY <3>1, <3>2
  <2> QED BY <1>1, <2>1, <2>2 DEF OperatorInv, AdmittedInv, Admitted
<1> QED BY <1>2, <1>3, <1>4, <1>5, <1>6 DEF OperatorInv

LEMMA HandledPoll ==
  ASSUME Polled(poll),
         poll' = Handled \/ poll' = [Handled EXCEPT !.pressed = TRUE]
  PROVE  /\ Polled(poll') /\ poll'.at = "handle" /\ poll'.disposition = "" /\ poll'.batch = poll.batch \ {Current}
         /\ poll'.last = poll.last /\ poll'.now = poll.now
<1> DEFINE h == Handled
<1>1. /\ Polled(h) /\ h.at = "handle" /\ h.disposition = "" /\ h.batch = poll.batch \ {Current}
      /\ h.last = poll.last /\ h.now = poll.now
  BY DEF Handled, Polled, PollFields
<1> HIDE DEF h
<1>2. CASE poll' = h
  BY <1>1, <1>2
<1>3. CASE poll' = [h EXCEPT !.pressed = TRUE]
  BY <1>1, <1>3 DEF Polled, PollFields
<1> QED BY <1>2, <1>3 DEF h

\* The update at hand was nobody's, or is already done.
LEMMA SkipKeeps ==
  ASSUME OperatorInv,
         \/ SkipUpdate
         \/ HandlePress /\ Claimed(presses, Current)
         \/ HandleCommand /\ Claimed(inbox, Current)
  PROVE  OperatorInv'
<1>1. UNCHANGED <<plan, flight, issued, admissions, approval, time, updates, offset, messages, inbox, presses>>
  BY DEF SkipUpdate, HandlePress, HandleCommand, doorVars, admissionVars, controlVars
<1>2. poll.batch # {} /\ (poll' = Handled \/ poll' = [Handled EXCEPT !.pressed = TRUE])
  BY DEF SkipUpdate, HandlePress, HandleCommand, Handling
<1>3. PICK c : c = Current
  OBVIOUS
<1>4. c \in UpdateIds
  BY <1>2, <1>3, CurrentIsOne DEF OperatorInv
<1>5. Done(c)'
  <2>1. updates[c].kind \in CommandKinds => inbox[c].state = "DONE"
    BY <1>3 DEF SkipUpdate, HandlePress, HandleCommand, Handling, Claimed, CommandKinds
  <2>2. updates[c].kind \in {"PRESS", "STRANGE PRESS"} => presses[c].state = "DONE"
    BY <1>3 DEF SkipUpdate, HandlePress, HandleCommand, Handling, Claimed, CommandKinds
  <2> QED BY <1>1, <2>1, <2>2 DEF Done
<1>6. /\ inbox' = [u \in UpdateIds |-> inbox'[u]] /\ presses' = [u \in UpdateIds |-> presses'[u]]
      /\ \A u \in UpdateIds : /\ inbox'[u] = [x \in RowFields |-> inbox'[u][x]]
                             /\ presses'[u] = [x \in PressFields |-> presses'[u][x]]
  BY <1>1, Zenon DEF OperatorInv, ChannelShape
<1>7. Told(presses'[c].disposition, presses'[c].pressed)
  BY <1>1, <1>4 DEF OperatorInv, TruthInv
<1>8. inbox'[c].mission => Admitted("operator", c)
  BY <1>1, <1>4, Zenon DEF OperatorInv, AdmittedInv
<1>9. /\ Polled(poll') /\ poll'.at = "handle" /\ poll'.disposition = "" /\ poll'.batch = poll.batch \ {c}
      /\ poll'.last = poll.last /\ poll'.now = poll.now
  BY <1>2, <1>3, HandledPoll DEF OperatorInv, PollShape, WorkerClock
<1> QED BY <1>1, <1>2, <1>3, <1>5, <1>6, <1>7, <1>8, <1>9, HandledKeeps

LEMMA PressDone ==
  ASSUME OperatorInv, CompletePress
  PROVE  OperatorInv'
<1>1. UNCHANGED <<plan, flight, issued, admissions, approval, time, updates, offset, messages, inbox>>
  BY DEF CompletePress, doorVars, admissionVars, controlVars
<1>2. poll.batch # {} /\ poll' = [Handled EXCEPT !.pressed = TRUE] /\ poll.at = "complete"
  BY DEF CompletePress, OperatorInv, PollShape, WorkerClock, Deciding
<1>3. PICK c : c = Current
  OBVIOUS
<1>4. c \in UpdateIds
  BY <1>2, <1>3, CurrentIsOne DEF OperatorInv
<1>5. PICK row : /\ row = [state |-> "DONE", disposition |-> poll.disposition, pressed |-> updates[c].decision]
                 /\ presses' = [presses EXCEPT ![c] = row]
  BY <1>3 DEF CompletePress
<1>6. /\ row.state = "DONE" /\ row.disposition = poll.disposition /\ row.pressed = updates[c].decision
      /\ row = [x \in PressFields |-> row[x]]
  BY <1>5 DEF PressFields
<1>7. presses = [u \in UpdateIds |-> presses[u]]
  BY DEF OperatorInv, ChannelShape
<1>8. /\ presses' = [u \in UpdateIds |-> presses'[u]] /\ presses'[c] = row
      /\ \A u \in UpdateIds \ {c} : presses'[u] = presses[u]
  BY <1>4, <1>5, <1>7
<1>9. Done(c)'
  <2>1. updates[c].kind \notin CommandKinds
    BY <1>3 DEF CompletePress, CommandKinds
  <2> QED BY <1>1, <1>6, <1>8, <2>1 DEF Done
<1>10. /\ inbox' = [u \in UpdateIds |-> inbox'[u]]
       /\ \A u \in UpdateIds : /\ inbox'[u] = [x \in RowFields |-> inbox'[u][x]]
                              /\ presses'[u] = [x \in PressFields |-> presses'[u][x]]
  <2>1. inbox' = [u \in UpdateIds |-> inbox'[u]]
    BY <1>1, Zenon DEF OperatorInv, ChannelShape
  <2>2. \A u \in UpdateIds : inbox'[u] = [x \in RowFields |-> inbox'[u][x]]
    BY <1>1, Zenon DEF OperatorInv, ChannelShape
  <2>3. ASSUME NEW u \in UpdateIds PROVE presses'[u] = [x \in PressFields |-> presses'[u][x]]
    <3>1. presses[u] = [x \in PressFields |-> presses[u][x]]
      BY Zenon DEF OperatorInv, ChannelShape
    <3>2. CASE u = c
      BY <1>6, <1>8, <3>2, Zenon
    <3>3. CASE u # c
      <4>1. presses'[u] = presses[u]
        BY <1>8, <3>3
      <4> QED BY <3>1, <4>1, Zenon
    <3> QED BY <3>2, <3>3
  <2> QED BY <2>1, <2>2, <2>3
<1>11. Told(presses'[c].disposition, presses'[c].pressed)
  BY <1>3, <1>6, <1>8 DEF OperatorInv, TruthInv
<1>12. inbox'[c].mission => Admitted("operator", c)
  BY <1>1, <1>4, Zenon DEF OperatorInv, AdmittedInv
<1>13. /\ Polled(poll') /\ poll'.at = "handle" /\ poll'.disposition = "" /\ poll'.batch = poll.batch \ {c}
      /\ poll'.last = poll.last /\ poll'.now = poll.now
  BY <1>2, <1>3, HandledPoll DEF OperatorInv, PollShape, WorkerClock
<1>14. \A u \in UpdateIds \ {c} : inbox'[u] = inbox[u] /\ presses'[u] = presses[u]
  BY <1>1, <1>8
<1> QED BY <1>1, <1>2, <1>3, <1>8, <1>9, <1>10, <1>11, <1>12, <1>13, <1>14, HandledKeeps

LEMMA CommandDone ==
  ASSUME OperatorInv, CompleteCommand
  PROVE  OperatorInv'
<1>1. UNCHANGED <<plan, flight, issued, admissions, approval, time, updates, offset, messages, presses>>
  BY DEF CompleteCommand, doorVars, admissionVars, controlVars
<1>2. poll.batch # {} /\ poll' = Handled /\ poll.at = "complete"
  BY DEF CompleteCommand, OperatorInv, PollShape, WorkerClock, Deciding
<1>3. PICK c : c = Current
  OBVIOUS
<1>4. c \in UpdateIds
  BY <1>2, <1>3, CurrentIsOne DEF OperatorInv
<1>5. PICK m, r : /\ m = (poll.disposition = "ADMITTED") /\ r = (poll.answer = "replied")
                  /\ inbox' = [inbox EXCEPT ![c].state = "DONE", ![c].disposition = poll.disposition,
                                            ![c].mission = m, ![c].replied = r]
  BY <1>3, Zenon DEF CompleteCommand
<1>6. inbox = [u \in UpdateIds |-> inbox[u]] /\ inbox[c] = [x \in RowFields |-> inbox[c][x]]
  BY <1>4, Zenon DEF OperatorInv, ChannelShape
<1>7. /\ inbox' = [u \in UpdateIds |-> inbox'[u]]
      /\ inbox'[c] = [x \in RowFields |-> inbox'[c][x]] /\ inbox'[c].state = "DONE" /\ inbox'[c].mission = m
      /\ \A u \in UpdateIds \ {c} : inbox'[u] = inbox[u]
  <2>1. DOMAIN inbox = UpdateIds /\ DOMAIN inbox[c] = RowFields
    BY <1>6
  <2>2. DOMAIN inbox' = UpdateIds /\ \A u \in UpdateIds \ {c} : inbox'[u] = inbox[u]
    BY <1>5, <2>1
  <2> QED BY <1>4, <1>5, <1>6, <2>1, <2>2 DEF RowFields
<1>9. Done(c)'
  <2>1. updates[c].kind \notin {"PRESS", "STRANGE PRESS"}
    BY <1>3 DEF CompleteCommand, CommandKinds
  <2> QED BY <1>1, <1>7, <2>1 DEF Done
<1>10. /\ presses' = [u \in UpdateIds |-> presses'[u]]
       /\ \A u \in UpdateIds : /\ inbox'[u] = [x \in RowFields |-> inbox'[u][x]]
                              /\ presses'[u] = [x \in PressFields |-> presses'[u][x]]
  <2>1. presses' = [u \in UpdateIds |-> presses'[u]]
    BY <1>1, Zenon DEF OperatorInv, ChannelShape
  <2>2. \A u \in UpdateIds : presses'[u] = [x \in PressFields |-> presses'[u][x]]
    BY <1>1, Zenon DEF OperatorInv, ChannelShape
  <2>3. ASSUME NEW u \in UpdateIds PROVE inbox'[u] = [x \in RowFields |-> inbox'[u][x]]
    <3>1. inbox[u] = [x \in RowFields |-> inbox[u][x]]
      BY Zenon DEF OperatorInv, ChannelShape
    <3>2. CASE u = c
      BY <1>7, <3>2, Zenon
    <3>3. CASE u # c
      <4>1. inbox'[u] = inbox[u]
        BY <1>7, <3>3
      <4> QED BY <3>1, <4>1, Zenon
    <3> QED BY <3>2, <3>3
  <2> QED BY <2>1, <2>2, <2>3
<1>11. Told(presses'[c].disposition, presses'[c].pressed)
  BY <1>1, <1>4 DEF OperatorInv, TruthInv
<1>12. inbox'[c].mission => Admitted("operator", c)
  <2>1. poll.disposition = "ADMITTED" => Admitted("operator", c)
    BY <1>3, Zenon DEF OperatorInv, AdmittedInv
  <2> QED BY <1>5, <1>7, <2>1, Zenon
<1>13. /\ Polled(poll') /\ poll'.at = "handle" /\ poll'.disposition = "" /\ poll'.batch = poll.batch \ {c}
      /\ poll'.last = poll.last /\ poll'.now = poll.now
  BY <1>2, <1>3, HandledPoll DEF OperatorInv, PollShape, WorkerClock
<1>14. \A u \in UpdateIds \ {c} : inbox'[u] = inbox[u] /\ presses'[u] = presses[u]
  BY <1>1, <1>7
<1> QED BY <1>1, <1>2, <1>3, <1>7, <1>9, <1>10, <1>11, <1>12, <1>13, <1>14, HandledKeeps
-----------------------------------------------------------------------------
(* The steps that work on one update. *)

\* What a step of the poll on the update at hand may do.
LEMMA DecidingKeeps ==
  ASSUME OperatorInv, poll.batch # {}, NEW c, c = Current,
         UNCHANGED <<plan, admissions, approval, time, updates, offset, messages>>,
         Polled(poll'), poll'.at \in Deciding, poll'.batch = poll.batch,
         poll'.last = poll.last, poll'.now = poll.now,
         inbox' = [u \in UpdateIds |-> inbox'[u]], presses' = [u \in UpdateIds |-> presses'[u]],
         \A u \in UpdateIds : /\ inbox'[u] = [x \in RowFields |-> inbox'[u][x]]
                             /\ presses'[u] = [x \in PressFields |-> presses'[u][x]],
         \A u \in UpdateIds : /\ Done(u) => Done(u)'
                             /\ inbox'[u].mission = inbox[u].mission
                             /\ presses'[u].disposition = presses[u].disposition
                             /\ presses'[u].pressed = presses[u].pressed,
         Told(poll'.disposition, updates[c].decision),
         poll'.disposition = "ADMITTED" => Admitted("operator", c),
         issued' \in Nat, \A r \in flight' : Flown(r)',
         poll'.at = "asked" => /\ poll'.request \in Nat /\ poll'.request <= issued'
                               /\ \A r \in flight' : r.id = poll'.request => Asked(r, c, updates[c].kind)
  PROVE  OperatorInv'
<1>1. c \in UpdateIds /\ UpdateIds' = UpdateIds /\ Current' = c
  BY CurrentIsOne DEF OperatorInv, UpdateIds, Current
<1>2. PollShape'
  BY DEF OperatorInv, PollShape, WorkerClock
<1>3. ChannelShape'
  BY <1>1, Zenon DEF OperatorInv, ChannelShape
<1>4. TruthInv'
  <2>1. \A text : Holds(text)' = Holds(text)
    BY DEF Holds, DbClock
  <2>9. \A d, p : Told(d, p)' = Told(d, p)
    BY <2>1 DEF Told
  <2>2. \A u \in UpdateIds : Told(presses'[u].disposition, presses'[u].pressed)
    BY DEF OperatorInv, TruthInv
  <2>3. poll'.at # "close"
    BY DEF Deciding
  <2> QED BY <1>1, <2>1, <2>2, <2>3, <2>9 DEF OperatorInv, TruthInv
<1>5. OffsetInv'
  <2>1. \A u \in UpdateIds : u < offset \/ (u <= poll.last /\ u \notin poll.batch) => Done(u)'
    BY DEF OperatorInv, OffsetInv
  <2> QED BY <1>1, <2>1 DEF OperatorInv, OffsetInv
<1>6. AdmittedInv'
  <2>1. \A u \in UpdateIds : inbox'[u].mission => Admitted("operator", u)
    BY Zenon DEF OperatorInv, AdmittedInv
  <2>2. \A w, k : Admitted(w, k)' = Admitted(w, k)
    BY DEF Admitted
  <2> QED BY <1>1, <2>1, <2>2 DEF AdmittedInv
<1> QED BY <1>2, <1>3, <1>4, <1>5, <1>6 DEF OperatorInv

\* Where the rows and the requests stay as they are.
LEMMA RowsStay ==
  ASSUME OperatorInv, UNCHANGED <<plan, updates, inbox, presses>>
  PROVE  /\ inbox' = [u \in UpdateIds |-> inbox'[u]] /\ presses' = [u \in UpdateIds |-> presses'[u]]
         /\ \A u \in UpdateIds : /\ inbox'[u] = [x \in RowFields |-> inbox'[u][x]]
                                /\ presses'[u] = [x \in PressFields |-> presses'[u][x]]
         /\ \A u \in UpdateIds : /\ Done(u) => Done(u)'
                                /\ inbox'[u].mission = inbox[u].mission
                                /\ presses'[u].disposition = presses[u].disposition
                                /\ presses'[u].pressed = presses[u].pressed
<1>1. /\ inbox' = [u \in UpdateIds |-> inbox'[u]] /\ presses' = [u \in UpdateIds |-> presses'[u]]
      /\ \A u \in UpdateIds : /\ inbox'[u] = [x \in RowFields |-> inbox'[u][x]]
                             /\ presses'[u] = [x \in PressFields |-> presses'[u][x]]
  BY Zenon DEF OperatorInv, ChannelShape
<1>2. \A u : Done(u) => Done(u)'
  BY DEF Done
<1> QED BY <1>1, <1>2, Zenon

LEMMA RequestsStay ==
  ASSUME OperatorInv, UNCHANGED <<flight, issued, admissions>>
  PROVE  issued' \in Nat /\ \A r \in flight' : Flown(r)'
BY DEF OperatorInv, AdmittedInv, Flown, Admitted

LEMMA ReplyKeeps ==
  ASSUME OperatorInv, PressReread \/ EnqueueReply
  PROVE  OperatorInv'
<1>1. UNCHANGED <<plan, flight, issued, admissions, approval, time, updates, offset, messages, inbox, presses>>
  BY DEF PressReread, EnqueueReply, doorVars, admissionVars, controlVars
<1>2. poll.batch # {} /\ Polled(poll)
  BY DEF PressReread, EnqueueReply, OperatorInv, PollShape, WorkerClock, Deciding
<1>3. PICK c : c = Current
  OBVIOUS
<1>4. c \in UpdateIds /\ c \in 1..Len(updates)
  BY <1>2, <1>3, CurrentIsOne DEF OperatorInv
<1>5. /\ Told(poll.disposition, updates[c].decision)
      /\ poll.disposition = "ADMITTED" => Admitted("operator", c)
  BY <1>3 DEF OperatorInv, TruthInv, AdmittedInv
<1>6. PICK o, a : /\ poll' = [poll EXCEPT !.at = "complete", !.disposition = o, !.answer = a]
                  /\ o = poll.disposition \/ o = PressOutcome(updates[c].decision)
  <2>1. CASE PressReread
    <3>1. poll' = [poll EXCEPT !.at = "complete", !.disposition = PressOutcome(updates[c].decision)]
      BY <1>3, <2>1 DEF PressReread
    <3>2. poll' = [poll EXCEPT !.at = "complete", !.disposition = PressOutcome(updates[c].decision), !.answer = poll.answer]
      BY <1>2, <3>1 DEF Polled, PollFields
    <3> QED BY <3>2
  <2>2. CASE EnqueueReply
    <3>1. poll' = [poll EXCEPT !.at = "complete", !.answer = "replied"]
      BY <2>2 DEF EnqueueReply
    <3>2. poll' = [poll EXCEPT !.at = "complete", !.disposition = poll.disposition, !.answer = "replied"]
      BY <1>2, <3>1 DEF Polled, PollFields
    <3> QED BY <3>2
  <2> QED BY <2>1, <2>2
<1>7. /\ Polled(poll') /\ poll'.at = "complete" /\ poll'.batch = poll.batch /\ poll'.last = poll.last
      /\ poll'.now = poll.now /\ poll'.disposition = o
  BY <1>2, <1>6 DEF Polled, PollFields
<1>8. poll'.at \in Deciding /\ poll'.at # "asked"
  BY <1>7 DEF Deciding
<1>9. updates[c].decision \in Decisions \cup {""}
  <2>1. updates[c] \in Update
    BY <1>4, Sizes, ElementOf
  <2> QED BY <2>1 DEF Update
<1>10. PICK d : d = updates[c].decision
  OBVIOUS
<1>11. o = PressOutcome(d) => /\ o = "RESOLVED" => approval.status = d
                             /\ o # "ADMITTED" /\ o # "EXPIRED"
  BY DEF PressOutcome
<1>12. Told(o, updates[c].decision)
  <2>1. CASE o = poll.disposition
    BY <1>5, <2>1
  <2>2. CASE o = PressOutcome(d)
    <3>1. o = "RESOLVED" => approval.status # "PENDING"
      BY <1>9, <1>10, <1>11, <2>2 DEF Decisions
    <3> QED BY <1>10, <1>11, <2>2, <3>1 DEF Told
  <2> QED BY <1>6, <1>10, <2>1, <2>2
<1>13. o = "ADMITTED" => Admitted("operator", c)
  BY <1>5, <1>6, <1>10, <1>11
<1>14. issued' \in Nat /\ \A r \in flight' : Flown(r)'
  BY <1>1, RequestsStay
<1> QED BY <1>1, <1>2, <1>3, <1>7, <1>8, <1>12, <1>13, <1>14, RowsStay, DecidingKeeps

\* The door's answer to the request of the update at hand, or its loss.
LEMMA AnswerKeeps ==
  ASSUME OperatorInv, DoorAnswers
  PROVE  OperatorInv'
<1>1. UNCHANGED <<plan, issued, admissions, approval, time, updates, offset, messages, inbox, presses>>
  BY DEF DoorAnswers, admissionVars, controlVars
<1>2. poll.batch # {} /\ Polled(poll) /\ poll.at = "asked"
  BY DEF DoorAnswers, OperatorInv, PollShape, WorkerClock, Deciding
<1>3. PICK c : c = Current
  OBVIOUS
<1>4. /\ Told(poll.disposition, updates[c].decision)
      /\ poll.disposition = "ADMITTED" => Admitted("operator", c)
      /\ issued \in Nat /\ \A q \in flight : Flown(q)
      /\ \A q \in flight : q.id = poll.request => Asked(q, c, updates[c].kind)
  BY <1>2, <1>3 DEF OperatorInv, TruthInv, AdmittedInv
<1>5. PICK r \in flight :
        /\ r.id = poll.request
        /\ \E code \in {r.answer, "lost"} :
             /\ flight' \subseteq flight \cup {[r EXCEPT !.waited = FALSE]}
             /\ poll' = IF r.op = "APPROVE"
                        THEN [poll EXCEPT !.at = "reread", !.answer = ApproveAnswer(code)]
                        ELSE [poll EXCEPT !.at = "reply",
                                 !.disposition = IF code = "202" THEN "ADMITTED" ELSE "ADMISSION_FAILED"]
  BY DEF DoorAnswers
<1>6. PICK code \in {r.answer, "lost"} :
             /\ flight' \subseteq flight \cup {[r EXCEPT !.waited = FALSE]}
             /\ poll' = IF r.op = "APPROVE"
                        THEN [poll EXCEPT !.at = "reread", !.answer = ApproveAnswer(code)]
                        ELSE [poll EXCEPT !.at = "reply",
                                 !.disposition = IF code = "202" THEN "ADMITTED" ELSE "ADMISSION_FAILED"]
  BY <1>5
<1>7. \A q \in flight' : Flown(q)'
  <2>1. \A q \in flight : Flown(q)'
    BY <1>1, <1>4 DEF Flown, Admitted
  <2> DEFINE e == [r EXCEPT !.waited = FALSE]
  <2>2. /\ e = [x \in RequestFields |-> e[x]] /\ e.at = r.at /\ e.answer = r.answer
        /\ e.id = r.id /\ e.op = r.op /\ e.who = r.who /\ e.key = r.key
    BY <1>4 DEF Flown, RequestFields
  <2>3. flight' \subseteq flight \cup {e}
    BY <1>6
  <2> HIDE DEF e
  <2>4. Flown(e)'
    BY <2>1, <2>2 DEF Flown
  <2> QED BY <2>1, <2>3, <2>4
<1>8. Flown(r) /\ Asked(r, c, updates[c].kind)
  BY <1>4, <1>5
<1>9. PICK o, a, at : /\ poll' = [poll EXCEPT !.at = at, !.disposition = o, !.answer = a]
                      /\ at \in {"reread", "reply"}
                      /\ o = poll.disposition \/ (o # "RESOLVED" /\ o # "EXPIRED" /\ (o = "ADMITTED" => Admitted("operator", c)))
  <2>1. CASE r.op = "APPROVE"
    <3>1. poll' = [poll EXCEPT !.at = "reread", !.answer = ApproveAnswer(code)]
      BY <1>6, <2>1
    <3>2. poll' = [poll EXCEPT !.at = "reread", !.disposition = poll.disposition, !.answer = ApproveAnswer(code)]
      BY <1>2, <3>1 DEF Polled, PollFields
    <3> QED BY <3>2
  <2>2. CASE r.op # "APPROVE"
    <3>1. PICK o : /\ o = IF code = "202" THEN "ADMITTED" ELSE "ADMISSION_FAILED"
                   /\ poll' = [poll EXCEPT !.at = "reply", !.disposition = o]
      BY <1>6, <2>2
    <3>2. poll' = [poll EXCEPT !.at = "reply", !.disposition = o, !.answer = poll.answer]
      BY <1>2, <3>1 DEF Polled, PollFields
    <3>3. code = "202" => r.answer = "202"
      OBVIOUS
    <3>4. r.op = "SUBMIT" /\ r.who = "operator" /\ r.key = c
      BY <1>8, <2>2 DEF Asked
    <3>5. o # "RESOLVED" /\ o # "EXPIRED" /\ (o = "ADMITTED" => Admitted("operator", c))
      BY <1>8, <3>1, <3>3, <3>4 DEF Flown
    <3> QED BY <3>2, <3>5
  <2> QED BY <2>1, <2>2
<1>10. /\ Polled(poll') /\ poll'.at = at /\ poll'.batch = poll.batch /\ poll'.last = poll.last
       /\ poll'.now = poll.now /\ poll'.disposition = o
  BY <1>2, <1>9 DEF Polled, PollFields
<1>11. poll'.at \in Deciding /\ poll'.at # "asked"
  BY <1>9, <1>10 DEF Deciding
<1>12. /\ Told(o, updates[c].decision)
       /\ o = "ADMITTED" => Admitted("operator", c)
  BY <1>4, <1>9 DEF Told
<1>13. issued' \in Nat
  BY <1>1, <1>4
<1> QED BY <1>1, <1>2, <1>3, <1>7, <1>10, <1>11, <1>12, <1>13, RowsStay, DecidingKeeps

LEMMA AskJoins ==
  ASSUME OperatorInv, NEW op, NEW key, NEW body, AskDoor(op, key, body),
         NEW c, NEW k, (op = "APPROVE" /\ k \in Presses) \/ (op = "SUBMIT" /\ key = c /\ k \in CommandKinds)
  PROVE  /\ UNCHANGED <<plan, admissions, approval, time>>
         /\ issued' = issued + 1 /\ issued + 1 \in Nat /\ issued' \in Nat
         /\ \A r \in flight' : Flown(r)' /\ (r.id = issued + 1 => Asked(r, c, k))
<1> DEFINE n == NewRequest([who |-> "operator", op |-> op, key |-> key, body |-> body])
<1>1. PICK e : /\ e = n /\ issued' = issued + 1 /\ flight' = flight \cup {e}
               /\ UNCHANGED <<plan, approval, time, admissions>>
  BY DEF AskDoor, controlVars, admissionVars
<1>2. issued \in Nat /\ \A q \in flight : Flown(q)
  BY DEF OperatorInv, AdmittedInv
<1>3. /\ n = [x \in RequestFields |-> n[x]] /\ n.id = issued + 1 /\ n.at = "received" /\ n.answer = ""
      /\ n.op = op /\ n.who = "operator" /\ n.key = key
  BY DEF NewRequest, RequestFields
<1> HIDE DEF n
<1>4. /\ e = [x \in RequestFields |-> e[x]] /\ e.id = issued + 1 /\ e.at = "received" /\ e.answer = ""
      /\ e.op = op /\ e.who = "operator" /\ e.key = key
  BY <1>1, <1>3
<1>5. Flown(e)' /\ Asked(e, c, k)
  <2>0. issued' = issued + 1 /\ issued \in Nat /\ e.id = issued + 1
    BY <1>1, <1>2, <1>4, Zenon
  <2>1. e.id \in Nat /\ e.id <= issued'
    BY <2>0
  <2>2. e.at # "sent" /\ e.at # "admitted" /\ e.answer # "202"
    BY <1>4
  <2>3. Asked(e, c, k)
    BY <1>4 DEF Asked
  <2> QED BY <1>4, <2>1, <2>2, <2>3, Zenon DEF Flown
<1>6. \A q \in flight : Flown(q)' /\ q.id # issued + 1
  <2> SUFFICES ASSUME NEW q \in flight PROVE Flown(q)' /\ q.id # issued + 1
    OBVIOUS
  <2>1. Flown(q) /\ (Admitted(q.who, q.key) => Admitted(q.who, q.key)')
    BY <1>1, <1>2 DEF Admitted
  <2> QED BY <1>1, <1>2, <2>1 DEF Flown
<1>7. issued + 1 \in Nat
  BY <1>2
<1> QED BY <1>1, <1>5, <1>6, <1>7

LEMMA PressKeeps ==
  ASSUME OperatorInv, HandlePress, ~Claimed(presses, Current)
  PROVE  OperatorInv'
<1>1. UNCHANGED <<updates, offset, messages, inbox>>
  BY DEF HandlePress
<1>2. poll.batch # {} /\ Polled(poll) /\ poll.at = "handle"
  BY DEF HandlePress, Handling, OperatorInv, PollShape, WorkerClock
<1>3. PICK c : c = Current
  OBVIOUS
<1>4. c \in UpdateIds /\ poll.disposition = "" /\ updates[c].kind \in {"PRESS", "STRANGE PRESS"}
  BY <1>2, <1>3, CurrentIsOne DEF OperatorInv, PollShape, WorkerClock, Deciding, HandlePress, Handling
<1>5. presses[c].state # "DONE" /\ presses' = [presses EXCEPT ![c].state = "RECEIVED"]
  BY <1>3 DEF HandlePress, Claimed
<1>6. PICK v : v = PressVerdict(updates[c])
  OBVIOUS
<1>7. \/ v # "" /\ UNCHANGED doorVars /\ poll' = [poll EXCEPT !.at = "complete", !.disposition = v]
      \/ AskDoor("APPROVE", 0, updates[c].decision) /\ poll' = [poll EXCEPT !.at = "asked", !.request = issued + 1]
  BY <1>3, <1>5, <1>6 DEF HandlePress, Claimed
<1>8. v \notin {"RESOLVED", "ADMITTED"}
  BY <1>6 DEF PressVerdict
<1>15. v = "EXPIRED" => WorkerClock >= ApprovalTtl
  BY <1>6, Zenon DEF PressVerdict
<1>16. v = "EXPIRED" => approval.status = "PENDING"
  BY <1>6, Zenon DEF PressVerdict
<1>14. Told(v, updates[c].decision)
  <2>1. v = "EXPIRED" /\ plan.worker <= plan.db => DbClock >= ApprovalTtl
    BY <1>15, DoorConstants DEF OperatorInv, ChannelShape, WorkerClock, DbClock
  <2> QED BY <1>8, <1>16, <2>1 DEF Told, Holds, Decisions
<1>9. /\ presses' = [u \in UpdateIds |-> presses'[u]]
      /\ \A u \in UpdateIds : presses'[u] = [x \in PressFields |-> presses'[u][x]]
      /\ \A u \in UpdateIds : /\ presses'[u].disposition = presses[u].disposition
                             /\ presses'[u].pressed = presses[u].pressed
      /\ \A u \in UpdateIds \ {c} : presses'[u] = presses[u]
  <2>1. /\ presses = [u \in UpdateIds |-> presses[u]]
        /\ \A u \in UpdateIds : presses[u] = [x \in PressFields |-> presses[u][x]]
    BY Zenon DEF OperatorInv, ChannelShape
  <2>2. presses' = [u \in UpdateIds |-> presses'[u]] /\ \A u \in UpdateIds \ {c} : presses'[u] = presses[u]
    BY <1>4, <1>5, <2>1
  <2>3. /\ presses'[c] = [x \in PressFields |-> presses'[c][x]]
        /\ presses'[c].disposition = presses[c].disposition /\ presses'[c].pressed = presses[c].pressed
    BY <1>4, <1>5, <2>1 DEF PressFields
  <2>4. ASSUME NEW u \in UpdateIds
        PROVE  /\ presses'[u] = [x \in PressFields |-> presses'[u][x]]
               /\ presses'[u].disposition = presses[u].disposition /\ presses'[u].pressed = presses[u].pressed
    <3>1. CASE u = c
      BY <2>3, <3>1, Zenon
    <3>2. CASE u # c
      <4>1. presses'[u] = presses[u] /\ presses[u] = [x \in PressFields |-> presses[u][x]]
        BY <2>1, <2>2, <3>2
      <4> QED BY <4>1, Zenon
    <3> QED BY <3>1, <3>2
  <2> QED BY <2>2, <2>4
<1>10. \A u \in UpdateIds : Done(u) => Done(u)'
  BY <1>1, <1>4, <1>5, <1>9 DEF Done
<1>11. /\ inbox' = [u \in UpdateIds |-> inbox'[u]] /\ \A u \in UpdateIds : inbox'[u] = [x \in RowFields |-> inbox'[u][x]]
       /\ \A u \in UpdateIds : inbox'[u].mission = inbox[u].mission
  BY <1>1, Zenon DEF OperatorInv, ChannelShape
<1>12. CASE v # "" /\ UNCHANGED doorVars /\ poll' = [poll EXCEPT !.at = "complete", !.disposition = v]
  <2>1. UNCHANGED <<plan, flight, issued, admissions, approval, time>>
    BY <1>12 DEF doorVars, admissionVars, controlVars
  <2>2. /\ Polled(poll') /\ poll'.at = "complete" /\ poll'.batch = poll.batch /\ poll'.last = poll.last
        /\ poll'.now = poll.now /\ poll'.disposition = v
    BY <1>2, <1>12 DEF Polled, PollFields
  <2>3. poll'.at \in Deciding /\ poll'.at # "asked" /\ poll'.disposition # "ADMITTED"
    BY <1>8, <2>2 DEF Deciding
  <2>5. Told(poll'.disposition, updates[c].decision)
    BY <1>14, <2>2
  <2>4. issued' \in Nat /\ \A r \in flight' : Flown(r)'
    BY <2>1, RequestsStay
  <2> QED BY <1>1, <1>2, <1>3, <1>9, <1>10, <1>11, <2>1, <2>2, <2>3, <2>4, <2>5, DecidingKeeps
<1>13. CASE AskDoor("APPROVE", 0, updates[c].decision) /\ poll' = [poll EXCEPT !.at = "asked", !.request = issued + 1]
  <2>1. /\ UNCHANGED <<plan, admissions, approval, time>>
        /\ issued' = issued + 1 /\ issued + 1 \in Nat /\ issued' \in Nat
        /\ \A r \in flight' : Flown(r)' /\ (r.id = issued + 1 => Asked(r, c, updates[c].kind))
    <3>1. PICK b : b = updates[c].decision
      OBVIOUS
    <3>2. AskDoor("APPROVE", 0, b)
      BY <1>13, <3>1
    <3>3. PICK k : k = updates[c].kind
      OBVIOUS
    <3>4. k \in Presses
      BY <1>4, <3>3 DEF Presses
    <3> QED BY <3>2, <3>3, <3>4, AskJoins
  <2>2. /\ Polled(poll') /\ poll'.at = "asked" /\ poll'.batch = poll.batch /\ poll'.last = poll.last
        /\ poll'.now = poll.now /\ poll'.disposition = "" /\ poll'.request = issued + 1
    BY <1>2, <1>4, <1>13 DEF Polled, PollFields
  <2>3. poll'.at \in Deciding
    BY <2>2 DEF Deciding
  <2>5. Told(poll'.disposition, updates[c].decision)
    BY <2>2, Zenon DEF Told
  <2>4. poll'.request \in Nat /\ poll'.request <= issued' /\ \A r \in flight' : r.id = poll'.request => Asked(r, c, updates[c].kind)
    <3>1. poll'.request = issued' /\ issued' \in Nat
      BY <2>1, <2>2, Zenon
    <3>2. \A r \in flight' : r.id = poll'.request => Asked(r, c, updates[c].kind)
      BY <2>1, <2>2, Zenon
    <3> QED BY <3>1, <3>2
  <2> QED BY <1>1, <1>2, <1>3, <1>9, <1>10, <1>11, <2>1, <2>2, <2>3, <2>4, <2>5, DecidingKeeps
<1> QED BY <1>7, <1>12, <1>13

LEMMA CommandKeeps ==
  ASSUME OperatorInv, HandleCommand, ~Claimed(inbox, Current)
  PROVE  OperatorInv'
<1>1. UNCHANGED <<updates, offset, messages, presses>>
  BY DEF HandleCommand
<1>2. poll.batch # {} /\ Polled(poll) /\ poll.at = "handle"
  BY DEF HandleCommand, Handling, OperatorInv, PollShape, WorkerClock
<1>3. PICK c : c = Current
  OBVIOUS
<1>4. c \in UpdateIds /\ poll.disposition = "" /\ updates[c].kind \in CommandKinds
  BY <1>2, <1>3, CurrentIsOne DEF OperatorInv, PollShape, WorkerClock, Deciding, HandleCommand, Handling
<1>5. /\ inbox[c].state # "DONE"
      /\ inbox' = IF inbox[c].state = "none" THEN [inbox EXCEPT ![c].state = "RECEIVED", ![c].at = WorkerClock] ELSE inbox
  BY <1>3 DEF HandleCommand, Claimed
<1>6. PICK v : v = CommandVerdict(c)
  OBVIOUS
<1>7. \/ v # "" /\ UNCHANGED doorVars /\ \E at \in {"complete", "reply"} : poll' = [poll EXCEPT !.disposition = v, !.at = at]
      \/ AskDoor("SUBMIT", c, "mission") /\ poll' = [poll EXCEPT !.at = "asked", !.request = issued + 1]
  BY <1>3, <1>5, <1>6 DEF HandleCommand, Claimed
<1>8. v \notin {"RESOLVED", "ADMITTED", "EXPIRED"}
  BY <1>6 DEF CommandVerdict
<1>9. /\ inbox' = [u \in UpdateIds |-> inbox'[u]]
      /\ \A u \in UpdateIds : inbox'[u] = [x \in RowFields |-> inbox'[u][x]]
      /\ \A u \in UpdateIds : inbox'[u].mission = inbox[u].mission
      /\ \A u \in UpdateIds \ {c} : inbox'[u] = inbox[u]
  <2>1. /\ inbox = [u \in UpdateIds |-> inbox[u]]
        /\ \A u \in UpdateIds : inbox[u] = [x \in RowFields |-> inbox[u][x]]
    BY Zenon DEF OperatorInv, ChannelShape
  <2>2. CASE inbox' = inbox
    BY <2>1, <2>2, Zenon
  <2>3. CASE inbox' = [inbox EXCEPT ![c].state = "RECEIVED", ![c].at = WorkerClock]
    <3>1. inbox' = [u \in UpdateIds |-> inbox'[u]] /\ \A u \in UpdateIds \ {c} : inbox'[u] = inbox[u]
      BY <1>4, <2>1, <2>3
    <3>2. inbox'[c] = [x \in RowFields |-> inbox'[c][x]] /\ inbox'[c].mission = inbox[c].mission
      BY <1>4, <2>1, <2>3 DEF RowFields
    <3>3. ASSUME NEW u \in UpdateIds
          PROVE  inbox'[u] = [x \in RowFields |-> inbox'[u][x]] /\ inbox'[u].mission = inbox[u].mission
      <4>1. CASE u = c
        BY <3>2, <4>1, Zenon
      <4>2. CASE u # c
        <5>1. inbox'[u] = inbox[u] /\ inbox[u] = [x \in RowFields |-> inbox[u][x]]
          BY <2>1, <3>1, <4>2
        <5> QED BY <5>1, Zenon
      <4> QED BY <4>1, <4>2
    <3> QED BY <3>1, <3>3
  <2> QED BY <1>5, <2>2, <2>3
<1>10. \A u \in UpdateIds : Done(u) => Done(u)'
  BY <1>1, <1>4, <1>5, <1>9 DEF Done
<1>11. /\ presses' = [u \in UpdateIds |-> presses'[u]]
       /\ \A u \in UpdateIds : /\ presses'[u] = [x \in PressFields |-> presses'[u][x]]
                              /\ presses'[u].disposition = presses[u].disposition
                              /\ presses'[u].pressed = presses[u].pressed
  BY <1>1, Zenon DEF OperatorInv, ChannelShape
<1>12. CASE v # "" /\ UNCHANGED doorVars /\ \E at \in {"complete", "reply"} : poll' = [poll EXCEPT !.disposition = v, !.at = at]
  <2>1. UNCHANGED <<plan, flight, issued, admissions, approval, time>>
    BY <1>12 DEF doorVars, admissionVars, controlVars
  <2>2. /\ Polled(poll') /\ poll'.at \in {"complete", "reply"} /\ poll'.batch = poll.batch /\ poll'.last = poll.last
        /\ poll'.now = poll.now /\ poll'.disposition = v
    BY <1>2, <1>12 DEF Polled, PollFields
  <2>3. poll'.at \in Deciding /\ poll'.at # "asked" /\ poll'.disposition # "ADMITTED"
    BY <1>8, <2>2 DEF Deciding
  <2>5. Told(poll'.disposition, updates[c].decision)
    BY <1>8, <2>2 DEF Told
  <2>4. issued' \in Nat /\ \A r \in flight' : Flown(r)'
    BY <2>1, RequestsStay
  <2> QED BY <1>1, <1>2, <1>3, <1>9, <1>10, <1>11, <2>1, <2>2, <2>3, <2>4, <2>5, DecidingKeeps
<1>13. CASE AskDoor("SUBMIT", c, "mission") /\ poll' = [poll EXCEPT !.at = "asked", !.request = issued + 1]
  <2>1. /\ UNCHANGED <<plan, admissions, approval, time>>
        /\ issued' = issued + 1 /\ issued + 1 \in Nat /\ issued' \in Nat
        /\ \A r \in flight' : Flown(r)' /\ (r.id = issued + 1 => Asked(r, c, updates[c].kind))
    <3>1. PICK k : k = updates[c].kind
      OBVIOUS
    <3> QED BY <1>4, <1>13, <3>1, AskJoins
  <2>2. /\ Polled(poll') /\ poll'.at = "asked" /\ poll'.batch = poll.batch /\ poll'.last = poll.last
        /\ poll'.now = poll.now /\ poll'.disposition = "" /\ poll'.request = issued + 1
    BY <1>2, <1>4, <1>13 DEF Polled, PollFields
  <2>3. poll'.at \in Deciding
    BY <2>2 DEF Deciding
  <2>5. Told(poll'.disposition, updates[c].decision)
    BY <2>2, Zenon DEF Told
  <2>4. poll'.request \in Nat /\ poll'.request <= issued' /\ \A r \in flight' : r.id = poll'.request => Asked(r, c, updates[c].kind)
    <3>1. poll'.request = issued' /\ issued' \in Nat
      BY <2>1, <2>2, Zenon
    <3>2. \A r \in flight' : r.id = poll'.request => Asked(r, c, updates[c].kind)
      BY <2>1, <2>2, Zenon
    <3> QED BY <3>1, <3>2
  <2> QED BY <1>1, <1>2, <1>3, <1>9, <1>10, <1>11, <2>1, <2>2, <2>3, <2>4, <2>5, DecidingKeeps
<1> QED BY <1>7, <1>12, <1>13

-----------------------------------------------------------------------------
(* The theorems. *)

LEMMA EmptySequence == \A S : <<>> \in Seq(S) /\ Len(<<>>) = 0 /\ DOMAIN <<>> = {}
OBVIOUS

LEMMA OperatorStarts ==
  ASSUME OperatorInit
  PROVE  OperatorInv
<1>0. /\ plan \in Plans /\ flight = {} /\ issued = 0 /\ time = 0
      /\ updates = <<>> /\ messages = <<>> /\ offset = 1 /\ poll = Resting
      /\ inbox = [u \in UpdateIds |-> NoRow] /\ presses = [u \in UpdateIds |-> NoPress]
  BY DEF OperatorInit, DoorInit
<1>1. Len(plan.script) \in Nat
  BY <1>0, OperatorConstants
<1>2. updates \in Seq(Update) /\ Len(updates) = 0 /\ messages \in Seq({}) /\ DOMAIN messages = {}
  BY <1>0, EmptySequence, Zenon
<1>3. /\ Polled(poll) /\ poll.at = "idle" /\ poll.batch = {} /\ poll.last = 0 /\ poll.now = 0
      /\ poll.disposition = ""
  BY <1>0, RestingPoll, Zenon
<1>4. PollShape
  <2>1. poll.at \notin Deciding
    BY <1>3 DEF Deciding
  <2>2. poll.last \in 0..Len(updates) /\ poll.now \in 0..WorkerClock
    <3>1. poll.last = 0 /\ Len(updates) = 0 /\ poll.now = 0 /\ time = 0 /\ plan \in Plans
      BY <1>0, <1>2, <1>3, Zenon
    <3> QED BY <3>1, DoorConstants DEF WorkerClock
  <2> QED BY <1>3, <2>1, <2>2 DEF PollShape, WorkerClock
<1>5. \A u \in UpdateIds : inbox[u] = NoRow /\ presses[u] = NoPress
  BY <1>0
<1>6. ChannelShape
  <2>1. NoRow = [x \in RowFields |-> NoRow[x]] /\ NoPress = [x \in PressFields |-> NoPress[x]]
    BY DEF NoRow, NoPress, RowFields, PressFields
  <2>2. inbox = [u \in UpdateIds |-> inbox[u]] /\ presses = [u \in UpdateIds |-> presses[u]]
    BY <1>0
  <2>3. \A u \in UpdateIds : /\ inbox[u] = [x \in RowFields |-> inbox[u][x]]
                            /\ presses[u] = [x \in PressFields |-> presses[u][x]]
    BY <1>5, <2>1, Zenon
  <2>4. Len(updates) <= Len(plan.script) /\ time \in Nat
    BY <1>0, <1>1, <1>2
  <2> QED BY <1>0, <1>2, <2>2, <2>3, <2>4, Zenon DEF ChannelShape
<1>7. TruthInv
  <2>1. \A u \in UpdateIds : Told(presses[u].disposition, presses[u].pressed)
    <3>1. NoPress.disposition = ""
      BY DEF NoPress
    <3> QED BY <1>5, <3>1, Zenon DEF Told
  <2>2. Told(poll.disposition, updates[Current].decision)
    BY <1>3, Zenon DEF Told
  <2> QED BY <1>2, <1>3, <2>1, <2>2, Zenon DEF TruthInv
<1>8. OffsetInv
  <2>1. \A u \in UpdateIds : ~(u < offset) /\ ~(u <= poll.last)
    <3>1. offset = 1 /\ poll.last = 0
      BY <1>0, <1>3, Zenon
    <3> QED BY <1>1, <3>1 DEF UpdateIds
  <2>2. offset \in Nat \ {0} /\ offset <= Len(updates) + 1
    <3>1. offset = 1 /\ Len(updates) = 0
      BY <1>0, <1>2, Zenon
    <3> QED BY <3>1
  <2> QED BY <2>1, <2>2, Zenon DEF OffsetInv
<1>9. AdmittedInv
  <2>1. NoRow.mission = FALSE
    BY DEF NoRow
  <2>2. \A u \in UpdateIds : ~inbox[u].mission
    BY <1>5, <2>1, Zenon
  <2> QED BY <1>0, <1>3, <2>2 DEF AdmittedInv
<1> QED BY <1>4, <1>6, <1>7, <1>8, <1>9 DEF OperatorInv

LEMMA OperatorSteps ==
  ASSUME OperatorInv, [OperatorNext]_operatorVars
  PROVE  OperatorInv'
<1>1. CASE PollerStep
  BY <1>1, StartKeeps, SendKeeps, ListKeeps, CloseKeeps, FetchKeeps, SkipKeeps, PressKeeps, CommandKeeps,
     ReplyKeeps, AnswerKeeps, PressDone, CommandDone, AcknowledgeKeeps DEF PollerStep
<1>2. CASE PollerDies
  BY <1>2, DeathKeeps
<1>3. CASE SendUpdate
  BY <1>3, UpdateKeeps
<1>4. CASE (DoorStep \/ WorkerStep \/ Elapse) /\ UNCHANGED channelVars
  BY <1>4, OthersKeep
<1>5. CASE UNCHANGED operatorVars
  <2>1. UNCHANGED <<plan, flight, issued, admissions, approval, time, updates, messages, offset, inbox, presses, poll>>
    BY <1>5 DEF operatorVars, doorVars, admissionVars, controlVars, channelVars
  <2>2. UNCHANGED channelVars
    BY <1>5 DEF operatorVars
  <2>3. time \in Nat /\ issued \in Nat
    BY DEF OperatorInv, ChannelShape, AdmittedInv
  <2>4. \A q \in flight : Flown(q)'
    BY <2>1, RequestsStay
  <2>5. AdmittedInv'
    BY <2>1, <2>2, <2>3, <2>4, FlightMoves
  <2> QED BY <2>1, <2>2, <2>3, <2>5, LedgerMoves DEF OperatorInv, DecisionKept
<1> QED BY <1>1, <1>2, <1>3, <1>4, <1>5 DEF OperatorNext

\* Whatever the operator sends, whoever else talks to the door and whenever
\* the poller, the door or a worker dies: a press reported as RESOLVED is the
\* decision in force, a closed card shows that decision, and a card closed as
\* expired is never followed by a grant.
THEOREM OperatorIsToldTruth == OperatorSpec => []OperatorToldTruth
<1>1. OperatorInit => OperatorInv
  BY OperatorStarts
<1>2. OperatorInv /\ [OperatorNext]_operatorVars => OperatorInv'
  BY OperatorSteps
<1>3. OperatorInv => OperatorToldTruth
  BY InvTells
<1> QED BY <1>1, <1>2, <1>3, PTL DEF OperatorSpec

\* The offset is moved past an update only when the update's row says DONE,
\* and a mission the inbox counts was admitted by the door under its key.
THEOREM OperatorOffsetCovers == OperatorSpec => []OffsetCoversHandled
<1>1. OperatorInit => OperatorInv
  BY OperatorStarts
<1>2. OperatorInv /\ [OperatorNext]_operatorVars => OperatorInv'
  BY OperatorSteps
<1>3. OperatorInv => OffsetCoversHandled
  BY InvTells
<1> QED BY <1>1, <1>2, <1>3, PTL DEF OperatorSpec

-----------------------------------------------------------------------------
(***************************************************************************)
(* Types.  They are not a matter of course: the approvals row takes its    *)
(* status from the body of a request, a closed card its text from that     *)
(* row, and an inbox row its disposition from a poll that may have been    *)
(* answered about something else.                                          *)
(***************************************************************************)

\* What the workflow is asked to decide is a decision.
Bodied(r) == r.op = "APPROVE" => r.body \in Decisions
Invoked(i) == i.op # "SUBMIT" /\ (i.op = "APPROVE" => i.body \in Decisions)
BodiesInv == (\A r \in flight : Bodied(r)) /\ (\A i \in invocations : Invoked(i))
DoorInv == DoorTypeOK /\ BodiesInv

LEMMA FaultTyped ==
  ASSUME DoorTypeOK, plan' = plan, faults' = faults \/ Fault
  PROVE  faults' \in 0..plan.faults
<1>1. faults \in 0..plan.faults /\ plan.faults \in Nat
  BY DoorConstants DEF DoorTypeOK
<1> QED BY <1>1 DEF Fault

LEMMA AnsweredTyped ==
  ASSUME flight \subseteq Request, \A r \in flight : Bodied(r), NEW r \in flight, NEW code \in Answers,
         flight' = Answered(r, code)
  PROVE  flight' \subseteq Request /\ \A q \in flight' : Bodied(q)
<1> DEFINE e == [r EXCEPT !.at = "answered", !.answer = code]
<1>1. e \in Request /\ e.op = r.op /\ e.body = r.body
  BY DEF Request
<1>2. flight' \subseteq flight \cup {e}
  BY DEF Answered
<1> HIDE DEF e
<1> QED BY <1>1, <1>2 DEF Bodied

LEMMA MovedTyped ==
  ASSUME flight \subseteq Request, \A r \in flight : Bodied(r), NEW r \in flight,
         NEW at \in {"received", "admitted", "sent", "answered"}, flight' = Moved(r, at)
  PROVE  flight' \subseteq Request /\ \A q \in flight' : Bodied(q)
<1> DEFINE e == [r EXCEPT !.at = at]
<1>1. e \in Request /\ e.op = r.op /\ e.body = r.body
  BY DEF Request
<1>2. flight' \subseteq flight \cup {e}
  BY DEF Moved
<1> HIDE DEF e
<1> QED BY <1>1, <1>2 DEF Bodied

\* The requests move, and the rest of the door stays or is typed.
LEMMA RequestsTyped ==
  ASSUME DoorInv, UNCHANGED <<plan, controlVars, time>>,
         others' \subseteq others, issued' \in Nat, faults' = faults \/ Fault,
         flight' \subseteq Request, \A r \in flight' : Bodied(r),
         admissions' \subseteq [who : Principals, key : Nat, body : Bodies],
         \A t \in DOMAIN dispatches' : dispatches'[t] \in {"ACCEPTED", "UNRESOLVED"},
         started' \subseteq Principals \X Nat
  PROVE  DoorInv'
<1>1. faults' \in 0..plan.faults
  BY FaultTyped DEF DoorInv
<1>2. UNCHANGED <<invocations, assertions, approval, gate>>
  BY DEF controlVars
<1>3. BodiesInv'
  BY <1>2 DEF DoorInv, BodiesInv
<1>4. /\ plan \in Plans /\ others' \subseteq plan.others /\ invocations \subseteq Invocation
      /\ assertions \subseteq [nonce : Nat, at : Nat]
      /\ approval \in [status : ApprovalStatuses, reason : Reasons]
      /\ gate \in {"COMPILED", "APPROVAL_REQUIRED", "READY"} \cup Terminal
      /\ time \in 0..plan.time
  BY DEF DoorInv, DoorTypeOK
<1> QED BY <1>1, <1>2, <1>3, <1>4, Zenon DEF DoorInv, DoorTypeOK

LEMMA DoorStepTyped ==
  ASSUME DoorInv, NEW r \in flight,
         DoorAdmit(r) \/ DoorDispatch(r) \/ DoorControl(r) \/ DoorRelay(r) \/ DoorTimeout(r) \/ DoorDies(r)
  PROVE  DoorInv'
<1>0. /\ flight \subseteq Request /\ issued \in Nat /\ admissions \subseteq [who : Principals, key : Nat, body : Bodies]
      /\ \A t \in DOMAIN dispatches : dispatches[t] \in {"ACCEPTED", "UNRESOLVED"}
      /\ started \subseteq Principals \X Nat
  BY DEF DoorInv, DoorTypeOK
<1>1. \A q \in flight : Bodied(q)
  BY DEF DoorInv, BodiesInv
<1>2. r \in Request /\ TaskOf(r) \in Principals \X Nat
  BY <1>0 DEF Request, TaskOf
<1>3. \A code \in Answers : flight' = Answered(r, code) => flight' \subseteq Request /\ \A q \in flight' : Bodied(q)
  BY <1>0, <1>1, AnsweredTyped
<1>4. \A at \in {"admitted", "sent"} : flight' = Moved(r, at) => flight' \subseteq Request /\ \A q \in flight' : Bodied(q)
  BY <1>0, <1>1, MovedTyped
<1>5. {"202", "200", "403", "409", "503", "lost"} \subseteq Answers
  BY Zenon DEF Answers
<1>6. CASE DoorAdmit(r)
  <2>1. /\ UNCHANGED <<plan, controlVars, time, others, issued, faults, dispatches, started>>
        /\ \/ admissions' = admissions /\ (flight' = Answered(r, "403") \/ flight' = Answered(r, "409"))
           \/ /\ admissions' = admissions \cup {[who |-> r.who, key |-> r.key, body |-> r.body]}
              /\ flight' = Moved(r, "admitted")
    BY <1>6 DEF DoorAdmit
  <2>2. [who |-> r.who, key |-> r.key, body |-> r.body] \in [who : Principals, key : Nat, body : Bodies]
    BY <1>2 DEF Request
  <2>3. admissions' \subseteq [who : Principals, key : Nat, body : Bodies]
    BY <1>0, <2>1, <2>2
  <2>4. flight' \subseteq Request /\ \A q \in flight' : Bodied(q)
    BY <1>3, <1>4, <1>5, <2>1
  <2> QED BY <1>0, <2>1, <2>3, <2>4, RequestsTyped
<1>7. CASE DoorDispatch(r)
  <2>1. /\ UNCHANGED <<plan, controlVars, time, others, issued, admissions>>
        /\ faults' = faults \/ Fault
        /\ flight' = Answered(r, "202")
        /\ started' \in {started, started \cup {TaskOf(r)}}
        /\ \E st \in {"ACCEPTED", "UNRESOLVED"} :
              dispatches' = [t \in DOMAIN dispatches \cup {TaskOf(r)} |-> IF t = TaskOf(r) THEN st ELSE dispatches[t]]
    BY <1>7 DEF DoorDispatch
  <2>2. \A t \in DOMAIN dispatches' : dispatches'[t] \in {"ACCEPTED", "UNRESOLVED"}
    BY <1>0, <2>1
  <2>3. started' \subseteq Principals \X Nat
    BY <1>0, <1>2, <2>1
  <2>4. flight' \subseteq Request /\ \A q \in flight' : Bodied(q)
    BY <1>3, <1>5, <2>1
  <2> QED BY <1>0, <2>1, <2>2, <2>3, <2>4, RequestsTyped
<1>8. CASE DoorControl(r)
  <2>1. /\ UNCHANGED <<plan, admissions, dispatches, started, time, others, issued, assertions, approval, gate>>
        /\ faults' = faults \/ Fault
        /\ r.op # "SUBMIT"
        /\ \/ /\ invocations' = invocations
              /\ flight' = Answered(r, "503") \/ (ControlRefusal(r) # "" /\ flight' = Answered(r, ControlRefusal(r)))
           \/ /\ invocations' = invocations \cup {Signed(r)}
              /\ flight' = Moved(r, "sent")
    BY <1>8 DEF DoorControl, admissionVars
  <2>2. ControlRefusal(r) \in {"200", "403", "409", ""}
    BY DEF ControlRefusal
  <2>3. flight' \subseteq Request /\ \A q \in flight' : Bodied(q)
    BY <1>3, <1>4, <1>5, <2>1, <2>2
  <2>4. CASE invocations' = invocations
    <3>1. UNCHANGED controlVars
      BY <2>1, <2>4 DEF controlVars
    <3> QED BY <1>0, <2>1, <2>3, <3>1, RequestsTyped
  <2>5. CASE invocations' = invocations \cup {Signed(r)}
    <3>0. DoorClock \in Nat
      BY DoorConstants DEF DoorInv, DoorTypeOK, DoorClock
    <3>1. Signed(r) \in Invocation /\ Invoked(Signed(r))
      <4>1. r.op # "SUBMIT"
        BY <2>1, Zenon
      <4> QED BY <1>1, <1>2, <3>0, <4>1 DEF Signed, Invocation, Invoked, Bodied, Request
    <3>2. invocations' \subseteq Invocation /\ \A i \in invocations' : Invoked(i)
      BY <2>5, <3>1 DEF DoorInv, BodiesInv, DoorTypeOK
    <3>3. faults' \in 0..plan.faults
      BY <2>1, FaultTyped DEF DoorInv
    <3> QED BY <2>1, <2>3, <3>2, <3>3 DEF DoorInv, BodiesInv, DoorTypeOK
  <2> QED BY <2>1, <2>4, <2>5
<1>9. CASE DoorRelay(r) \/ DoorTimeout(r) \/ DoorDies(r)
  <2>1. /\ UNCHANGED <<plan, controlVars, time, others, issued, admissions, dispatches>>
        /\ faults' = faults \/ Fault
        /\ started' \in {started, started \cup {TaskOf(r)}}
        /\ \E code \in {"202", "200", "409", "503", "lost"} : flight' = Answered(r, code)
    BY <1>9 DEF DoorRelay, DoorTimeout, DoorDies, admissionVars
  <2>2. flight' \subseteq Request /\ \A q \in flight' : Bodied(q)
    BY <1>3, <1>5, <2>1
  <2>3. started' \subseteq Principals \X Nat
    BY <1>0, <1>2, <2>1
  <2> QED BY <1>0, <2>1, <2>2, <2>3, RequestsTyped
<1> QED BY <1>6, <1>7, <1>8, <1>9

LEMMA ClientTyped ==
  ASSUME DoorInv, NEW c \in others, OtherClient(c)
  PROVE  DoorInv'
<1>0. /\ flight \subseteq Request /\ issued \in Nat /\ admissions \subseteq [who : Principals, key : Nat, body : Bodies]
      /\ \A t \in DOMAIN dispatches : dispatches[t] \in {"ACCEPTED", "UNRESOLVED"}
      /\ started \subseteq Principals \X Nat
  BY DEF DoorInv, DoorTypeOK
<1>1. c \in Call /\ (c.op = "APPROVE" => c.body \in Decisions)
  BY PlanCalls DEF DoorInv, DoorTypeOK
<1> DEFINE n == NewRequest(c)
           e == [n EXCEPT !.waited = FALSE]
<1>2. n \in Request /\ n.op = c.op /\ n.body = c.body
  <2>1. PICK blank \in Answers :
          n = [id |-> issued + 1, who |-> c.who, op |-> c.op, key |-> c.key, body |-> c.body,
               waited |-> TRUE, at |-> "received", answer |-> blank]
    BY Zenon DEF NewRequest, Answers
  <2> HIDE DEF n
  <2> QED BY <1>0, <1>1, <2>1 DEF Request, Call
<1> HIDE DEF n
<1>3. e \in Request /\ e.op = c.op /\ e.body = c.body
  BY <1>2 DEF Request
<1>4. /\ UNCHANGED <<plan, controlVars, time, admissions, dispatches, started, faults>>
      /\ others' \subseteq others /\ issued' = issued + 1 /\ flight' = flight \cup {e}
  BY DEF OtherClient, admissionVars, n
<1> HIDE DEF e
<1>5. flight' \subseteq Request /\ \A q \in flight' : Bodied(q)
  BY <1>0, <1>1, <1>3, <1>4 DEF DoorInv, BodiesInv, Bodied
<1> QED BY <1>0, <1>4, <1>5, RequestsTyped

LEMMA ProgressTyped ==
  ASSUME DoorInv, NEW i \in invocations, NEW at \in {"new", "authentic", "done", "ended", "refused"}, Progress(i, at)
  PROVE  invocations' \subseteq Invocation /\ \A j \in invocations' : Invoked(j)
<1> DEFINE e == [i EXCEPT !.at = at]
<1>1. e \in Invocation /\ e.op = i.op /\ e.body = i.body
  BY DEF Invocation, DoorInv, DoorTypeOK
<1>2. invocations' \subseteq invocations \cup {e}
  BY DEF Progress
<1> HIDE DEF e
<1> QED BY <1>1, <1>2 DEF Invoked, DoorInv, BodiesInv, DoorTypeOK

LEMMA FinishedTyped ==
  ASSUME DoorTypeOK, NEW a \in Decisions \cup {"CANCEL", "EXPIRE"}
  PROVE  Finished(a) \in [status : ApprovalStatuses, reason : Reasons]
<1>1. {"HUMAN", "CANCELLED", "EXPIRED"} \subseteq Reasons
  BY Zenon DEF Reasons
<1>2. approval \in [status : ApprovalStatuses, reason : Reasons]
  BY Zenon DEF DoorTypeOK
<1> QED BY <1>1, <1>2 DEF Finished, Decisions, ApprovalStatuses

LEMMA WorkerTyped ==
  ASSUME DoorInv, WorkerStep
  PROVE  DoorInv'
<1>0. UNCHANGED <<plan, flight, issued, others, admissions, dispatches, started, time>> /\ (faults' = faults \/ Fault)
  BY DEF WorkerStep, WorkerAuthenticate, WorkerResolve, WorkerNotify, WorkerRetries, AwaitApproval, LeaveApproval, admissionVars
<1>1. faults' \in 0..plan.faults
  BY <1>0, FaultTyped DEF DoorInv
<1>2. DbClock \in Nat /\ invocations \subseteq Invocation /\ \A i \in invocations : Invoked(i)
  BY DoorConstants DEF DoorInv, DoorTypeOK, BodiesInv, DbClock
<1>3. invocations' \subseteq Invocation /\ \A i \in invocations' : Invoked(i)
  <2>1. \/ invocations' = invocations
        \/ \E i \in invocations, at \in {"new", "authentic", "done", "ended", "refused"} : Progress(i, at)
    BY DEF WorkerStep, WorkerAuthenticate, WorkerResolve, WorkerNotify, WorkerRetries, AwaitApproval, LeaveApproval
  <2> QED BY <1>2, <2>1, ProgressTyped
<1>4. assertions' \subseteq [nonce : Nat, at : Nat]
  <2>1. ASSUME NEW i \in invocations, WorkerAuthenticate(i) PROVE assertions' \subseteq [nonce : Nat, at : Nat]
    <3>1. \A a \in assertions' : a \in assertions \/ a = [nonce |-> i.nonce, at |-> DbClock]
      BY <2>1 DEF WorkerAuthenticate
    <3>2. [nonce |-> i.nonce, at |-> DbClock] \in [nonce : Nat, at : Nat]
      BY <1>2 DEF Invocation
    <3> QED BY <3>1, <3>2 DEF DoorInv, DoorTypeOK
  <2>2. (\E i \in invocations : WorkerAuthenticate(i)) \/ assertions' = assertions
    BY DEF WorkerStep, WorkerResolve, WorkerNotify, WorkerRetries, AwaitApproval, LeaveApproval
  <2> QED BY <2>1, <2>2 DEF DoorInv, DoorTypeOK
<1>5. approval' \in [status : ApprovalStatuses, reason : Reasons]
  <2>0. DoorTypeOK
    BY DEF DoorInv
  <2>1. ASSUME NEW i \in invocations, WorkerResolve(i)
        PROVE  approval' = approval \/ \E a \in Decisions \cup {"CANCEL"} : approval' = Finished(a)
    <3>1. i.op = "CANCEL" \/ i.body \in Decisions
      BY <1>2 DEF Invocation, Invoked, Ops
    <3> QED BY <2>1, <3>1 DEF WorkerResolve
  <2>2. ASSUME LeaveApproval PROVE approval' = Finished("EXPIRE")
    BY <2>2 DEF LeaveApproval
  <2>3. (\E i \in invocations : WorkerResolve(i)) \/ LeaveApproval \/ approval' = approval
    BY DEF WorkerStep, WorkerAuthenticate, WorkerNotify, WorkerRetries, AwaitApproval
  <2> QED BY <2>0, <2>1, <2>2, <2>3, FinishedTyped DEF DoorTypeOK
<1>6. gate' \in {"COMPILED", "APPROVAL_REQUIRED", "READY"} \cup Terminal
  <2>1. gate' = gate \/ gate' \in {"APPROVAL_REQUIRED", "READY", "CANCELLED", "FAILED"}
    BY DEF WorkerStep, WorkerAuthenticate, WorkerResolve, WorkerNotify, WorkerRetries, AwaitApproval, LeaveApproval
  <2> QED BY <2>1 DEF DoorInv, DoorTypeOK, Terminal
<1> QED BY <1>0, <1>1, <1>3, <1>4, <1>5, <1>6 DEF DoorInv, DoorTypeOK, BodiesInv

LEMMA ElapseTyped ==
  ASSUME DoorInv, Elapse
  PROVE  DoorInv'
<1>1. time' \in 0..plan.time
  <2>1. time \in 0..plan.time /\ plan.time \in Nat
    BY DoorConstants DEF DoorInv, DoorTypeOK
  <2> QED BY <2>1 DEF Elapse
<1>2. UNCHANGED <<plan, flight, issued, others, admissions, dispatches, started, invocations, assertions, approval, gate, faults>>
  BY DEF Elapse, admissionVars, controlVars
<1> QED BY <1>1, <1>2 DEF DoorInv, DoorTypeOK, BodiesInv

\* What the poll does to the door.
LEMMA PollerTyped ==
  ASSUME OperatorInv, DoorInv, PollerStep \/ PollerDies \/ SendUpdate
  PROVE  DoorInv'
<1>0. /\ flight \subseteq Request /\ issued \in Nat /\ admissions \subseteq [who : Principals, key : Nat, body : Bodies]
      /\ \A t \in DOMAIN dispatches : dispatches[t] \in {"ACCEPTED", "UNRESOLVED"}
      /\ started \subseteq Principals \X Nat
      /\ \A q \in flight : Bodied(q)
  BY Zenon DEF DoorInv, DoorTypeOK, BodiesInv
<1>1. ASSUME UNCHANGED <<plan, issued, others, admissionVars, controlVars, time>>, faults' = faults \/ Fault,
             flight' \subseteq Request, \A q \in flight' : Bodied(q)
      PROVE  DoorInv'
  <2>1. UNCHANGED <<admissions, dispatches, started>> /\ others' \subseteq others /\ issued' \in Nat
    BY <1>0, <1>1 DEF admissionVars
  <2> QED BY <1>0, <1>1, <2>1, RequestsTyped
<1>2. ASSUME NEW r \in flight PROVE [r EXCEPT !.waited = FALSE] \in Request /\ Bodied([r EXCEPT !.waited = FALSE])
  <2> DEFINE e == [r EXCEPT !.waited = FALSE]
  <2>1. e \in Request /\ e.op = r.op /\ e.body = r.body
    BY <1>0 DEF Request
  <2> HIDE DEF e
  <2>2. Bodied(e)
    BY <1>0, <2>1 DEF Bodied
  <2> QED BY <2>1, <2>2 DEF e
<1>3. CASE UNCHANGED doorVars
  BY <1>0, <1>1, <1>3 DEF doorVars
<1>4. CASE DoorUnchanged /\ (faults' = faults \/ Fault)
  BY <1>0, <1>1, <1>4 DEF DoorUnchanged
<1>5. CASE PollerDies
  <2>1. \A q \in flight' : q \in flight \/ \E r \in flight : q = [r EXCEPT !.waited = FALSE]
    BY <1>5 DEF PollerDies
  <2>2. flight' \subseteq Request /\ \A q \in flight' : Bodied(q)
    BY <1>0, <1>2, <2>1
  <2> QED BY <1>1, <1>5, <2>2 DEF PollerDies
<1>6. CASE DoorAnswers
  <2>1. \A q \in flight' : q \in flight \/ \E r \in flight : q = [r EXCEPT !.waited = FALSE]
    BY <1>6, Zenon DEF DoorAnswers
  <2>2. flight' \subseteq Request /\ \A q \in flight' : Bodied(q)
    BY <1>0, <1>2, <2>1
  <2>3. faults' = faults \/ Fault
    BY <1>6, Zenon DEF DoorAnswers
  <2>4. UNCHANGED <<plan, issued, others, admissionVars, controlVars, time>>
    BY <1>6, Zenon DEF DoorAnswers
  <2> QED BY <1>1, <2>2, <2>3, <2>4
<1>7. ASSUME NEW op, NEW key, NEW body, AskDoor(op, key, body),
             op \in Ops, key \in Nat, body \in Bodies, op = "APPROVE" => body \in Decisions
      PROVE  DoorInv'
  <2> DEFINE c == [who |-> "operator", op |-> op, key |-> key, body |-> body]
             n == NewRequest(c)
  <2>1. c \in Call /\ c.op = op /\ c.body = body
    BY <1>7 DEF Call, Principals
  <2> HIDE DEF c
  <2>2. n \in Request /\ n.op = op /\ n.body = body
    <3>1. PICK blank \in Answers :
            n = [id |-> issued + 1, who |-> c.who, op |-> c.op, key |-> c.key, body |-> c.body,
                 waited |-> TRUE, at |-> "received", answer |-> blank]
      BY Zenon DEF NewRequest, Answers
    <3> HIDE DEF n
    <3> QED BY <1>0, <2>1, <3>1 DEF Request, Call
  <2>3. /\ UNCHANGED <<plan, controlVars, time, admissions, dispatches, started, faults, others>>
        /\ issued' = issued + 1 /\ flight' = flight \cup {n}
    BY <1>7 DEF AskDoor, admissionVars, c
  <2> HIDE DEF n
  <2>4. flight' \subseteq Request /\ \A q \in flight' : Bodied(q)
    BY <1>0, <1>7, <2>2, <2>3 DEF Bodied
  <2>5. others' \subseteq others /\ issued' \in Nat
    BY <1>0, <2>3
  <2> QED BY <1>0, <2>3, <2>4, <2>5, RequestsTyped
<1>8. CASE HandlePress
  <2>1. poll.batch # {}
    BY <1>8 DEF HandlePress, Handling
  <2>2. PICK c : c = Current
    OBVIOUS
  <2>3. c \in 1..Len(updates)
    BY <2>1, <2>2, CurrentIsOne DEF OperatorInv
  <2>4. updates[c] \in Update
    BY <2>3, Sizes, ElementOf
  <2>5. PICK d : d = updates[c].decision
    OBVIOUS
  <2>6. CASE ~(d \in Decisions)
    <3>1. d = ""
      BY <2>4, <2>5, <2>6, Zenon DEF Update
    <3>2. PressVerdict(updates[c]) # ""
      BY <2>5, <3>1 DEF PressVerdict
    <3>3. UNCHANGED doorVars
      BY <1>8, <2>2, <3>2, Zenon DEF HandlePress
    <3> QED BY <1>3, <3>3
  <2>7. CASE d \in Decisions
    <3>1. UNCHANGED doorVars \/ AskDoor("APPROVE", 0, d)
      BY <1>8, <2>2, <2>5, Zenon DEF HandlePress
    <3>2. "APPROVE" \in Ops /\ 0 \in Nat /\ d \in Bodies
      BY <2>7 DEF Ops, Bodies
    <3> QED BY <1>3, <1>7, <2>7, <3>1, <3>2
  <2> QED BY <2>6, <2>7
<1>9. CASE HandleCommand
  <2>1. poll.batch # {}
    BY <1>9 DEF HandleCommand, Handling
  <2>2. PICK c : c = Current
    OBVIOUS
  <2>3. c \in 1..Len(updates) /\ Len(updates) \in Nat
    BY <2>1, <2>2, CurrentIsOne, Sizes DEF OperatorInv
  <2>4. UNCHANGED doorVars \/ AskDoor("SUBMIT", c, "mission")
    BY <1>9, <2>2, Zenon DEF HandleCommand
  <2>5. "SUBMIT" \in Ops /\ c \in Nat /\ "mission" \in Bodies
    BY <2>3 DEF Ops, Bodies
  <2> QED BY <1>3, <1>7, <2>4, <2>5
<1>10. CASE StartService \/ MarkSent \/ ListToClose \/ MarkResolved \/ SkipUpdate \/ PressReread \/ CompletePress
            \/ EnqueueReply \/ CompleteCommand \/ AcknowledgeBatch \/ SendUpdate
  <2>1. UNCHANGED doorVars
    BY <1>10, Zenon DEF StartService, MarkSent, ListToClose, MarkResolved, SkipUpdate, PressReread, CompletePress,
          EnqueueReply, CompleteCommand, AcknowledgeBatch, SendUpdate
  <2> QED BY <1>3, <2>1
<1>11. CASE SendCard \/ CloseCard \/ FetchUpdates
  <2>1. DoorUnchanged /\ (faults' = faults \/ Fault)
    BY <1>11 DEF SendCard, CloseCard, FetchUpdates
  <2> QED BY <1>4, <2>1
<1> QED BY <1>5, <1>6, <1>8, <1>9, <1>10, <1>11 DEF PollerStep

-----------------------------------------------------------------------------
(* The rows of the channel. *)

Texts == {"card", "gone", "GRANTED", "DENIED", "EXPIRED"}
InboxRow == [state : {"none", "RECEIVED", "DONE"}, at : Nat, mission : BOOLEAN, replied : BOOLEAN,
             disposition : CommandDispositions \cup {""}]
PressRow == [state : {"none", "RECEIVED", "DONE"}, pressed : Decisions \cup {""},
             disposition : PressDispositions \cup {""}]
CardRow == [state : {"none", "QUEUED", "SENDING", "SENT", "RESOLVED"}, attempts : Nat, claimed : Nat, message : Nat]

RowsInv ==
  /\ messages \in Seq(Texts)
  /\ \A u \in UpdateIds : inbox[u] \in InboxRow
  /\ \A u \in UpdateIds : presses[u] \in PressRow
  /\ replies = [u \in UpdateIds |-> replies[u]]
  /\ \A u \in UpdateIds : replies[u] \in CommandDispositions \cup {"none"}
  /\ card \in CardRow

\* At each stage of an update, what the poll knows is of the update's kind.
KindInv ==
  /\ updates[Current].kind \in CommandKinds \cup Presses
  /\ poll.at = "reread" => updates[Current].kind \in Presses
  /\ poll.at = "reply" => updates[Current].kind \in CommandKinds
  /\ poll.at \in {"reply", "complete"} =>
       /\ updates[Current].kind \in Presses => poll.disposition \in PressDispositions
       /\ updates[Current].kind \in CommandKinds => poll.disposition \in CommandDispositions

StageInv ==
  /\ poll.at = "close" => poll.closing \in Texts
  /\ poll.at \in Deciding => KindInv

TypeInv == DoorInv /\ RowsInv /\ StageInv

LEMMA InvTypes == OperatorInv /\ TypeInv => OperatorTypeOK
<1> SUFFICES ASSUME OperatorInv, TypeInv PROVE OperatorTypeOK
  OBVIOUS
<1>1. DoorTypeOK /\ updates \in Seq(Update) /\ offset \in Nat
  BY DEF OperatorInv, ChannelShape, OffsetInv, TypeInv, DoorInv
<1>2. poll.batch \subseteq UpdateIds
  <2>1. \A u \in poll.batch : u \in 1..Len(updates)
    BY Sizes, Zenon
  <2>2. 1..Len(updates) \subseteq UpdateIds
    BY Sizes DEF UpdateIds
  <2> QED BY <2>1, <2>2
<1>3. RowsInv
  BY DEF TypeInv
<1> QED BY <1>1, <1>2, <1>3, Zenon DEF OperatorTypeOK, RowsInv, InboxRow, PressRow, CardRow, Texts

\* The chat.
LEMMA MessagesTyped ==
  ASSUME TypeInv, PollerStep \/ PollerDies \/ SendUpdate
  PROVE  messages' \in Seq(Texts)
<1>1. messages \in Seq(Texts)
  BY DEF TypeInv, RowsInv
<1>2. CASE messages' = messages
  BY <1>1, <1>2
<1>3. CASE messages' = Append(messages, "card")
  <2>1. "card" \in Texts
    BY DEF Texts
  <2> QED BY <1>1, <1>3, <2>1
<1>4. CASE CloseCard /\ \E text \in {poll.closing, "gone"} : messages' = [messages EXCEPT ![card.message] = text]
  <2>1. poll.closing \in Texts /\ "gone" \in Texts
    BY <1>4, Zenon DEF CloseCard, TypeInv, StageInv, Texts
  <2>2. messages \in [1..Len(messages) -> Texts] /\ Len(messages) \in Nat
    BY <1>1
  <2>3. PICK text \in Texts : messages' = [messages EXCEPT ![card.message] = text]
    BY <1>4, <2>1
  <2>4. messages' \in [1..Len(messages) -> Texts]
    BY <2>2, <2>3
  <2> QED BY <2>2, <2>4
<1>5. messages' = messages \/ messages' = Append(messages, "card")
        \/ (CloseCard /\ \E text \in {poll.closing, "gone"} : messages' = [messages EXCEPT ![card.message] = text])
  BY Zenon DEF PollerStep, PollerDies, SendUpdate, StartService, SendCard, MarkSent, ListToClose, CloseCard, MarkResolved,
     FetchUpdates, SkipUpdate, HandlePress, PressReread, CompletePress, HandleCommand, DoorAnswers, EnqueueReply,
     CompleteCommand, AcknowledgeBatch
<1> QED BY <1>2, <1>3, <1>4, <1>5

LEMMA CardTyped ==
  ASSUME OperatorInv, TypeInv, PollerStep \/ PollerDies \/ SendUpdate
  PROVE  card' \in CardRow
<1>1. card \in CardRow /\ WorkerClock \in Nat /\ messages \in Seq(Texts)
  BY Sizes, Zenon DEF TypeInv, RowsInv
<1>2. Discovered \in CardRow
  BY <1>1 DEF Discovered, CardRow
<1>3. CASE StartService
  <2>1. PICK d \in CardRow : d = Discovered
    BY <1>2
  <2>2. card' = d \/ card' = [d EXCEPT !.state = "SENDING", !.attempts = @ + 1, !.claimed = WorkerClock]
    BY <1>3, <2>1 DEF StartService
  <2>3. d.attempts + 1 \in Nat
    BY DEF CardRow
  <2>4. PICK a \in Nat : card' = d \/ card' = [d EXCEPT !.state = "SENDING", !.attempts = a, !.claimed = WorkerClock]
    BY <2>2, <2>3
  <2> QED BY <1>1, <2>4 DEF CardRow
<1>4. CASE MarkSent
  <2>1. Len(messages) \in Nat
    BY <1>1
  <2>2. card' = card \/ card' = [card EXCEPT !.state = "SENT", !.message = Len(messages)]
    BY <1>4 DEF MarkSent
  <2> QED BY <1>1, <2>1, <2>2 DEF CardRow
<1>5. CASE card' = card \/ card' = [card EXCEPT !.state = "QUEUED"] \/ card' = [card EXCEPT !.state = "RESOLVED"]
  BY <1>1, <1>5 DEF CardRow
<1>6. StartService \/ MarkSent \/ card' = card \/ card' = [card EXCEPT !.state = "QUEUED"]
        \/ card' = [card EXCEPT !.state = "RESOLVED"]
  BY Zenon DEF PollerStep, PollerDies, SendUpdate, SendCard, ListToClose, CloseCard, MarkResolved,
     FetchUpdates, SkipUpdate, HandlePress, PressReread, CompletePress, HandleCommand, DoorAnswers, EnqueueReply,
     CompleteCommand, AcknowledgeBatch
<1> QED BY <1>3, <1>4, <1>5, <1>6

LEMMA RepliesTyped ==
  ASSUME OperatorInv, TypeInv, PollerStep \/ PollerDies \/ SendUpdate
  PROVE  /\ replies' = [u \in UpdateIds |-> replies'[u]]
         /\ \A u \in UpdateIds : replies'[u] \in CommandDispositions \cup {"none"}
<1>1. /\ replies = [u \in UpdateIds |-> replies[u]]
      /\ \A u \in UpdateIds : replies[u] \in CommandDispositions \cup {"none"}
  BY Zenon DEF TypeInv, RowsInv
<1>2. CASE replies' = replies
  BY <1>1, <1>2, Zenon
<1>3. CASE EnqueueReply /\ replies' = [replies EXCEPT ![Current] = poll.disposition]
  <2>1. poll.at = "reply" /\ poll.at \in Deciding
    BY <1>3, Zenon DEF EnqueueReply, Deciding
  <2>2. poll.disposition \in CommandDispositions
    BY <2>1, Zenon DEF TypeInv, StageInv, KindInv
  <2>3. PICK d \in CommandDispositions : replies' = [replies EXCEPT ![Current] = d]
    BY <1>3, <2>2
  <2> QED BY <1>1, <2>3
<1>4. replies' = replies \/ (EnqueueReply /\ replies' = [replies EXCEPT ![Current] = poll.disposition])
  BY Zenon DEF PollerStep, PollerDies, SendUpdate, StartService, SendCard, MarkSent, ListToClose, CloseCard, MarkResolved,
     FetchUpdates, SkipUpdate, HandlePress, PressReread, CompletePress, HandleCommand, DoorAnswers, EnqueueReply,
     CompleteCommand, AcknowledgeBatch
<1> QED BY <1>2, <1>3, <1>4

LEMMA PressesTyped ==
  ASSUME OperatorInv, TypeInv, PollerStep \/ PollerDies \/ SendUpdate
  PROVE  \A u \in UpdateIds : presses'[u] \in PressRow
<1>1. presses = [u \in UpdateIds |-> presses[u]] /\ \A u \in UpdateIds : presses[u] \in PressRow
  BY Zenon DEF TypeInv, RowsInv, OperatorInv, ChannelShape
<1>2. CASE presses' = presses
  BY <1>1, <1>2, Zenon
<1>3. ASSUME NEW c \in UpdateIds, NEW row \in PressRow, presses' = [presses EXCEPT ![c] = row]
      PROVE  \A u \in UpdateIds : presses'[u] \in PressRow
  BY <1>1, <1>3
<1>4. CASE HandlePress
  <2>1. PICK c : c = Current
    OBVIOUS
  <2>2. c \in UpdateIds
    BY <1>4, <2>1, CurrentIsOne DEF HandlePress, Handling, OperatorInv
  <2>3. presses' = presses \/ presses' = [presses EXCEPT ![c].state = "RECEIVED"]
    BY <1>4, <2>1, Zenon DEF HandlePress
  <2>4. PICK row : row = [presses[c] EXCEPT !.state = "RECEIVED"]
    OBVIOUS
  <2>5. row \in PressRow
    <3>1. PICK D, P : PressRow = [state : {"none", "RECEIVED", "DONE"}, pressed : D, disposition : P]
      BY Zenon DEF PressRow
    <3> QED BY <1>1, <2>2, <2>4, <3>1
  <2>6. presses' = presses \/ presses' = [presses EXCEPT ![c] = row]
    BY <2>3, <2>4
  <2> QED BY <1>2, <1>3, <2>2, <2>5, <2>6
<1>5. CASE CompletePress
  <2>1. PICK c : c = Current
    OBVIOUS
  <2>0. poll.at = "complete" /\ poll.at \in Deciding
    BY <1>5, Zenon DEF CompletePress, Deciding
  <2>2. c \in UpdateIds /\ c \in 1..Len(updates)
    BY <2>0, <2>1, CurrentIsOne DEF PollShape, WorkerClock, OperatorInv
  <2>3. PICK row : /\ row = [state |-> "DONE", disposition |-> poll.disposition, pressed |-> updates[c].decision]
                   /\ presses' = [presses EXCEPT ![c] = row]
    BY <1>5, <2>1, Zenon DEF CompletePress
  <2>4. updates[c] \in Update
    BY <2>2, Sizes, ElementOf
  <2>5. updates[c].decision \in Decisions \cup {""}
    BY <2>4, Zenon DEF Update
  <2>6. poll.disposition \in PressDispositions
    BY <1>5, <2>0, Zenon DEF CompletePress, TypeInv, StageInv, KindInv, Presses
  <2>7. row \in PressRow
    <3> DEFINE D == Decisions \cup {""}
               P == PressDispositions \cup {""}
    <3>1. /\ PressRow = [state : {"none", "RECEIVED", "DONE"}, pressed : D, disposition : P]
          /\ updates[c].decision \in D /\ poll.disposition \in P
      BY <2>5, <2>6, Zenon DEF PressRow
    <3> HIDE DEF D, P
    <3> QED BY <2>3, <3>1
  <2> QED BY <1>3, <2>2, <2>3, <2>7
<1>6. presses' = presses \/ HandlePress \/ CompletePress
  BY Zenon DEF PollerStep, PollerDies, SendUpdate, StartService, SendCard, MarkSent, ListToClose, CloseCard, MarkResolved,
     FetchUpdates, SkipUpdate, PressReread, HandleCommand, DoorAnswers, EnqueueReply,
     CompleteCommand, AcknowledgeBatch
<1> QED BY <1>2, <1>4, <1>5, <1>6

LEMMA InboxTyped ==
  ASSUME OperatorInv, TypeInv, PollerStep \/ PollerDies \/ SendUpdate
  PROVE  \A u \in UpdateIds : inbox'[u] \in InboxRow
<1>1. inbox = [u \in UpdateIds |-> inbox[u]] /\ \A u \in UpdateIds : inbox[u] \in InboxRow
  BY Zenon DEF TypeInv, RowsInv, OperatorInv, ChannelShape
<1>2. CASE inbox' = inbox
  BY <1>1, <1>2, Zenon
<1>3. ASSUME NEW c \in UpdateIds, NEW row \in InboxRow, inbox' = [inbox EXCEPT ![c] = row]
      PROVE  \A u \in UpdateIds : inbox'[u] \in InboxRow
  BY <1>1, <1>3
<1>4. CASE HandleCommand
  <2>1. PICK c : c = Current
    OBVIOUS
  <2>2. c \in UpdateIds /\ WorkerClock \in Nat
    BY <1>4, <2>1, CurrentIsOne, Sizes DEF HandleCommand, Handling, OperatorInv, ChannelShape
  <2>3. inbox' = inbox \/ inbox' = [inbox EXCEPT ![c].state = "RECEIVED", ![c].at = WorkerClock]
    BY <1>4, <2>1, Zenon DEF HandleCommand
  <2>4. PICK row : row = [inbox[c] EXCEPT !.state = "RECEIVED", !.at = WorkerClock]
    OBVIOUS
  <2>5. row \in InboxRow
    <3>1. PICK D, B : InboxRow = [state : {"none", "RECEIVED", "DONE"}, at : Nat, mission : B, replied : B, disposition : D]
      BY Zenon DEF InboxRow
    <3> QED BY <1>1, <2>2, <2>4, <3>1
  <2>6. inbox' = inbox \/ inbox' = [inbox EXCEPT ![c] = row]
    BY <1>1, <2>2, <2>3, <2>4
  <2> QED BY <1>2, <1>3, <2>2, <2>5, <2>6
<1>5. CASE CompleteCommand
  <2>1. PICK c : c = Current
    OBVIOUS
  <2>0. poll.at = "complete" /\ poll.at \in Deciding
    BY <1>5, Zenon DEF CompleteCommand, Deciding
  <2>2. c \in UpdateIds
    BY <2>0, <2>1, CurrentIsOne DEF PollShape, WorkerClock, OperatorInv
  <2>3. PICK m, r \in BOOLEAN : inbox' = [inbox EXCEPT ![c].state = "DONE", ![c].disposition = poll.disposition,
                                                       ![c].mission = m, ![c].replied = r]
    BY <1>5, <2>1, Zenon DEF CompleteCommand
  <2>4. poll.disposition \in CommandDispositions
    BY <1>5, <2>0, Zenon DEF CompleteCommand, TypeInv, StageInv, KindInv
  <2>5. PICK row : row = [inbox[c] EXCEPT !.state = "DONE", !.disposition = poll.disposition,
                                          !.mission = m, !.replied = r]
    OBVIOUS
  <2>6. row \in InboxRow
    <3>1. PICK D, B : /\ InboxRow = [state : {"none", "RECEIVED", "DONE"}, at : Nat, mission : B, replied : B, disposition : D]
                      /\ m \in B /\ r \in B /\ poll.disposition \in D
      BY <2>4, Zenon DEF InboxRow
    <3> QED BY <1>1, <2>2, <2>5, <3>1
  <2>7. inbox' = [inbox EXCEPT ![c] = row]
    BY <1>1, <2>2, <2>3, <2>5
  <2> QED BY <1>3, <2>2, <2>6, <2>7
<1>6. inbox' = inbox \/ HandleCommand \/ CompleteCommand
  BY Zenon DEF PollerStep, PollerDies, SendUpdate, StartService, SendCard, MarkSent, ListToClose, CloseCard, MarkResolved,
     FetchUpdates, SkipUpdate, HandlePress, PressReread, CompletePress, DoorAnswers, EnqueueReply, AcknowledgeBatch
<1> QED BY <1>2, <1>4, <1>5, <1>6

\* The poll's step after a step that ends or leaves an update.
LEMMA PollLeaves ==
  ASSUME Polled(poll),
         \/ StartService \/ SendCard \/ MarkSent \/ CloseCard \/ MarkResolved \/ FetchUpdates \/ SkipUpdate
         \/ (HandlePress /\ Claimed(presses, Current)) \/ CompletePress
         \/ (HandleCommand /\ Claimed(inbox, Current)) \/ CompleteCommand \/ AcknowledgeBatch \/ PollerDies
  PROVE  poll'.at \notin Deciding /\ poll'.at # "close"
<1> DEFINE Away == {"send", "list", "mark", "resolve", "handle", "fetch", "idle", "service"}
<1>1. \A x \in Away : x \notin Deciding /\ x # "close"
  BY DEF Deciding
<1>2. CASE poll' = Serviced \/ poll' = Resting
  BY <1>1, <1>2, ServicedPoll, RestingPoll
<1>3. CASE poll' = Handled \/ poll' = [Handled EXCEPT !.pressed = TRUE]
  BY <1>1, <1>3, HandledPoll
<1>4. CASE StartService \/ SendCard \/ MarkSent \/ poll' = [poll EXCEPT !.at = "resolve"]
  <2>0. "send" \in Away /\ "list" \in Away /\ "mark" \in Away /\ "resolve" \in Away
    OBVIOUS
  <2>1. ASSUME NEW a \in Away, poll' = [poll EXCEPT !.at = a]
        PROVE  poll'.at \notin Deciding /\ poll'.at # "close"
    <3>1. poll'.at = a
      BY <2>1 DEF Polled, PollFields
    <3> QED BY <1>1, <3>1
  <2>2. CASE StartService
    <3>0. PICK a : a = IF ToSend(Discovered) THEN "send" ELSE "list"
      OBVIOUS
    <3>1. a \in Away /\ poll' = [poll EXCEPT !.at = a, !.now = WorkerClock]
      BY <2>0, <2>2, <3>0, Zenon DEF StartService
    <3>2. poll'.at = a
      BY <3>1 DEF Polled, PollFields
    <3> QED BY <1>1, <3>1, <3>2
  <2>3. CASE SendCard \/ MarkSent \/ poll' = [poll EXCEPT !.at = "resolve"]
    BY <2>0, <2>1, <2>3, Zenon DEF SendCard, MarkSent
  <2> QED BY <1>4, <2>2, <2>3
<1>5. CASE FetchUpdates /\ poll' # Resting
  <2>1. PICK b, l : poll' = [poll EXCEPT !.at = "handle", !.batch = b, !.last = l]
    BY <1>5 DEF FetchUpdates
  <2>2. poll'.at = "handle"
    BY <2>1 DEF Polled, PollFields
  <2> QED BY <1>1, <2>2
<1>6. CASE poll' = [Resting EXCEPT !.at = "service", !.round = 2]
  <2>1. poll'.at = "service"
    BY <1>6, RestingPoll DEF Polled, PollFields
  <2> QED BY <1>1, <2>1
<1>7. CloseCard \/ MarkResolved => poll' = Serviced \/ poll' = [poll EXCEPT !.at = "resolve"]
  BY DEF CloseCard, MarkResolved
<1>8. SkipUpdate \/ (HandlePress /\ Claimed(presses, Current)) \/ CompletePress
        \/ (HandleCommand /\ Claimed(inbox, Current)) \/ CompleteCommand
      => poll' = Handled \/ poll' = [Handled EXCEPT !.pressed = TRUE]
  BY Zenon DEF SkipUpdate, HandlePress, CompletePress, HandleCommand, CompleteCommand
<1>9. AcknowledgeBatch \/ PollerDies => poll' = Resting \/ poll' = [Resting EXCEPT !.at = "service", !.round = 2]
  BY DEF AcknowledgeBatch, PollerDies
<1> QED BY <1>2, <1>3, <1>4, <1>5, <1>6, <1>7, <1>8, <1>9

LEMMA KindsDiffer == \A k \in Presses : k \notin CommandKinds
BY DEF Presses, CommandKinds

\* The verdicts are of their kind.
LEMMA VerdictsTyped ==
  /\ \A e : PressVerdict(e) # "" => PressVerdict(e) \in PressDispositions
  /\ \A d : PressOutcome(d) \in PressDispositions
  /\ \A u : CommandVerdict(u) # "" => CommandVerdict(u) \in CommandDispositions
<1>1. \A e : PressVerdict(e) # "" => PressVerdict(e) \in PressDispositions
  BY DEF PressVerdict, PressDispositions
<1>2. \A d : PressOutcome(d) \in PressDispositions
  BY DEF PressOutcome, PressDispositions
<1>3. \A u : CommandVerdict(u) # "" => CommandVerdict(u) \in CommandDispositions
  BY DEF CommandVerdict, CommandDispositions
<1> QED BY <1>1, <1>2, <1>3

\* A step on the update at hand leaves it at hand.
LEMMA KindKept ==
  ASSUME NEW c, c = Current, UNCHANGED updates, poll'.batch = poll.batch, poll'.at \in Deciding,
         NEW k, k = updates[c].kind, k \in CommandKinds \cup Presses,
         poll'.at = "reread" => k \in Presses,
         poll'.at = "reply" => k \in CommandKinds,
         poll'.at \in {"reply", "complete"} =>
           /\ k \in Presses => poll'.disposition \in PressDispositions
           /\ k \in CommandKinds => poll'.disposition \in CommandDispositions
  PROVE  StageInv'
<1>1. Current' = c /\ updates'[Current'].kind = k
  BY DEF Current
<1>2. poll'.at # "close"
  BY DEF Deciding
<1>3. KindInv'
  BY <1>1, Zenon DEF KindInv
<1> QED BY <1>2, <1>3, Zenon DEF StageInv

LEMMA ListStaged ==
  ASSUME OperatorInv, TypeInv, ListToClose
  PROVE  StageInv'
<1>1. Polled(poll) /\ approval.status \in ApprovalStatuses
  <2>1. approval \in [status : ApprovalStatuses, reason : Reasons]
    BY Zenon DEF TypeInv, DoorInv, DoorTypeOK
  <2> QED BY <2>1 DEF OperatorInv, PollShape, WorkerClock
<1>2. CASE poll' = Serviced
  BY <1>1, <1>2, ServicedPoll DEF StageInv, Deciding
<1>3. CASE \E c \in Texts : poll' = [poll EXCEPT !.at = "close", !.closing = c]
  <2>1. poll'.at = "close" /\ poll'.closing \in Texts
    BY <1>1, <1>3 DEF Polled, PollFields
  <2>2. poll'.at \notin Deciding
    BY <2>1 DEF Deciding
  <2> QED BY <2>1, <2>2, Zenon DEF StageInv
<1>4. (IF approval.status = "PENDING" THEN "EXPIRED" ELSE approval.status) \in Texts
  BY <1>1 DEF ApprovalStatuses, Texts
<1> QED BY <1>2, <1>3, <1>4 DEF ListToClose

LEMMA DecidingStaged ==
  ASSUME OperatorInv, TypeInv,
         \/ HandlePress /\ ~Claimed(presses, Current)
         \/ HandleCommand /\ ~Claimed(inbox, Current)
         \/ PressReread \/ EnqueueReply \/ DoorAnswers
  PROVE  StageInv'
<1>0. Polled(poll)
  BY DEF OperatorInv, PollShape, WorkerClock
<1>1. PICK c, k : c = Current /\ k = updates[c].kind
  OBVIOUS
<1>2. UNCHANGED updates
  BY Zenon DEF HandlePress, HandleCommand, PressReread, EnqueueReply, DoorAnswers
<1>3. poll.at \in Deciding => KindInv
  BY DEF TypeInv, StageInv
<1>4. ASSUME NEW q, poll' = [poll EXCEPT !.at = "asked", !.request = q], k \in CommandKinds \cup Presses
      PROVE  StageInv'
  <2>1. poll'.at = "asked" /\ poll'.batch = poll.batch
    BY <1>0, <1>4 DEF Polled, PollFields
  <2>2. poll'.at \in Deciding /\ poll'.at \notin {"reread", "reply", "complete"}
    BY <2>1 DEF Deciding
  <2> QED BY <1>1, <1>2, <1>4, <2>1, <2>2, KindKept
<1>5. CASE HandlePress /\ ~Claimed(presses, Current)
  <2>1. k \in Presses
    BY <1>1, <1>5 DEF HandlePress, Handling, Presses
  <2>2. PICK v : v = PressVerdict(updates[c])
    OBVIOUS
  <2>3. \/ v # "" /\ poll' = [poll EXCEPT !.at = "complete", !.disposition = v]
        \/ poll' = [poll EXCEPT !.at = "asked", !.request = issued + 1]
    BY <1>1, <1>5, <2>2, Zenon DEF HandlePress
  <2>4. CASE v # "" /\ poll' = [poll EXCEPT !.at = "complete", !.disposition = v]
    <3>1. v \in PressDispositions
      BY <2>2, <2>4, VerdictsTyped, Zenon
    <3>2. poll' = [poll EXCEPT !.at = "complete", !.disposition = v]
      BY <2>4, Zenon
    <3>3. poll'.at = "complete" /\ poll'.batch = poll.batch /\ poll'.disposition = v
      BY <1>0, <3>2 DEF Polled, PollFields
    <3>4. poll'.at \in Deciding /\ poll'.at # "reread" /\ poll'.at # "reply"
      BY <3>3 DEF Deciding
    <3> QED BY <1>1, <1>2, <2>1, <3>1, <3>3, <3>4, KindKept, KindsDiffer
  <2>5. CASE poll' = [poll EXCEPT !.at = "asked", !.request = issued + 1]
    <3>1. PICK q : poll' = [poll EXCEPT !.at = "asked", !.request = q]
      BY <2>5
    <3> QED BY <1>4, <2>1, <3>1
  <2> QED BY <2>3, <2>4, <2>5
<1>6. CASE HandleCommand /\ ~Claimed(inbox, Current)
  <2>1. k \in CommandKinds
    BY <1>1, <1>6 DEF HandleCommand, Handling
  <2>2. PICK v : v = CommandVerdict(c)
    OBVIOUS
  <2>3. \/ v # "" /\ \E at \in {"complete", "reply"} : poll' = [poll EXCEPT !.disposition = v, !.at = at]
        \/ poll' = [poll EXCEPT !.at = "asked", !.request = issued + 1]
    BY <1>1, <1>6, <2>2 DEF HandleCommand
  <2>4. CASE v # "" /\ \E at \in {"complete", "reply"} : poll' = [poll EXCEPT !.disposition = v, !.at = at]
    <3>1. v \in CommandDispositions
      BY <2>2, <2>4, VerdictsTyped, Zenon
    <3>2. PICK at \in {"complete", "reply"} : poll' = [poll EXCEPT !.disposition = v, !.at = at]
      BY <2>4, Zenon
    <3>3. poll'.at = at /\ poll'.batch = poll.batch /\ poll'.disposition = v
      BY <1>0, <3>2 DEF Polled, PollFields
    <3>4. poll'.at \in Deciding /\ poll'.at # "reread"
      BY <3>3 DEF Deciding
    <3> QED BY <1>1, <1>2, <2>1, <3>1, <3>3, <3>4, KindKept, KindsDiffer
  <2>5. CASE poll' = [poll EXCEPT !.at = "asked", !.request = issued + 1]
    <3>1. PICK q : poll' = [poll EXCEPT !.at = "asked", !.request = q]
      BY <2>5
    <3> QED BY <1>4, <2>1, <3>1
  <2> QED BY <2>3, <2>4, <2>5
<1>7. CASE PressReread
  <2>1. k \in Presses
    BY <1>1, <1>3, <1>7 DEF PressReread, KindInv, Deciding
  <2>2. PICK o \in PressDispositions : poll' = [poll EXCEPT !.at = "complete", !.disposition = o]
    BY <1>7, VerdictsTyped, Zenon DEF PressReread
  <2>3. poll'.at = "complete" /\ poll'.batch = poll.batch /\ poll'.disposition = o
    BY <1>0, <2>2 DEF Polled, PollFields
  <2>4. poll'.at \in Deciding /\ poll'.at # "reread" /\ poll'.at # "reply"
    BY <2>3 DEF Deciding
  <2> QED BY <1>1, <1>2, <2>1, <2>2, <2>3, <2>4, KindKept, KindsDiffer
<1>8. CASE EnqueueReply
  <2>1. k \in CommandKinds /\ poll.disposition \in CommandDispositions
    BY <1>1, <1>3, <1>8 DEF EnqueueReply, KindInv, Deciding
  <2>2. poll' = [poll EXCEPT !.at = "complete", !.answer = "replied"]
    BY <1>8 DEF EnqueueReply
  <2>3. poll'.at = "complete" /\ poll'.batch = poll.batch /\ poll'.disposition = poll.disposition
    BY <1>0, <2>2 DEF Polled, PollFields
  <2>4. poll'.at \in Deciding /\ poll'.at # "reread" /\ poll'.at # "reply"
    BY <2>3 DEF Deciding
  <2> QED BY <1>1, <1>2, <2>1, <2>3, <2>4, KindKept, KindsDiffer
<1>9. CASE DoorAnswers
  <2>1. PICK r, code :
          /\ r \in flight
          /\ r.id = poll.request
          /\ poll' = IF r.op = "APPROVE"
                     THEN [poll EXCEPT !.at = "reread", !.answer = ApproveAnswer(code)]
                     ELSE [poll EXCEPT !.at = "reply",
                              !.disposition = IF code = "202" THEN "ADMITTED" ELSE "ADMISSION_FAILED"]
    BY <1>9, Zenon DEF DoorAnswers
  <2>2. Asked(r, c, k)
    BY <1>1, <1>9, <2>1 DEF DoorAnswers, OperatorInv, AdmittedInv
  <2>3. CASE r.op = "APPROVE"
    <3>1. PICK a : poll' = [poll EXCEPT !.at = "reread", !.answer = a]
      BY <2>1, <2>3
    <3>2. poll'.at = "reread" /\ poll'.batch = poll.batch
      BY <1>0, <3>1 DEF Polled, PollFields
    <3>3. poll'.at \in Deciding /\ poll'.at # "reply" /\ poll'.at # "complete"
      BY <3>2 DEF Deciding
    <3>4. k \in Presses
      BY <2>2, <2>3 DEF Asked
    <3> QED BY <1>1, <1>2, <3>2, <3>3, <3>4, KindKept
  <2>4. CASE r.op # "APPROVE"
    <3>1. PICK d \in CommandDispositions : poll' = [poll EXCEPT !.at = "reply", !.disposition = d]
      BY <2>1, <2>4 DEF CommandDispositions
    <3>2. poll'.at = "reply" /\ poll'.batch = poll.batch /\ poll'.disposition = d
      BY <1>0, <3>1 DEF Polled, PollFields
    <3>3. poll'.at \in Deciding /\ poll'.at # "reread" /\ poll'.at # "complete"
      BY <3>2 DEF Deciding
    <3>4. k \in CommandKinds
      BY <2>2, <2>4 DEF Asked
    <3> QED BY <1>1, <1>2, <3>1, <3>2, <3>3, <3>4, KindKept, KindsDiffer
  <2> QED BY <2>3, <2>4
<1> QED BY <1>5, <1>6, <1>7, <1>8, <1>9

LEMMA UpdateStaged ==
  ASSUME OperatorInv, TypeInv, SendUpdate
  PROVE  StageInv'
<1>1. UNCHANGED poll
  BY DEF SendUpdate
<1>2. CASE poll.at \in Deciding
  <2>1. poll.batch # {}
    BY <1>2, Zenon DEF OperatorInv, PollShape, WorkerClock
  <2>2. Current' = Current
    BY <1>1 DEF Current
  <2>3. Current \in 1..Len(updates)
    BY <2>1, CurrentIsOne DEF OperatorInv
  <2>4. PICK e : updates' = Append(updates, e)
    BY Zenon DEF SendUpdate
  <2>5. updates'[Current'] = updates[Current]
    BY <2>2, <2>3, <2>4, Sizes, AppendHas
  <2>6. KindInv'
    BY <1>1, <1>2, <2>5, Zenon DEF TypeInv, StageInv, KindInv
  <2>7. poll'.at # "close"
    BY <1>1, <1>2 DEF Deciding
  <2> QED BY <2>6, <2>7, Zenon DEF StageInv
<1>3. CASE poll.at \notin Deciding
  BY <1>1, <1>3, Zenon DEF TypeInv, StageInv
<1> QED BY <1>2, <1>3

LEMMA TypeStarts ==
  ASSUME OperatorInit
  PROVE  TypeInv
<1>0. /\ plan \in Plans /\ flight = {} /\ issued = 0 /\ time = 0 /\ others = plan.others
      /\ admissions = {} /\ dispatches = <<>> /\ started = {} /\ invocations = {} /\ assertions = {}
      /\ gate = plan.gate /\ faults = 0
      /\ messages = <<>> /\ poll = Resting /\ card = NoCard
      /\ inbox = [u \in UpdateIds |-> NoRow] /\ presses = [u \in UpdateIds |-> NoPress]
      /\ replies = [u \in UpdateIds |-> "none"]
  BY Zenon DEF OperatorInit, DoorInit
<1>1. DoorInv
  <2>1. plan.time \in Nat /\ plan.faults \in Nat
    BY <1>0, DoorConstants
  <2>2. time \in 0..plan.time /\ faults \in 0..plan.faults /\ issued \in Nat
    <3>1. time = 0 /\ faults = 0 /\ issued = 0
      BY <1>0, Zenon
    <3> QED BY <2>1, <3>1
  <2>3. approval \in [status : ApprovalStatuses, reason : Reasons]
    <3>1. PICK blank \in Reasons : approval = IF gate = "READY" THEN [status |-> "GRANTED", reason |-> "HUMAN"]
                                              ELSE [status |-> "PENDING", reason |-> blank]
      BY Zenon DEF OperatorInit, DoorInit, Reasons
    <3>2. "HUMAN" \in Reasons
      BY Zenon DEF Reasons
    <3> QED BY <3>1, <3>2 DEF ApprovalStatuses
  <2>4. gate \in {"COMPILED", "APPROVAL_REQUIRED", "READY"} \cup Terminal
    BY <1>0, PlanCalls
  <2>5. \A t \in DOMAIN dispatches : dispatches[t] \in {"ACCEPTED", "UNRESOLVED"}
    BY <1>0, EmptySequence
  <2>6. BodiesInv
    BY <1>0 DEF BodiesInv
  <2> QED BY <1>0, <2>2, <2>3, <2>4, <2>5, <2>6 DEF DoorInv, DoorTypeOK
<1>2. RowsInv
  <2>1. messages \in Seq(Texts)
    BY <1>0, EmptySequence
  <2>2. NoRow \in InboxRow
    <3> DEFINE D == CommandDispositions \cup {""}
    <3>1. PICK blank \in D, f \in BOOLEAN :
            /\ NoRow = [state |-> "none", at |-> 0, disposition |-> blank, mission |-> f, replied |-> f]
            /\ InboxRow = [state : {"none", "RECEIVED", "DONE"}, at : Nat, mission : BOOLEAN, replied : BOOLEAN,
                           disposition : D]
      BY Zenon DEF NoRow, InboxRow
    <3> HIDE DEF D
    <3> QED BY <3>1
  <2>3. NoPress \in PressRow
    <3> DEFINE D == PressDispositions \cup {""}
               E == Decisions \cup {""}
    <3>0. "" \in D /\ "" \in E
      BY Zenon
    <3>1. PICK blank : /\ blank \in D /\ blank \in E
                       /\ NoPress = [state |-> "none", disposition |-> blank, pressed |-> blank]
                       /\ PressRow = [state : {"none", "RECEIVED", "DONE"}, pressed : E, disposition : D]
      BY <3>0, Zenon DEF NoPress, PressRow
    <3> HIDE DEF D, E
    <3> QED BY <3>1
  <2>4. NoCard \in CardRow
    BY DEF NoCard, CardRow
  <2>5. \A u \in UpdateIds : inbox[u] = NoRow /\ presses[u] = NoPress /\ replies[u] = "none"
    BY <1>0
  <2>6. replies = [u \in UpdateIds |-> replies[u]]
    BY <1>0
  <2> QED BY <1>0, <2>1, <2>2, <2>3, <2>4, <2>5, <2>6, Zenon DEF RowsInv
<1>3. StageInv
  BY <1>0, RestingPoll DEF StageInv, Deciding
<1> QED BY <1>1, <1>2, <1>3 DEF TypeInv

LEMMA TypeSteps ==
  ASSUME OperatorInv, TypeInv, [OperatorNext]_operatorVars
  PROVE  TypeInv'
<1>0. UpdateIds' = UpdateIds
  <2>1. plan' = plan
    BY Zenon DEF OperatorNext, PollerStep, PollerDies, SendUpdate, StartService, SendCard, MarkSent, ListToClose,
       CloseCard, MarkResolved, FetchUpdates, SkipUpdate, HandlePress, PressReread, CompletePress, HandleCommand,
       DoorAnswers, EnqueueReply, CompleteCommand, AcknowledgeBatch, AskDoor, DoorUnchanged, doorVars, operatorVars,
       DoorStep, DoorAdmit, DoorDispatch, DoorControl, DoorRelay, DoorTimeout, DoorDies, OtherClient,
       WorkerStep, WorkerAuthenticate, WorkerResolve, WorkerNotify, WorkerRetries, AwaitApproval, LeaveApproval, Elapse
  <2> QED BY <2>1 DEF UpdateIds
<1>1. CASE PollerStep \/ PollerDies \/ SendUpdate
  <2>1. DoorInv'
    BY <1>1, PollerTyped DEF TypeInv
  <2>2. RowsInv'
    BY <1>0, <1>1, MessagesTyped, CardTyped, RepliesTyped, PressesTyped, InboxTyped, Zenon DEF RowsInv
  <2>3. StageInv'
    <3>1. Polled(poll)
      BY DEF OperatorInv, PollShape, WorkerClock
    <3>2. poll'.at \notin Deciding /\ poll'.at # "close" => StageInv'
      BY DEF StageInv
    <3> QED BY <1>1, <3>1, <3>2, PollLeaves, ListStaged, DecidingStaged, UpdateStaged, Zenon DEF PollerStep
  <2> QED BY <2>1, <2>2, <2>3 DEF TypeInv
<1>2. ASSUME UNCHANGED channelVars, DoorInv' PROVE TypeInv'
  <2>1. UNCHANGED <<updates, messages, offset, inbox, presses, replies, card, poll>>
    BY <1>2 DEF channelVars
  <2>2. RowsInv'
    BY <1>0, <2>1, Zenon DEF TypeInv, RowsInv
  <2>3. StageInv'
    BY <2>1, Zenon DEF TypeInv, StageInv, KindInv, Current
  <2> QED BY <1>2, <2>2, <2>3 DEF TypeInv
<1>3. CASE (DoorStep \/ WorkerStep \/ Elapse) /\ UNCHANGED channelVars
  <2>1. DoorInv
    BY DEF TypeInv
  <2>2. DoorInv'
    BY <1>3, <2>1, DoorStepTyped, ClientTyped, WorkerTyped, ElapseTyped DEF DoorStep
  <2> QED BY <1>2, <1>3, <2>2
<1>4. CASE UNCHANGED operatorVars
  <2>1. UNCHANGED channelVars /\ UNCHANGED doorVars
    BY <1>4 DEF operatorVars
  <2>2. UNCHANGED <<plan, flight, issued, others, admissions, dispatches, started, invocations, assertions, approval, gate,
                    time, faults>>
    BY <2>1 DEF doorVars, admissionVars, controlVars
  <2>3. DoorInv'
    BY <2>2, Zenon DEF TypeInv, DoorInv, DoorTypeOK, BodiesInv
  <2> QED BY <1>2, <2>1, <2>3
<1> QED BY <1>1, <1>3, <1>4 DEF OperatorNext

\* The state of the door and of the channel is well formed, whatever is sent,
\* lost or repeated: the approvals row holds only what was asked or the clock
\* decided, and every row and text of the channel is of its own kind.
THEOREM OperatorTypes == OperatorSpec => []OperatorTypeOK
<1>1. OperatorInit => OperatorInv /\ TypeInv
  BY OperatorStarts, TypeStarts
<1>2. OperatorInv /\ TypeInv /\ [OperatorNext]_operatorVars => OperatorInv' /\ TypeInv'
  BY OperatorSteps, TypeSteps
<1> QED BY <1>1, <1>2, InvTypes, PTL DEF OperatorSpec

=============================================================================
