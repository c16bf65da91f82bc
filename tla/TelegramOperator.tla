-------------------------- MODULE TelegramOperator --------------------------
(***************************************************************************)
(* The Telegram channel: one durable poll loop that shows approvals as     *)
(* cards with buttons, reads the operator's updates in order, and turns    *)
(* commands and button presses into requests to the admission door.        *)
(*                                                                         *)
(* One poll runs at a time (operatorTick has the numbered tick chain of    *)
(* the alert monitor, see AlertMonitor.OneChain) as one durable step, so a *)
(* dead worker runs the whole poll again: everything below the poll must   *)
(* be repeatable.  The rows (cards, inbox, callbacks, offset) are written  *)
(* by the poll alone; the ledger, the chat and the door change under it.   *)
(***************************************************************************)
EXTENDS AdmissionDoor, Sequences, FiniteSets, FiniteSetsExt

CONSTANTS
    StaleSending,     \* STALE_SENDING_MS, in ticks
    MaxSendAttempts,  \* MAX_SEND_ATTEMPTS
    RatePerMinute, MissionCap,
    Minute, Day       \* MINUTE_MS and a day, in ticks

CommandKinds == {"STATUS", "TASK", "MEMORY", "MALFORMED", "MISSION"}
UpdateKinds == CommandKinds \cup {"PRESS", "STRANGE PRESS", "IGNORED", "UNAUTHORISED"}

ASSUME OperatorConstants ==
    /\ \A p \in Plans : p.script \in Seq(UpdateKinds)
    /\ StaleSending \in Nat /\ MaxSendAttempts \in Nat
    /\ RatePerMinute \in Nat /\ MissionCap \in Nat
    /\ Minute \in Nat \ {0} /\ Day \in Nat \ {0}

VARIABLES
    updates,   \* updates Telegram holds, by update id
    messages,  \* the chat: "card" has live buttons, "gone" cannot be edited, else its text
    offset,    \* telegram_operator_state.next_offset
    inbox,     \* telegram_inbox
    presses,   \* telegram_callback_inbox
    replies,   \* notification_outbox rows of operator replies, by update id
    card,      \* telegram_approval_cards, with its two handles
    poll       \* the running poll: volatile

channelVars == <<updates, messages, offset, inbox, presses, replies, card, poll>>
operatorVars == <<doorVars, channelVars>>

Update == [kind : UpdateKinds, decision : Decisions \cup {""}, message : Nat]
NoRow == [state |-> "none", at |-> 0, disposition |-> "", mission |-> FALSE, replied |-> FALSE]
NoPress == [state |-> "none", disposition |-> "", pressed |-> ""]
NoCard == [state |-> "none", attempts |-> 0, claimed |-> 0, message |-> 0]
Resting == [at |-> "idle", now |-> 0, round |-> 1, batch |-> {}, last |-> 0, pressed |-> FALSE,
            closing |-> "", request |-> 0, answer |-> "", disposition |-> ""]

\* The updates of this behaviour: what the plan's operator sends, in order.
UpdateIds == 1..Len(plan.script)

CommandDispositions == {"RATE_LIMITED", "MALFORMED", "ANSWERED", "CAP_EXCEEDED", "ADMISSION_FAILED", "ADMITTED"}
PressDispositions == {"UNKNOWN_HANDLE", "WRONG_MESSAGE", "NOT_FOUND", "ALREADY_RESOLVED", "EXPIRED",
                      "RESOLVED", "UNAVAILABLE", "DOOR_REFUSED"}

\* The door's rows and the channel's are well formed: an approval that left
\* PENDING did so by a decision or its deadline, and a row ends with a
\* disposition of its own kind of update (approvals, telegram_inbox,
\* telegram_callback_inbox, telegram_approval_cards).
OperatorTypeOK ==
    /\ DoorTypeOK
    /\ updates \in Seq(Update)
    /\ messages \in Seq({"card", "gone", "GRANTED", "DENIED", "EXPIRED"}) /\ offset \in Nat
    /\ \A u \in UpdateIds :
          /\ inbox[u] \in [state : {"none", "RECEIVED", "DONE"}, at : Nat, mission : BOOLEAN,
                           replied : BOOLEAN, disposition : CommandDispositions \cup {""}]
          /\ presses[u] \in [state : {"none", "RECEIVED", "DONE"}, pressed : Decisions \cup {""},
                             disposition : PressDispositions \cup {""}]
          /\ replies[u] \in CommandDispositions \cup {"none"}
    /\ card \in [state : {"none", "QUEUED", "SENDING", "SENT", "RESOLVED"}, attempts : Nat,
                 claimed : Nat, message : Nat]
    /\ poll.batch \subseteq UpdateIds

OperatorInit ==
    /\ DoorInit
    /\ updates = <<>> /\ messages = <<>> /\ offset = 1
    /\ inbox = [u \in UpdateIds |-> NoRow] /\ presses = [u \in UpdateIds |-> NoPress]
    /\ replies = [u \in UpdateIds |-> "none"]
    /\ card = NoCard /\ poll = Resting

\* What a poll step leaves of the door when it sends no request.
DoorUnchanged == UNCHANGED <<plan, flight, issued, others, admissionVars, controlVars, time>>

-----------------------------------------------------------------------------
(* The chat.                                                               *)

\* The operator's next update: a command, or a button of a card in the chat.
SendUpdate ==
    /\ Len(updates) < Len(plan.script)
    /\ LET kind == plan.script[Len(updates) + 1]
       IN \E m \in (IF kind = "PRESS" THEN {n \in DOMAIN messages : messages[n] \in {"card", "gone"}} ELSE {0}),
             d \in (IF kind = "PRESS" THEN Decisions ELSE {""}) :
                updates' = Append(updates, [kind |-> kind, decision |-> d, message |-> m])
    /\ UNCHANGED <<doorVars, messages, offset, inbox, presses, replies, card, poll>>

-----------------------------------------------------------------------------
(* serviceApprovals: show every unseen approval once, and close every      *)
(* settled or expired one.  It runs first in a poll, and again at its end  *)
(* when a button was pressed.                                              *)

\* After a service: the first continues the poll, the second ends it.
Serviced == IF poll.round = 1 THEN [poll EXCEPT !.at = "fetch"] ELSE Resting

\* discover: a card and its handles for the pending approval of a task that
\* waits for it.
Discovered ==
    IF approval.status = "PENDING" /\ gate = "APPROVAL_REQUIRED" /\ card.state = "none"
    THEN [card EXCEPT !.state = "QUEUED"] ELSE card

\* claimToSend: queued, or claimed so long ago that the sender must have died.
ToSend(c) ==
    /\ ApprovalTtl > WorkerClock /\ c.attempts < MaxSendAttempts
    /\ c.state = "QUEUED" \/ (c.state = "SENDING" /\ c.claimed < WorkerClock - StaleSending)

\* operatorTick and deliverDue (NotificationOutbox), or the second service of a
\* poll: create the missing card and claim it for sending.
StartService ==
    /\ poll.at \in {"idle", "service"}
    /\ card' = IF ToSend(Discovered)
               THEN [Discovered EXCEPT !.state = "SENDING", !.attempts = @ + 1, !.claimed = WorkerClock]
               ELSE Discovered
    /\ poll' = [poll EXCEPT !.at = IF ToSend(Discovered) THEN "send" ELSE "list", !.now = WorkerClock]
    /\ UNCHANGED <<doorVars, updates, messages, offset, inbox, presses, replies>>

\* sendCard: an error hands the card back, whether or not Telegram posted it.
SendCard ==
    /\ poll.at = "send"
    /\ \/ /\ messages' = Append(messages, "card")
          /\ poll' = [poll EXCEPT !.at = "mark"] /\ UNCHANGED <<card, faults>>
       \/ /\ Fault
          /\ messages' \in {messages, Append(messages, "card")}
          /\ card' = [card EXCEPT !.state = "QUEUED"]
          /\ poll' = [poll EXCEPT !.at = "list"]
    /\ DoorUnchanged /\ UNCHANGED <<updates, offset, inbox, presses, replies>>

MarkSent ==
    /\ poll.at = "mark"
    /\ card' = IF card.state = "SENDING" THEN [card EXCEPT !.state = "SENT", !.message = Len(messages)] ELSE card
    /\ poll' = [poll EXCEPT !.at = "list"]
    /\ UNCHANGED <<doorVars, updates, messages, offset, inbox, presses, replies>>

\* Mutant: only cards that were shown are listed for closing.
ToCloseShown ==
    /\ card.state = "SENT"
    /\ approval.status # "PENDING" \/ ApprovalTtl <= poll.now

ToClose ==
    /\ card.state \notin {"none", "RESOLVED"}
    /\ approval.status # "PENDING" \/ ApprovalTtl <= poll.now

\* listToClose: a card that was never shown is simply over.
ListToClose ==
    /\ poll.at = "list"
    /\ card' = IF ToClose /\ card.message = 0 THEN [card EXCEPT !.state = "RESOLVED"] ELSE card
    /\ poll' = IF ToClose /\ card.message # 0
               THEN [poll EXCEPT !.at = "close",
                                 !.closing = IF approval.status = "PENDING" THEN "EXPIRED" ELSE approval.status]
               ELSE Serviced
    /\ UNCHANGED <<doorVars, updates, messages, offset, inbox, presses, replies>>

\* closeCard: a transient failure leaves the card for the next poll; a message
\* that Telegram will never let it edit is given up.
CloseCard ==
    /\ poll.at = "close"
    /\ \/ /\ messages' = [messages EXCEPT ![card.message] = poll.closing]
          /\ poll' = [poll EXCEPT !.at = "resolve"] /\ UNCHANGED faults
       \/ /\ Fault /\ poll' = Serviced /\ UNCHANGED messages
       \/ /\ Fault /\ messages' = [messages EXCEPT ![card.message] = "gone"]
          /\ poll' = [poll EXCEPT !.at = "resolve"]
    /\ DoorUnchanged /\ UNCHANGED <<updates, offset, inbox, presses, replies, card>>

MarkResolved ==
    /\ poll.at = "resolve"
    /\ card' = [card EXCEPT !.state = "RESOLVED"] /\ poll' = Serviced
    /\ UNCHANGED <<doorVars, updates, messages, offset, inbox, presses, replies>>

-----------------------------------------------------------------------------
(* pollOnce: fetch, handle in order, then acknowledge the whole batch.     *)

\* Mutant: the batch is acknowledged when it is fetched.
FetchAndAcknowledge ==
    /\ poll.at = "fetch"
    /\ \E fetched \in {{u \in DOMAIN updates : u >= offset}} :
          /\ poll' = [poll EXCEPT !.at = "handle", !.batch = fetched,
                                  !.last = IF fetched = {} THEN 0 ELSE Max(fetched)]
          /\ offset' = IF fetched = {} THEN offset ELSE Max(fetched) + 1
    /\ UNCHANGED <<doorVars, updates, messages, inbox, presses, replies, card>>

\* getUpdates: every update from the offset on, or a failed poll.
FetchUpdates ==
    /\ poll.at = "fetch"
    /\ \/ /\ \E fetched \in {{u \in DOMAIN updates : u >= offset}} :
                poll' = [poll EXCEPT !.at = "handle", !.batch = fetched,
                                     !.last = IF fetched = {} THEN 0 ELSE Max(fetched)]
          /\ UNCHANGED faults
       \/ Fault /\ poll' = Resting
    /\ DoorUnchanged /\ UNCHANGED <<updates, messages, offset, inbox, presses, replies, card>>

Current == Min(poll.batch)
Handling(kinds) == poll.at = "handle" /\ poll.batch # {} /\ updates[Current].kind \in kinds
Handled == [poll EXCEPT !.at = "handle", !.batch = @ \ {Current}, !.request = 0, !.answer = "",
                        !.disposition = ""]

\* classifyUpdate: not the operator's, or nothing this channel acts on.
SkipUpdate ==
    /\ Handling({"IGNORED", "UNAUTHORISED"})
    /\ poll' = Handled
    /\ UNCHANGED <<doorVars, updates, messages, offset, inbox, presses, replies, card>>

\* A request to the door in the name of the current update.
AskDoor(op, key, body) ==
    /\ flight' = flight \cup {NewRequest([who |-> "operator", op |-> op, key |-> key, body |-> body])}
    /\ issued' = issued + 1
    /\ UNCHANGED <<plan, others, admissionVars, controlVars, time, faults>>

\* advanceOffset, then deliver the replies; a pressed button has the cards
\* serviced once more.
AcknowledgeBatch ==
    /\ poll.at = "handle" /\ poll.batch = {}
    /\ offset' = IF poll.last = 0 \/ poll.last + 1 < offset THEN offset ELSE poll.last + 1
    /\ poll' = IF poll.pressed
               THEN [Resting EXCEPT !.at = "service", !.round = 2] ELSE Resting
    /\ UNCHANGED <<doorVars, updates, messages, inbox, presses, replies, card>>

-----------------------------------------------------------------------------
(* handleCallback: a button press.                                         *)

Claimed(rows, u) == rows[u].state = "DONE"

\* What is settled without the door, in the order of the code.
PressVerdict(u) ==
    IF u.decision = "" THEN "UNKNOWN_HANDLE"
    ELSE IF card.message = 0 \/ u.message # card.message THEN "WRONG_MESSAGE"
    ELSE IF approval.status # "PENDING" THEN "ALREADY_RESOLVED"
    ELSE IF WorkerClock >= ApprovalTtl THEN "EXPIRED"
    ELSE ""

HandlePress ==
    /\ Handling({"PRESS", "STRANGE PRESS"})
    /\ LET u == Current
           verdict == PressVerdict(updates[u])
       IN IF Claimed(presses, u)
          THEN /\ poll' = [Handled EXCEPT !.pressed = TRUE]
               /\ UNCHANGED <<presses, doorVars>>
          ELSE /\ presses' = [presses EXCEPT ![u].state = "RECEIVED"]
               /\ IF verdict # ""
                  THEN /\ poll' = [poll EXCEPT !.at = "complete", !.disposition = verdict]
                       /\ UNCHANGED doorVars
                  ELSE /\ AskDoor("APPROVE", 0, updates[u].decision)
                       /\ poll' = [poll EXCEPT !.at = "asked", !.request = issued + 1]
    /\ UNCHANGED <<updates, messages, offset, inbox, replies, card>>

\* HttpDoorClient.approve's reading of the door's answer.
ApproveAnswer(code) ==
    CASE code \in {"200", "202"} -> "ACCEPTED"
      [] code \in {"503", "lost"} -> "UNAVAILABLE"
      [] OTHER -> "REFUSED"

\* Mutant: the door's ACCEPTED is taken for the outcome.
PressOutcomeFromDoor(decision) ==
    IF poll.answer = "ACCEPTED" THEN "RESOLVED"
    ELSE IF approval.status # "PENDING" THEN "ALREADY_RESOLVED"
    ELSE IF poll.answer = "UNAVAILABLE" THEN "UNAVAILABLE"
    ELSE "DOOR_REFUSED"

\* What to say is read back from the ledger.
PressOutcome(decision) ==
    IF poll.answer = "ACCEPTED" /\ approval.status = decision THEN "RESOLVED"
    ELSE IF approval.status # "PENDING" THEN "ALREADY_RESOLVED"
    ELSE IF poll.answer = "UNAVAILABLE" THEN "UNAVAILABLE"
    ELSE "DOOR_REFUSED"

PressReread ==
    /\ poll.at = "reread"
    /\ poll' = [poll EXCEPT !.at = "complete", !.disposition = PressOutcome(updates[Current].decision)]
    /\ UNCHANGED <<doorVars, updates, messages, offset, inbox, presses, replies, card>>

\* completeCallback, then the pop-up, whose failure is ignored.
CompletePress ==
    /\ poll.at = "complete" /\ updates[Current].kind \in {"PRESS", "STRANGE PRESS"}
    /\ presses' = [presses EXCEPT ![Current] = [state |-> "DONE", disposition |-> poll.disposition,
                                                pressed |-> updates[Current].decision]]
    /\ poll' = [Handled EXCEPT !.pressed = TRUE]
    /\ UNCHANGED <<doorVars, updates, messages, offset, inbox, replies, card>>

-----------------------------------------------------------------------------
(* handleCommand.                                                          *)

\* countRecent: commands of the last minute, not this one, not rate-limited.
RecentCommands(u) ==
    {v \in UpdateIds \ {u} : /\ inbox[v].state # "none" /\ inbox[v].at > WorkerClock - Minute
                             /\ inbox[v].disposition # "RATE_LIMITED"}

\* hasRecentRateNotice
RateNoticeSent ==
    \E v \in UpdateIds : inbox[v].disposition = "RATE_LIMITED" /\ inbox[v].replied /\ inbox[v].at > WorkerClock - Minute

\* countMissionsSince the start of the day
MissionsToday(u) ==
    {v \in UpdateIds \ {u} : inbox[v].mission /\ inbox[v].at >= (WorkerClock \div Day) * Day}

\* The disposition of a command that needs no door; "" for one that does.
CommandVerdict(u) ==
    IF Cardinality(RecentCommands(u)) >= RatePerMinute THEN "RATE_LIMITED"
    ELSE IF updates[u].kind = "MALFORMED" THEN "MALFORMED"
    ELSE IF updates[u].kind \in {"STATUS", "TASK", "MEMORY"} THEN "ANSWERED"
    ELSE IF Cardinality(MissionsToday(u)) >= MissionCap THEN "CAP_EXCEEDED"
    ELSE ""

\* Claim the row, decide, and for an admissible mission ask the door under a
\* key derived from the update.
HandleCommand ==
    /\ Handling(CommandKinds)
    /\ LET u == Current
           verdict == CommandVerdict(u)
       IN IF Claimed(inbox, u)
          THEN /\ poll' = Handled
               /\ UNCHANGED <<inbox, doorVars>>
          ELSE /\ inbox' = IF inbox[u].state = "none"
                           THEN [inbox EXCEPT ![u].state = "RECEIVED", ![u].at = WorkerClock] ELSE inbox
               /\ IF verdict # ""
                  THEN /\ poll' = [poll EXCEPT !.disposition = verdict,
                                      !.at = IF verdict = "RATE_LIMITED" /\ RateNoticeSent
                                             THEN "complete" ELSE "reply"]
                       /\ UNCHANGED doorVars
                  ELSE /\ AskDoor("SUBMIT", u, "mission")
                       /\ poll' = [poll EXCEPT !.at = "asked", !.request = issued + 1]
    /\ UNCHANGED <<updates, messages, offset, presses, replies, card>>

\* The door's answer, or the client's own timeout.
DoorAnswers ==
    /\ poll.at = "asked"
    /\ \E r \in flight :
          /\ r.id = poll.request
          /\ \E code \in {r.answer, "lost"} :
                /\ IF code = "lost" /\ r.at # "answered"
                   THEN Fault /\ flight' = (flight \ {r}) \cup {[r EXCEPT !.waited = FALSE]}
                   ELSE r.at = "answered" /\ code = r.answer /\ flight' = flight \ {r} /\ UNCHANGED faults
                /\ poll' = IF r.op = "APPROVE"
                           THEN [poll EXCEPT !.at = "reread", !.answer = ApproveAnswer(code)]
                           ELSE [poll EXCEPT !.at = "reply",
                                    !.disposition = IF code = "202" THEN "ADMITTED" ELSE "ADMISSION_FAILED"]
    /\ UNCHANGED <<plan, issued, others, admissionVars, controlVars, time, updates, messages, offset,
                   inbox, presses, replies, card>>

\* finish, first half: enqueueReply inserts unless the update has a reply.
EnqueueReply ==
    /\ poll.at = "reply"
    /\ replies' = IF replies[Current] = "none" THEN [replies EXCEPT ![Current] = poll.disposition] ELSE replies
    /\ poll' = [poll EXCEPT !.at = "complete", !.answer = "replied"]
    /\ UNCHANGED <<doorVars, updates, messages, offset, inbox, presses, card>>

\* finish, second half.
CompleteCommand ==
    /\ poll.at = "complete" /\ updates[Current].kind \in CommandKinds
    /\ inbox' = [inbox EXCEPT ![Current].state = "DONE", ![Current].disposition = poll.disposition,
                              ![Current].mission = poll.disposition = "ADMITTED",
                              ![Current].replied = poll.answer = "replied"]
    /\ poll' = Handled
    /\ UNCHANGED <<doorVars, updates, messages, offset, presses, replies, card>>

-----------------------------------------------------------------------------

\* The worker dies: the durable step runs again from its start, and nobody
\* waits for the request it had sent.
PollerDies ==
    /\ poll.at # "idle" /\ Fault
    /\ poll' = Resting
    /\ flight' = {IF r.id = poll.request THEN [r EXCEPT !.waited = FALSE] ELSE r :
                     r \in {q \in flight : ~(q.id = poll.request /\ q.at = "answered")}}
    /\ UNCHANGED <<plan, issued, others, admissionVars, controlVars, time, updates, messages, offset,
                   inbox, presses, replies, card>>

PollerStep ==
    \/ StartService \/ SendCard \/ MarkSent \/ ListToClose \/ CloseCard \/ MarkResolved
    \/ FetchUpdates \/ SkipUpdate \/ HandlePress \/ PressReread \/ CompletePress
    \/ HandleCommand \/ DoorAnswers \/ EnqueueReply \/ CompleteCommand \/ AcknowledgeBatch

OperatorNext ==
    \/ PollerStep \/ PollerDies \/ SendUpdate
    \/ DoorStep /\ UNCHANGED channelVars
    \/ WorkerStep /\ UNCHANGED channelVars
    \/ Elapse /\ UNCHANGED channelVars

\* Restate runs the poll and the workflow, and the door serves what it received.
OperatorFairness ==
    /\ WF_operatorVars(PollerStep)
    /\ WF_operatorVars(DoorStep /\ UNCHANGED channelVars)
    /\ WF_operatorVars(WorkerStep /\ UNCHANGED channelVars)

OperatorSpec == OperatorInit /\ [][OperatorNext]_operatorVars /\ OperatorFairness

-----------------------------------------------------------------------------
(* Properties.                                                             *)

\* What the operator is told of a decision is what the ledger holds
\* (handleCallback, renderToast, renderClosed): a press reported as RESOLVED is
\* the decision in force and a closed card shows that decision, although a press
\* may be applied after the channel stopped waiting for it; and unless the
\* worker's clock is ahead of the database's, "has expired, nothing was approved"
\* and a card closed as expired are never followed by a grant.  The toast of
\* UNAVAILABLE, "Nothing was changed", is not among it: a press whose answer was
\* lost may be applied after it.
OperatorToldTruth ==
    /\ \A u \in UpdateIds :
          /\ presses[u].disposition = "RESOLVED" => approval.status = presses[u].pressed
          /\ (presses[u].disposition = "EXPIRED" /\ plan.worker <= plan.db) => approval.status # "GRANTED"
    /\ \A m \in DOMAIN messages :
          /\ messages[m] \in Decisions => approval.status = messages[m]
          /\ (messages[m] = "EXPIRED" /\ plan.worker <= plan.db) => approval.status # "GRANTED"

\* No update is lost or left half done (pollOnce, advanceOffset): everything
\* below the offset was carried to its end, and a command that was admitted
\* names a task the door has.
OffsetCoversHandled ==
    \A u \in UpdateIds :
        /\ u < offset =>
              /\ updates[u].kind \in CommandKinds => inbox[u].state = "DONE"
              /\ updates[u].kind \in {"PRESS", "STRANGE PRESS"} => presses[u].state = "DONE"
        /\ inbox[u].mission => \E a \in admissions : a.who = "operator" /\ a.key = u

\* A settled approval does not keep its card for ever (serviceApprovals): the
\* row is resolved, and the message it names has lost its buttons or is one that
\* Telegram will never edit, whatever died between sending, marking and closing.
\* A first card that died before markSent is named by no row and keeps its buttons.
SettledCardCloses ==
    (card.state # "none" /\ approval.status # "PENDING") ~>
        (card.state = "RESOLVED" /\ (card.message # 0 => messages[card.message] # "card"))
=============================================================================
