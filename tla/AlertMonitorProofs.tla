------------------------- MODULE AlertMonitorProofs -------------------------
(***************************************************************************)
(* The monitor keeps one chain of ticks and announces every episode once,  *)
(* for every set of worlds, outages, runs that die and ticks sent by hand. *)
(* The argument is about what a commit may assume of the rows it read: the *)
(* lock makes them the rows that are there, and the dates of the notices   *)
(* of an episode lie between its opening and now.                          *)
(***************************************************************************)
EXTENDS AlertMonitor, TLAPS

-----------------------------------------------------------------------------
(* The inductive invariant, by parts. *)

\* Only one run is under the lock.
OneHolder == \A r, q \in Runners : step[r] \in Holding /\ step[q] \in Holding => r = q

\* What the run at its commit read is what is there.
ReadIsCurrent == \A r \in Runners : step[r] = "persist" => read[r] = alerts

\* Dates are in the past.
Dated ==
  /\ \A n \in notices : n.first <= n.at /\ n.at <= clock /\ n.check \notin NeverNotified
  /\ \A n \in notices : n.kind = "NEW" => n.at = n.first
  /\ \A n \in notices : n.kind = "RECOVERED" => n.first < n.at
  /\ \A c \in CheckIds : alerts[c].first <= clock

\* The notices of the episode that is open: none is its recovery, each is of an
\* occurrence it has had, and it has one if its recovery would be announced.
OpenEpisode ==
  \A c \in CheckIds : alerts[c].state = "OPEN" =>
    /\ \A n \in notices : n.check = c /\ n.first = alerts[c].first =>
          n.kind # "RECOVERED" /\ n.count <= alerts[c].count /\ alerts[c].notified # 0
    /\ c \notin NeverNotified /\ (c \in Selective => alerts[c].notified # 0) =>
          \E n \in notices : n.check = c /\ n.first = alerts[c].first /\ n.kind # "RECOVERED"

\* The notices of the earlier episodes of a check that is open are older than it.
EpisodeOrder ==
  \A c \in CheckIds : alerts[c].state = "OPEN" =>
    \A n \in notices : n.check = c /\ n.first # alerts[c].first => n.at < alerts[c].first

\* An open row that is not of a silent kind says it was announced.
LoudIsNotified ==
  \A c \in CheckIds :
    alerts[c].state = "OPEN" /\ c \notin NeverNotified /\ (c \in Selective => alerts[c].severity # "P3") =>
      alerts[c].notified # 0

\* An announced episode is open or its recovery is announced.
PastEpisodes ==
  \A m \in notices : m.kind # "RECOVERED" =>
    \/ alerts[m.check].state = "OPEN" /\ alerts[m.check].first = m.first
    \/ \E k \in notices : k.check = m.check /\ k.kind = "RECOVERED" /\ k.first = m.first /\ m.at < k.at

EpisodeInv ==
  /\ MonitorTypeOK /\ OneHolder /\ ReadIsCurrent /\ Dated /\ OpenEpisode /\ PastEpisodes
  /\ EpisodeOrder /\ LoudIsNotified /\ EpisodesAnnounced

-----------------------------------------------------------------------------
(* The reducer. *)

LEMMA SeverityType == ASSUME NEW c, NEW st PROVE SeverityFor(c, st) \in Severities \cup {"none"}
  BY DEF SeverityFor, Severities, SeverityRank

\* UNKNOWN, and only UNKNOWN, is of the lowest severity.
LEMMA UnknownIsP3 ==
  ASSUME NEW c, NEW st, SeverityFor(c, st) \in Severities
  PROVE  st = "UNKNOWN" <=> SeverityFor(c, st) = "P3"
  BY DEF SeverityFor, Severities, SeverityRank

\* The four things that can become of a row.
LEMMA ReduceCases ==
  ASSUME NEW c \in CheckIds, NEW row \in AlertRow, NEW st
  PROVE  \/ row.state # "OPEN" /\ ReduceCheck(c, row, st) = Reduced(row, "none", FALSE)
         \/ row.state = "OPEN" /\ ReduceCheck(c, row, st) = Closed(c, row)
         \/ \E v \in Severities :
              /\ v = SeverityFor(c, st)
              /\ \/ row.state # "OPEN" /\ ReduceCheck(c, row, st) = Opened(c, st, v)
                 \/ row.state = "OPEN" /\ ReduceCheck(c, row, st) = Continued(c, row, st, v)
  BY SeverityType DEF ReduceCheck

Kept(row, new) == new.row = row /\ new.notify = FALSE

ClosedTo(c, row, new) ==
  /\ row.state = "OPEN" /\ new.row.state = "RECOVERED" /\ new.kind = "RECOVERED"
  /\ new.row.first = row.first /\ new.row.count = row.count
  /\ new.notify <=> c \notin NeverNotified /\ (c \in Selective => row.notified # 0)
  /\ new.row.notified = IF new.notify THEN clock + 1 ELSE row.notified

\* The severity of a row is one the policy notifies.
Loud(c, row) == c \notin NeverNotified /\ (c \in Selective => row.severity # "P3")

OpenedTo(c, row, new) ==
  /\ row.state # "OPEN" /\ new.row.state = "OPEN" /\ new.kind = "NEW"
  /\ new.row.first = clock + 1 /\ new.row.count = 1
  /\ new.notify => c \notin NeverNotified
  /\ Loud(c, new.row) => new.notify
  /\ new.row.notified = IF new.notify THEN clock + 1 ELSE 0

ContinuedTo(c, row, new) ==
  /\ row.state = "OPEN" /\ new.row.state = "OPEN"
  /\ new.row.first = row.first /\ new.row.count = row.count + 1
  /\ new.notify => c \notin NeverNotified /\ new.kind \in {"ESCALATED", "DEESCALATED"}
  /\ Loud(c, new.row) => new.notify \/ new.row.severity = row.severity
  /\ new.row.notified = IF new.notify THEN clock + 1 ELSE row.notified

\* What becomes of the row of check c.
Turn(c, row, new) ==
  /\ new.row \in AlertRow /\ new.notify \in BOOLEAN
  /\ Kept(row, new) \/ ClosedTo(c, row, new) \/ OpenedTo(c, row, new) \/ ContinuedTo(c, row, new)

LEMMA Turns ==
  ASSUME NEW c \in CheckIds, NEW row \in AlertRow, clock \in Nat, NEW st
  PROVE  Turn(c, row, ReduceCheck(c, row, st)) /\ Turn(c, row, Reduced(row, "none", FALSE))
<1>1. Turn(c, row, Reduced(row, "none", FALSE))
  BY DEF Turn, Kept, Reduced
<1>2. ASSUME row.state = "OPEN" PROVE Turn(c, row, Closed(c, row))
  <2> DEFINE notify == c \notin NeverNotified /\ (c \in Selective => row.notified # 0)
             date == IF notify THEN clock + 1 ELSE row.notified
             next == [row EXCEPT !.state = "RECOVERED", !.notified = date]
  <2>1. Closed(c, row) = [row |-> next, kind |-> "RECOVERED", notify |-> notify]
    BY DEF Closed, Reduced
  <2>2. /\ next \in AlertRow /\ next.state = "RECOVERED"
        /\ next.first = row.first /\ next.count = row.count /\ next.notified = date
    <3>1. date \in Nat
      BY DEF AlertRow
    <3> HIDE DEF date
    <3> QED BY <3>1 DEF AlertRow
  <2>3. notify \in BOOLEAN
    OBVIOUS
  <2>4. notify <=> c \notin NeverNotified /\ (c \in Selective => row.notified # 0)
    OBVIOUS
  <2> HIDE DEF notify, next
  <2> QED BY <1>2, <2>1, <2>2, <2>3, <2>4 DEF Turn, ClosedTo
<1>3. ASSUME NEW v \in Severities, v = SeverityFor(c, st), row.state # "OPEN" PROVE Turn(c, row, Opened(c, st, v))
  <2> DEFINE notify == PolicyNotifies(c, st)
             next == [state |-> "OPEN", severity |-> v, first |-> clock + 1,
                      notified |-> IF notify THEN clock + 1 ELSE 0, count |-> 1]
  <2>1. Opened(c, st, v) = [row |-> next, kind |-> "NEW", notify |-> notify]
    BY DEF Opened, Reduced
  <2>2. /\ next \in AlertRow /\ next.state = "OPEN" /\ next.first = clock + 1 /\ next.count = 1
        /\ next.severity = v /\ next.notified = IF notify THEN clock + 1 ELSE 0
    BY DEF AlertRow
  <2>3. notify \in BOOLEAN /\ (notify => c \notin NeverNotified)
        /\ (c \notin NeverNotified /\ (c \in Selective => v # "P3") => notify)
    BY <1>3, UnknownIsP3 DEF PolicyNotifies
  <2> HIDE DEF notify, next
  <2> QED BY <1>3, <2>1, <2>2, <2>3 DEF Turn, OpenedTo, Loud
<1>4. ASSUME NEW v \in Severities, v = SeverityFor(c, st), row.state = "OPEN" PROVE Turn(c, row, Continued(c, row, st, v))
  <2> DEFINE kind == IF v = row.severity THEN "none"
                     ELSE IF SeverityRank[v] < SeverityRank[row.severity] THEN "ESCALATED"
                     ELSE "DEESCALATED"
             notify == kind # "none" /\ PolicyNotifies(c, st)
             date == IF notify THEN clock + 1 ELSE row.notified
             count == row.count + 1
             next == [row EXCEPT !.severity = v, !.count = count, !.notified = date]
  <2>1. Continued(c, row, st, v) = [row |-> next, kind |-> kind, notify |-> notify]
    BY DEF Continued, Reduced
  <2>2. /\ next \in AlertRow /\ next.state = "OPEN" /\ next.severity = v
        /\ next.first = row.first /\ next.count = row.count + 1 /\ next.notified = date
    <3>1. date \in Nat
      BY DEF AlertRow
    <3>2. count \in Nat
      BY DEF AlertRow
    <3> HIDE DEF date, count
    <3>3. next \in AlertRow /\ next.state = "OPEN" /\ next.first = row.first /\ next.count = count
          /\ next.notified = date /\ next.severity = v
      BY <1>4, <3>1, <3>2 DEF AlertRow
    <3> QED BY <3>3 DEF count
  <2>3. /\ notify \in BOOLEAN /\ (notify => c \notin NeverNotified /\ kind # "none")
        /\ (c \notin NeverNotified /\ (c \in Selective => v # "P3") => notify \/ v = row.severity)
    BY <1>4, UnknownIsP3 DEF PolicyNotifies
  <2>4. kind \in {"none", "ESCALATED", "DEESCALATED"}
    OBVIOUS
  <2> HIDE DEF notify, next, kind
  <2> QED BY <1>4, <2>1, <2>2, <2>3, <2>4 DEF Turn, ContinuedTo, Loud
<1> QED BY <1>1, <1>2, <1>3, <1>4, ReduceCases

\* A commit in terms of what becomes of each row.
Commits(new) ==
  /\ \A c \in CheckIds : Turn(c, alerts[c], new[c]) /\ alerts'[c] = new[c].row
  /\ alerts' = [c \in CheckIds |-> alerts'[c]]
  /\ notices' = Inserted(IntentsOf(new)) /\ clock' = clock + 1

Intent(c, new) == [check |-> c, first |-> new[c].row.first, kind |-> new[c].kind,
                   count |-> new[c].row.count, at |-> clock + 1]

\* No intent of a commit was queued before, so that all of them are inserted.
LEMMA AllInserted ==
  ASSUME EpisodeInv, NEW new, Commits(new)
  PROVE  notices' = notices \cup {Intent(c, new) : c \in {d \in CheckIds : new[d].notify}}
<1>1. IntentsOf(new) = {Intent(c, new) : c \in {d \in CheckIds : new[d].notify}}
  BY DEF IntentsOf, Intent
<1>2. ASSUME NEW c \in CheckIds, new[c].notify, NEW n \in notices PROVE ~SameNotification(Intent(c, new), n)
  <2>1. /\ Turn(c, alerts[c], new[c]) /\ alerts[c] \in AlertRow /\ clock \in Nat /\ n \in Notice
        /\ n.first <= clock
    BY DEF EpisodeInv, MonitorTypeOK, Commits, Dated, Notice
  <2>2. SUFFICES ASSUME n.check = c, n.first = new[c].row.first, n.kind = new[c].kind,
                        n.count = new[c].row.count
                 PROVE  FALSE
    BY DEF SameNotification, Intent
  <2>3. CASE Kept(alerts[c], new[c])
    BY <1>2, <2>3 DEF Kept
  <2>4. CASE ClosedTo(c, alerts[c], new[c])
    BY <2>2, <2>4 DEF ClosedTo, EpisodeInv, OpenEpisode
  <2>5. CASE OpenedTo(c, alerts[c], new[c])
    BY <2>1, <2>2, <2>5 DEF OpenedTo, Notice
  <2>6. CASE ContinuedTo(c, alerts[c], new[c])
    <3>1. n.count <= alerts[c].count /\ n.count = alerts[c].count + 1
      BY <2>2, <2>6 DEF ContinuedTo, EpisodeInv, OpenEpisode
    <3> QED BY <2>1, <3>1 DEF AlertRow, Notice
  <2> QED BY <2>1, <2>3, <2>4, <2>5, <2>6 DEF Turn
<1> QED BY <1>1, <1>2 DEF Commits, Inserted

LEMMA NoticesAfter ==
  ASSUME EpisodeInv, NEW new, Commits(new)
  PROVE  /\ \A n \in notices : n \in notices'
         /\ \A c \in CheckIds : new[c].notify => Intent(c, new) \in notices'
         /\ \A n \in notices' : n \in notices \/ \E c \in CheckIds : new[c].notify /\ n = Intent(c, new)
  BY AllInserted

LEMMA IntentFields ==
  ASSUME NEW c, NEW new
  PROVE  /\ Intent(c, new).check = c /\ Intent(c, new).first = new[c].row.first
         /\ Intent(c, new).kind = new[c].kind /\ Intent(c, new).count = new[c].row.count
         /\ Intent(c, new).at = clock + 1
  BY DEF Intent

\* What an intent of a commit is.
LEMMA IntentFacts ==
  ASSUME EpisodeInv, NEW new, Commits(new), NEW c \in CheckIds, new[c].notify
  PROVE  /\ c \notin NeverNotified /\ new[c].row.notified = clock + 1
         /\ new[c].kind \in Kinds /\ new[c].row.first <= clock + 1
         /\ new[c].kind = "NEW" <=> OpenedTo(c, alerts[c], new[c])
         /\ new[c].kind = "RECOVERED" <=> ClosedTo(c, alerts[c], new[c])
<1>1. /\ Turn(c, alerts[c], new[c]) /\ clock \in Nat /\ alerts[c].first \in Nat
      /\ alerts[c].first <= clock
  BY DEF Commits, EpisodeInv, MonitorTypeOK, Dated, AlertRow
<1>2. CASE ClosedTo(c, alerts[c], new[c])
  BY <1>1, <1>2 DEF ClosedTo, OpenedTo, Kinds
<1>3. CASE OpenedTo(c, alerts[c], new[c])
  BY <1>1, <1>3 DEF ClosedTo, OpenedTo, Kinds
<1>4. CASE ContinuedTo(c, alerts[c], new[c])
  BY <1>1, <1>4 DEF ClosedTo, OpenedTo, ContinuedTo, Kinds
<1> QED BY <1>1, <1>2, <1>3, <1>4 DEF Turn, Kept

LEMMA CommitTypes ==
  ASSUME EpisodeInv, NEW new, Commits(new)
  PROVE  alerts' \in [CheckIds -> AlertRow] /\ notices' \subseteq Notice /\ clock' \in Nat
<1>1. clock \in Nat /\ clock' \in Nat
  BY DEF EpisodeInv, MonitorTypeOK, Commits
<1>2. alerts' \in [CheckIds -> AlertRow]
  BY DEF Commits, Turn
<1>3. ASSUME NEW c \in CheckIds, new[c].notify PROVE Intent(c, new) \in Notice
  <2>1. new[c].kind \in Kinds /\ new[c].row.first \in Nat /\ new[c].row.count \in Nat
    BY <1>3, IntentFacts DEF Commits, Turn, AlertRow
  <2> QED BY <1>1, <2>1 DEF Intent, Notice
<1>4. notices \subseteq Notice
  BY DEF EpisodeInv, MonitorTypeOK
<1> QED BY <1>1, <1>2, <1>3, <1>4, NoticesAfter

LEMMA CommitDated ==
  ASSUME EpisodeInv, NEW new, Commits(new)
  PROVE  Dated'
<1>0. clock \in Nat /\ clock' = clock + 1
  BY DEF EpisodeInv, MonitorTypeOK, Commits
<1>1. ASSUME NEW c \in CheckIds PROVE alerts'[c].first <= clock'
  BY <1>0 DEF Commits, Turn, Kept, ClosedTo, OpenedTo, ContinuedTo, EpisodeInv, Dated, MonitorTypeOK, AlertRow
<1>2. ASSUME NEW n \in notices'
      PROVE  /\ n.first <= n.at /\ n.at <= clock' /\ n.check \notin NeverNotified
             /\ n.kind = "NEW" => n.at = n.first
             /\ n.kind = "RECOVERED" => n.first < n.at
  <2>1. CASE n \in notices
    BY <1>0, <2>1 DEF EpisodeInv, Dated, MonitorTypeOK, Notice
  <2>2. ASSUME NEW c \in CheckIds, new[c].notify, n = Intent(c, new)
        PROVE  /\ n.first <= n.at /\ n.at <= clock' /\ n.check \notin NeverNotified
               /\ n.kind = "NEW" => n.at = n.first
               /\ n.kind = "RECOVERED" => n.first < n.at
    <3>1. /\ c \notin NeverNotified /\ new[c].row.first <= clock + 1
          /\ new[c].kind = "NEW" <=> OpenedTo(c, alerts[c], new[c])
          /\ new[c].kind = "RECOVERED" <=> ClosedTo(c, alerts[c], new[c])
      BY <2>2, IntentFacts
    <3>2. /\ n.check = c /\ n.first = new[c].row.first /\ n.kind = new[c].kind /\ n.at = clock + 1
      BY <2>2, IntentFields
    <3>3. alerts[c].first <= clock /\ alerts[c].first \in Nat
      BY DEF EpisodeInv, Dated, MonitorTypeOK, AlertRow
    <3> QED BY <1>0, <3>1, <3>2, <3>3 DEF OpenedTo, ClosedTo
  <2> QED BY <1>2, <2>1, <2>2, NoticesAfter
<1> QED BY <1>1, <1>2 DEF Dated

LEMMA CommitOpen ==
  ASSUME EpisodeInv, NEW new, Commits(new)
  PROVE  OpenEpisode'
<1> SUFFICES ASSUME NEW c \in CheckIds, alerts'[c].state = "OPEN"
             PROVE  /\ \A n \in notices' : n.check = c /\ n.first = alerts'[c].first =>
                          n.kind # "RECOVERED" /\ n.count <= alerts'[c].count /\ alerts'[c].notified # 0
                    /\ c \notin NeverNotified /\ (c \in Selective => alerts'[c].notified # 0) =>
                          \E n \in notices' : n.check = c /\ n.first = alerts'[c].first /\ n.kind # "RECOVERED"
  BY DEF OpenEpisode
<1>0. /\ clock \in Nat /\ alerts'[c] = new[c].row /\ Turn(c, alerts[c], new[c])
      /\ alerts[c] \in AlertRow /\ \A n \in notices : n \in Notice /\ n.first <= clock
  BY DEF EpisodeInv, MonitorTypeOK, Commits, Dated, Notice
<1>1. ~ClosedTo(c, alerts[c], new[c])
  BY <1>0 DEF ClosedTo
<1>2. ASSUME NEW n \in notices', n.check = c, n.first = alerts'[c].first
      PROVE  n.kind # "RECOVERED" /\ n.count <= alerts'[c].count /\ alerts'[c].notified # 0
  <2>1. CASE n \in notices
    <3>1. CASE Kept(alerts[c], new[c])
      BY <1>0, <1>2, <2>1, <3>1 DEF Kept, EpisodeInv, OpenEpisode
    <3>2. CASE OpenedTo(c, alerts[c], new[c])
      BY <1>0, <1>2, <2>1, <3>2 DEF OpenedTo, Notice
    <3>3. CASE ContinuedTo(c, alerts[c], new[c])
      <4>1. alerts[c].state = "OPEN" /\ n.first = alerts[c].first
        BY <1>0, <1>2, <3>3 DEF ContinuedTo
      <4>2. n.kind # "RECOVERED" /\ n.count <= alerts[c].count /\ alerts[c].notified # 0
        BY <1>2, <2>1, <4>1 DEF EpisodeInv, OpenEpisode
      <4> QED BY <1>0, <2>1, <3>3, <4>2 DEF ContinuedTo, AlertRow, Notice
    <3> QED BY <1>0, <1>1, <3>1, <3>2, <3>3 DEF Turn
  <2>2. ASSUME NEW d \in CheckIds, new[d].notify, n = Intent(d, new)
        PROVE  n.kind # "RECOVERED" /\ n.count <= alerts'[c].count /\ alerts'[c].notified # 0
    <3>1. d = c /\ n.kind = new[c].kind /\ n.count = new[c].row.count
      BY <1>2, <2>2, IntentFields
    <3>2. new[c].kind # "RECOVERED" /\ new[c].row.notified = clock + 1
      BY <1>1, <2>2, <3>1, IntentFacts
    <3> QED BY <1>0, <3>1, <3>2 DEF Turn, AlertRow
  <2> QED BY <1>2, <2>1, <2>2, NoticesAfter
<1>3. ASSUME c \notin NeverNotified, c \in Selective => alerts'[c].notified # 0
      PROVE  \E n \in notices' : n.check = c /\ n.first = alerts'[c].first /\ n.kind # "RECOVERED"
  <2>1. CASE new[c].notify
    <3>1. new[c].kind # "RECOVERED"
      BY <1>1, <2>1, IntentFacts
    <3>2. Intent(c, new) \in notices'
      BY <2>1, NoticesAfter
    <3> QED BY <1>0, <3>1, <3>2, IntentFields
  <2>2. CASE ~new[c].notify
    <3>1. alerts[c].state = "OPEN" /\ alerts'[c].first = alerts[c].first /\ alerts'[c].notified = alerts[c].notified
      BY <1>0, <1>1, <1>3, <2>2 DEF Turn, Kept, OpenedTo, ContinuedTo, Loud
    <3>2. PICK n \in notices : n.check = c /\ n.first = alerts[c].first /\ n.kind # "RECOVERED"
      BY <1>3, <3>1 DEF EpisodeInv, OpenEpisode
    <3> QED BY <3>1, <3>2, NoticesAfter
  <2> QED BY <2>1, <2>2
<1> QED BY <1>2, <1>3

LEMMA CommitPast ==
  ASSUME EpisodeInv, NEW new, Commits(new)
  PROVE  PastEpisodes'
<1> SUFFICES ASSUME NEW m \in notices', m.kind # "RECOVERED"
             PROVE  \/ alerts'[m.check].state = "OPEN" /\ alerts'[m.check].first = m.first
                    \/ \E k \in notices' : k.check = m.check /\ k.kind = "RECOVERED"
                                           /\ k.first = m.first /\ m.at < k.at
  BY DEF PastEpisodes
<1>0. clock \in Nat
  BY DEF EpisodeInv, MonitorTypeOK
<1>1. CASE m \in notices
  <2> DEFINE c == m.check
  <2>0. /\ c \in CheckIds /\ m.at \in Nat /\ m.at <= clock /\ c \notin NeverNotified
        /\ Turn(c, alerts[c], new[c]) /\ alerts'[c] = new[c].row
    BY <1>1 DEF EpisodeInv, MonitorTypeOK, Notice, Dated, Commits
  <2> HIDE DEF c
  <2>1. CASE \E k \in notices : k.check = c /\ k.kind = "RECOVERED" /\ k.first = m.first /\ m.at < k.at
    BY <2>1, NoticesAfter DEF c
  <2>2. CASE alerts[c].state = "OPEN" /\ alerts[c].first = m.first
    <3>1. CASE ClosedTo(c, alerts[c], new[c])
      <4>1. alerts[c].notified # 0
        BY <1>1, <2>0, <2>2 DEF EpisodeInv, OpenEpisode, c
      <4>2. new[c].notify /\ new[c].kind = "RECOVERED" /\ new[c].row.first = m.first
        BY <2>0, <2>2, <3>1, <4>1 DEF ClosedTo
      <4>3. Intent(c, new) \in notices'
        BY <2>0, <4>2, NoticesAfter
      <4>4. /\ Intent(c, new).check = c /\ Intent(c, new).kind = "RECOVERED"
            /\ Intent(c, new).first = m.first /\ m.at < Intent(c, new).at
        BY <1>0, <2>0, <4>2, IntentFields
      <4> QED BY <4>3, <4>4 DEF c
    <3>2. CASE Kept(alerts[c], new[c]) \/ ContinuedTo(c, alerts[c], new[c])
      BY <2>0, <2>2, <3>2 DEF Kept, ContinuedTo, c
    <3>3. ~OpenedTo(c, alerts[c], new[c])
      BY <2>2 DEF OpenedTo
    <3> QED BY <2>0, <3>1, <3>2, <3>3 DEF Turn
  <2> QED BY <1>1, <2>1, <2>2 DEF EpisodeInv, PastEpisodes, c
<1>2. ASSUME NEW c \in CheckIds, new[c].notify, m = Intent(c, new)
      PROVE  alerts'[m.check].state = "OPEN" /\ alerts'[m.check].first = m.first
  <2>1. m.check = c /\ m.first = new[c].row.first /\ new[c].kind # "RECOVERED"
    BY <1>2, IntentFields
  <2>2. ~ClosedTo(c, alerts[c], new[c]) /\ alerts'[c] = new[c].row /\ Turn(c, alerts[c], new[c])
    BY <1>2, <2>1, IntentFacts DEF Commits
  <2> QED BY <1>2, <2>1, <2>2 DEF Turn, Kept, OpenedTo, ContinuedTo
<1> QED BY <1>1, <1>2, NoticesAfter

LEMMA CommitOrder ==
  ASSUME EpisodeInv, NEW new, Commits(new)
  PROVE  EpisodeOrder'
<1> SUFFICES ASSUME NEW c \in CheckIds, alerts'[c].state = "OPEN",
                    NEW n \in notices', n.check = c, n.first # alerts'[c].first
             PROVE  n.at < alerts'[c].first
  BY DEF EpisodeOrder
<1>0. alerts'[c] = new[c].row /\ Turn(c, alerts[c], new[c]) /\ ~ClosedTo(c, alerts[c], new[c]) /\ clock \in Nat
  BY DEF Commits, ClosedTo, EpisodeInv, MonitorTypeOK
<1>1. n \in notices
  <2>1. ASSUME NEW d \in CheckIds, n = Intent(d, new) PROVE FALSE
    BY <1>0, <2>1, IntentFields
  <2> QED BY <2>1, NoticesAfter
<1>2. CASE OpenedTo(c, alerts[c], new[c])
  <2>1. n.at \in Nat /\ n.at <= clock
    BY <1>1 DEF EpisodeInv, MonitorTypeOK, Dated, Notice
  <2> QED BY <1>0, <1>2, <2>1 DEF OpenedTo
<1>3. CASE ~OpenedTo(c, alerts[c], new[c])
  <2>1. alerts[c].state = "OPEN" /\ alerts'[c].first = alerts[c].first
    BY <1>0, <1>3 DEF Turn, Kept, ContinuedTo
  <2> QED BY <1>1, <2>1 DEF EpisodeInv, EpisodeOrder
<1> QED BY <1>2, <1>3

LEMMA CommitLoud ==
  ASSUME EpisodeInv, NEW new, Commits(new)
  PROVE  LoudIsNotified'
<1> SUFFICES ASSUME NEW c \in CheckIds, alerts'[c].state = "OPEN", Loud(c, alerts'[c])
             PROVE  alerts'[c].notified # 0
  BY DEF LoudIsNotified, Loud
<1>0. /\ alerts'[c] = new[c].row /\ Turn(c, alerts[c], new[c]) /\ ~ClosedTo(c, alerts[c], new[c])
      /\ clock \in Nat /\ (alerts[c].state = "OPEN" /\ Loud(c, alerts[c]) => alerts[c].notified # 0)
  BY DEF Commits, ClosedTo, EpisodeInv, MonitorTypeOK, LoudIsNotified, Loud
<1>1. CASE new[c].notify
  BY <1>0, <1>1, IntentFacts
<1>2. CASE ~new[c].notify
  BY <1>0, <1>2 DEF Turn, Kept, OpenedTo, ContinuedTo, Loud
<1> QED BY <1>1, <1>2

LEMMA CommitQueued ==
  ASSUME EpisodeInv, NEW new, Commits(new)
  PROVE  NotifiedIsQueued'
<1> SUFFICES ASSUME NEW c \in CheckIds, alerts'[c].notified # 0
             PROVE  \E n \in notices' : n.check = c /\ n.at = alerts'[c].notified
  BY DEF NotifiedIsQueued
<1>0. alerts'[c] = new[c].row /\ Turn(c, alerts[c], new[c])
  BY DEF Commits
<1>1. CASE new[c].notify
  <2>1. new[c].row.notified = clock + 1 /\ Intent(c, new) \in notices'
    BY <1>1, IntentFacts, NoticesAfter
  <2> QED BY <1>0, <2>1, IntentFields
<1>2. CASE ~new[c].notify
  <2>1. alerts'[c].notified = alerts[c].notified
    BY <1>0, <1>2 DEF Turn, Kept, ClosedTo, OpenedTo, ContinuedTo
  <2>2. PICK n \in notices : n.check = c /\ n.at = alerts[c].notified
    BY <2>1 DEF EpisodeInv, EpisodesAnnounced, NotifiedIsQueued
  <2> QED BY <2>1, <2>2, NoticesAfter
<1> QED BY <1>1, <1>2

LEMMA CommitOnce ==
  ASSUME EpisodeInv, NEW new, Commits(new)
  PROVE  AnnouncedOnce'
<1> SUFFICES ASSUME NEW m \in notices', NEW n \in notices',
                    m.check = n.check, m.kind = "NEW", n.kind = "NEW", m.at < n.at
             PROVE  \E k \in notices' : k.check = m.check /\ k.kind = "RECOVERED" /\ k.first = m.first
                                        /\ m.at < k.at /\ k.at < n.at
  BY DEF AnnouncedOnce
<1>0. /\ clock \in Nat /\ clock' = clock + 1 /\ n.at <= clock + 1 /\ n.at \in Nat
      /\ \A k \in notices : k.at \in Nat /\ k.at <= clock
  BY CommitDated, CommitTypes DEF EpisodeInv, MonitorTypeOK, Commits, Dated, Notice
<1>1. m \in notices
  <2>1. ASSUME NEW c \in CheckIds, m = Intent(c, new) PROVE FALSE
    BY <1>0, <2>1, IntentFields
  <2> QED BY <2>1, NoticesAfter
<1>2. CASE n \in notices
  <2>1. PICK k \in notices : k.check = m.check /\ k.kind = "RECOVERED" /\ k.first = m.first
                             /\ m.at < k.at /\ k.at < n.at
    BY <1>1, <1>2 DEF EpisodeInv, EpisodesAnnounced, AnnouncedOnce
  <2> QED BY <2>1, NoticesAfter
<1>3. ASSUME NEW c \in CheckIds, new[c].notify, n = Intent(c, new)
      PROVE  \E k \in notices : k.check = m.check /\ k.kind = "RECOVERED" /\ k.first = m.first
                                /\ m.at < k.at /\ k.at < n.at
  <2>1. n.check = c /\ n.at = clock + 1 /\ new[c].kind = "NEW"
    BY <1>3, IntentFields
  <2>2. alerts[c].state # "OPEN"
    BY <1>3, <2>1, IntentFacts DEF OpenedTo
  <2>3. PICK k \in notices : k.check = m.check /\ k.kind = "RECOVERED" /\ k.first = m.first /\ m.at < k.at
    BY <1>1, <2>1, <2>2 DEF EpisodeInv, PastEpisodes
  <2> QED BY <1>0, <2>1, <2>3
<1> QED BY <1>2, <1>3, NoticesAfter

LEMMA CommitRecovery ==
  ASSUME EpisodeInv, NEW new, Commits(new)
  PROVE  RecoveryWasAnnounced'
<1> SUFFICES ASSUME NEW n \in notices', n.kind = "RECOVERED"
             PROVE  \E m \in notices : m.kind # "RECOVERED" /\ m.check = n.check /\ m.first = n.first
                                       /\ m.at < n.at
  BY NoticesAfter DEF RecoveryWasAnnounced
<1>1. CASE n \in notices
  BY <1>1 DEF EpisodeInv, EpisodesAnnounced, RecoveryWasAnnounced
<1>2. ASSUME NEW c \in CheckIds, new[c].notify, n = Intent(c, new)
      PROVE  \E m \in notices : m.kind # "RECOVERED" /\ m.check = n.check /\ m.first = n.first
                                /\ m.at < n.at
  <2>1. n.check = c /\ n.at = clock + 1 /\ new[c].kind = "RECOVERED" /\ n.first = new[c].row.first
    BY <1>2, IntentFields
  <2>2. ClosedTo(c, alerts[c], new[c])
    BY <1>2, <2>1, IntentFacts
  <2>3. /\ alerts[c].state = "OPEN" /\ n.first = alerts[c].first
        /\ c \notin NeverNotified /\ (c \in Selective => alerts[c].notified # 0)
    BY <1>2, <2>1, <2>2 DEF ClosedTo
  <2>4. PICK m \in notices : m.check = c /\ m.first = alerts[c].first /\ m.kind # "RECOVERED"
    BY <2>3 DEF EpisodeInv, OpenEpisode
  <2>5. m.at <= clock /\ m.at \in Nat /\ clock \in Nat
    BY DEF EpisodeInv, MonitorTypeOK, Dated, Notice
  <2> QED BY <2>1, <2>3, <2>4, <2>5
<1> QED BY <1>1, <1>2, NoticesAfter

-----------------------------------------------------------------------------
(* Steps. *)

LEMMA PersistCommits ==
  ASSUME EpisodeInv, NEW r \in Runners, Persist(r)
  PROVE  \E new : Commits(new)
<1> DEFINE report == Evaluate(Collect(Facts[saw[r].world], saw[r].down))
           new == ReduceChecks(report, alerts)
<1>1. read[r] = alerts
  BY DEF EpisodeInv, ReadIsCurrent, Persist
<1>2. /\ alerts' = [c \in CheckIds |-> new[c].row] /\ notices' = Inserted(IntentsOf(new))
      /\ clock' = clock + 1
  BY <1>1 DEF Persist, PutAll
<1>3. ASSUME NEW c \in CheckIds PROVE Turn(c, alerts[c], new[c])
  <2>1. alerts[c] \in AlertRow /\ clock \in Nat
    BY DEF EpisodeInv, MonitorTypeOK
  <2>2. new[c] \in {Reduced(alerts[c], "none", FALSE), ReduceCheck(c, alerts[c], report[c])}
    BY DEF ReduceChecks
  <2> HIDE DEF new, report
  <2> QED BY <2>1, <2>2, Turns
<1> HIDE DEF new
<1>4. Commits(new)
  BY <1>2, <1>3 DEF Commits
<1> QED BY <1>4

LEMMA CommitKeeps ==
  ASSUME EpisodeInv, NEW new, Commits(new)
  PROVE  /\ Dated' /\ OpenEpisode' /\ PastEpisodes' /\ EpisodesAnnounced'
         /\ EpisodeOrder' /\ LoudIsNotified'
  BY CommitDated, CommitOpen, CommitPast, CommitQueued, CommitOnce, CommitRecovery, CommitOrder, CommitLoud
     DEF EpisodesAnnounced

LEMMA StoreKept ==
  ASSUME EpisodeInv, UNCHANGED <<alerts, notices, clock>>
  PROVE  /\ Dated' /\ OpenEpisode' /\ PastEpisodes' /\ EpisodesAnnounced'
         /\ EpisodeOrder' /\ LoudIsNotified'
<1>1. Dated' /\ OpenEpisode' /\ PastEpisodes' /\ EpisodeOrder' /\ LoudIsNotified'
  BY DEF EpisodeInv, Dated, OpenEpisode, PastEpisodes, EpisodeOrder, LoudIsNotified
<1>2. EpisodesAnnounced'
  BY DEF EpisodeInv, EpisodesAnnounced, NotifiedIsQueued, AnnouncedOnce, RecoveryWasAnnounced
<1> QED BY <1>1, <1>2

LEMMA TypeInit == MonitorInit => MonitorTypeOK
  BY DEF MonitorInit, MonitorTypeOK, NoAlert, AlertRow, Runners

LEMMA PersistTypes ==
  ASSUME EpisodeInv, NEW r \in Runners, Persist(r)
  PROVE  MonitorTypeOK'
<1>1. PICK new : Commits(new)
  BY PersistCommits
<1>2. alerts' \in [CheckIds -> AlertRow] /\ notices' \subseteq Notice /\ clock' \in Nat
  BY <1>1, CommitTypes
<1>3. sent' \subseteq notices'
  BY <1>1, NoticesAfter DEF Persist, PutAll, EpisodeInv, MonitorTypeOK
<1> QED BY <1>2, <1>3 DEF EpisodeInv, MonitorTypeOK, Persist, PutAll, Goto, chainVars

LEMMA TypeStep == EpisodeInv /\ [MonitorNext]_monitorVars => MonitorTypeOK'
<1> SUFFICES ASSUME EpisodeInv, [MonitorNext]_monitorVars PROVE MonitorTypeOK'
  OBVIOUS
<1>0. MonitorTypeOK
  BY DEF EpisodeInv
<1> USE DEF MonitorTypeOK, chainVars, storeVars, runVars, Goto
<1>1. ASSUME NEW r \in Runners, RunnerStep(r) PROVE MonitorTypeOK'
  <2>1. CASE Acquire(r)
    BY <1>0, <2>1 DEF Acquire
  <2>2. CASE CollectSnapshot(r)
    BY <1>0, <2>2 DEF CollectSnapshot
  <2>3. CASE ReadAlerts(r)
    BY <1>0, <2>3 DEF ReadAlerts
  <2>4. CASE Persist(r)
    BY <2>4, PersistTypes
  <2>5. CASE Deliver(r)
    BY <1>0, <2>5 DEF Deliver
  <2>6. CASE StateFailed(r)
    BY <1>0, <2>6 DEF StateFailed
  <2>7. CASE Die(r)
    BY <1>0, <2>7 DEF Die
  <2> QED BY <1>1, <2>1, <2>2, <2>3, <2>4, <2>5, <2>6, <2>7 DEF RunnerStep
<1>2. CASE StartCli
  BY <1>0, <1>2 DEF StartCli, Runners
<1>3. CASE ExitCli \/ Advance
  <2>1. [c \in CheckIds |-> NoAlert] \in [CheckIds -> AlertRow]
    BY DEF NoAlert, AlertRow
  <2>2. read' \in [Runners -> [CheckIds -> AlertRow]]
    BY <1>0, <1>3, <2>1 DEF ExitCli, Advance, Forgotten
  <2>3. CASE ExitCli
    BY <1>0, <2>2, <2>3 DEF ExitCli, Runners
  <2>4. CASE Advance
    <3>1. handling + 1 \in Nat
      BY <1>0
    <3> QED BY <1>0, <2>2, <2>4, <3>1 DEF Advance, Runners
  <2> QED BY <1>3, <2>3, <2>4
<1>4. CASE Redeploy
  BY <1>0, <1>4 DEF Redeploy
<1>5. ASSUME NEW n \in 0..nextSequence, IgnoreTick(n) \/ HandleTick(n) \/ SendTick(n) PROVE MonitorTypeOK'
  <2>0. n \in Nat
    BY <1>0
  <2>1. CASE IgnoreTick(n)
    BY <1>0, <2>0, <2>1 DEF IgnoreTick
  <2>2. CASE HandleTick(n)
    BY <1>0, <2>0, <2>2 DEF HandleTick, Runners
  <2>3. CASE SendTick(n)
    BY <1>0, <2>0, <2>3 DEF SendTick
  <2> QED BY <1>5, <2>1, <2>2, <2>3
<1>6. CASE UNCHANGED monitorVars
  BY <1>0, <1>6 DEF monitorVars
<1> QED BY <1>1, <1>2, <1>3, <1>4, <1>5, <1>6 DEF MonitorNext

LEMMA LockStep == EpisodeInv /\ [MonitorNext]_monitorVars => OneHolder' /\ ReadIsCurrent'
<1> SUFFICES ASSUME EpisodeInv, [MonitorNext]_monitorVars PROVE OneHolder' /\ ReadIsCurrent'
  OBVIOUS
<1>0. MonitorTypeOK /\ OneHolder /\ ReadIsCurrent
  BY DEF EpisodeInv
<1> USE DEF MonitorTypeOK, OneHolder, ReadIsCurrent, chainVars, storeVars, runVars, Goto, Holding
<1>1. ASSUME NEW r \in Runners, RunnerStep(r) PROVE OneHolder' /\ ReadIsCurrent'
  <2>1. CASE Acquire(r)
    BY <1>0, <2>1 DEF Acquire, LockFree
  <2>2. CASE CollectSnapshot(r)
    BY <1>0, <2>2 DEF CollectSnapshot
  <2>3. CASE ReadAlerts(r)
    BY <1>0, <2>3 DEF ReadAlerts
  <2>4. CASE Persist(r)
    BY <1>0, <2>4 DEF Persist, PutAll
  <2>5. CASE Deliver(r)
    BY <1>0, <2>5 DEF Deliver
  <2>6. CASE StateFailed(r)
    BY <1>0, <2>6 DEF StateFailed
  <2>7. CASE Die(r)
    BY <1>0, <2>7 DEF Die
  <2> QED BY <1>1, <2>1, <2>2, <2>3, <2>4, <2>5, <2>6, <2>7 DEF RunnerStep
<1>2. CASE StartCli
  BY <1>0, <1>2 DEF StartCli
<1>3. CASE ExitCli
  BY <1>0, <1>3 DEF ExitCli, Forgotten
<1>4. CASE Advance
  BY <1>0, <1>4 DEF Advance, Forgotten
<1>5. CASE Redeploy
  BY <1>0, <1>5 DEF Redeploy
<1>6. ASSUME NEW n \in 0..nextSequence, IgnoreTick(n) \/ HandleTick(n) \/ SendTick(n)
      PROVE  OneHolder' /\ ReadIsCurrent'
  BY <1>0, <1>6 DEF IgnoreTick, HandleTick, SendTick
<1>7. CASE UNCHANGED monitorVars
  BY <1>0, <1>7 DEF monitorVars
<1> QED BY <1>1, <1>2, <1>3, <1>4, <1>5, <1>6, <1>7 DEF MonitorNext

LEMMA EpisodeStep == EpisodeInv /\ [MonitorNext]_monitorVars => EpisodeInv'
<1> SUFFICES ASSUME EpisodeInv, [MonitorNext]_monitorVars PROVE EpisodeInv'
  OBVIOUS
<1>1. MonitorTypeOK' /\ OneHolder' /\ ReadIsCurrent'
  BY TypeStep, LockStep
<1>2. CASE \E r \in Runners : Persist(r)
  BY <1>1, <1>2, PersistCommits, CommitKeeps DEF EpisodeInv
<1>3. CASE ~\E r \in Runners : Persist(r)
  <2>1. UNCHANGED <<alerts, notices, clock>>
    BY <1>3 DEF MonitorNext, RunnerStep, Acquire, CollectSnapshot, ReadAlerts, Deliver, StateFailed, Die,
         StartCli, ExitCli, Advance, Redeploy, IgnoreTick, HandleTick, SendTick, monitorVars, storeVars
  <2> QED BY <1>1, <2>1, StoreKept DEF EpisodeInv
<1> QED BY <1>2, <1>3

LEMMA EpisodeInit == MonitorInit => EpisodeInv
<1> SUFFICES ASSUME MonitorInit PROVE EpisodeInv
  OBVIOUS
<1>1. MonitorTypeOK
  BY TypeInit
<1>2. /\ notices = {} /\ clock = 0 /\ \A r \in Runners : step[r] = "idle"
      /\ \A c \in CheckIds : alerts[c] = NoAlert
  BY DEF MonitorInit
<1>3. OneHolder /\ ReadIsCurrent
  BY <1>2 DEF OneHolder, ReadIsCurrent, Holding
<1>4. Dated /\ OpenEpisode /\ PastEpisodes /\ EpisodeOrder /\ LoudIsNotified
  BY <1>2 DEF Dated, OpenEpisode, PastEpisodes, EpisodeOrder, LoudIsNotified, NoAlert
<1>5. EpisodesAnnounced
  BY <1>2 DEF EpisodesAnnounced, NotifiedIsQueued, AnnouncedOnce, RecoveryWasAnnounced, NoAlert
<1> QED BY <1>1, <1>3, <1>4, <1>5 DEF EpisodeInv

\* The monitor's state is well formed, for every scenario.
THEOREM MonitorTypeCorrect == MonitorSpec => []MonitorTypeOK
<1>1. EpisodeInv => MonitorTypeOK
  BY DEF EpisodeInv
<1> QED BY <1>1, EpisodeInit, EpisodeStep, PTL DEF MonitorSpec

\* For every set of worlds, outages and deaths and any number of runs by hand,
\* every announcement an alert row records is queued, an episode is announced
\* once, and a recovery only of an episode that was.
THEOREM MonitorEpisodesAnnounced == MonitorSpec => []EpisodesAnnounced
<1>1. EpisodeInv => EpisodesAnnounced
  BY DEF EpisodeInv
<1> QED BY <1>1, EpisodeInit, EpisodeStep, PTL DEF MonitorSpec

-----------------------------------------------------------------------------
(* The chain of ticks. *)

LEMMA ChainStep == MonitorTypeOK /\ OneChain /\ [MonitorNext]_monitorVars => OneChain'
<1> SUFFICES ASSUME MonitorTypeOK, OneChain, [MonitorNext]_monitorVars PROVE OneChain'
  OBVIOUS
<1> USE DEF MonitorTypeOK, OneChain, chainVars, runVars, Goto
<1>1. ASSUME NEW r \in Runners, RunnerStep(r) PROVE OneChain'
  <2>1. /\ UNCHANGED <<ticks, handling, nextSequence>> /\ step[r] # "idle"
        /\ \E st : Goto(r, st) /\ (r = "tick" => st # "idle")
    BY <1>1 DEF RunnerStep, Acquire, CollectSnapshot, ReadAlerts, Persist, PutAll, Deliver, StateFailed, Die, Holding
  <2> QED BY <2>1 DEF Runners
<1>2. CASE StartCli \/ ExitCli
  BY <1>2 DEF StartCli, ExitCli, Runners
<1>3. CASE Advance
  BY <1>3 DEF Advance, Runners
<1>4. CASE Redeploy
  BY <1>4 DEF Redeploy
<1>5. ASSUME NEW n \in 0..nextSequence, IgnoreTick(n) \/ HandleTick(n) \/ SendTick(n) PROVE OneChain'
  <2>1. CASE IgnoreTick(n)
    BY <2>1 DEF IgnoreTick
  <2>2. CASE HandleTick(n)
    BY <2>2 DEF HandleTick, Runners
  <2>3. CASE SendTick(n)
    BY <2>3 DEF SendTick
  <2> QED BY <1>5, <2>1, <2>2, <2>3
<1>6. CASE UNCHANGED monitorVars
  BY <1>6 DEF monitorVars
<1> QED BY <1>1, <1>2, <1>3, <1>4, <1>5, <1>6 DEF MonitorNext

\* However often a tick is sent again, late or twice, and whatever dies, there is
\* one chain of evaluations.
THEOREM MonitorOneChain == MonitorSpec => []OneChain
<1>1. MonitorInit => OneChain
  BY DEF MonitorInit, OneChain, Runners
<1> QED BY <1>1, ChainStep, MonitorTypeCorrect, PTL DEF MonitorSpec

-----------------------------------------------------------------------------
(***************************************************************************)
(* What was told.  A commit settles every check its report has; a check    *)
(* that the report leaves out keeps its row.                               *)
(***************************************************************************)

\* A row that shows a status: open exactly if it has a severity, and with it.
Shows(c, row, status) ==
  /\ row.state = "OPEN" <=> Fails(c, status)
  /\ row.state = "OPEN" => row.severity = SeverityFor(c, status)

\* Every check of the last committed report is shown.
VerdictsShown ==
  observed # NothingSeen =>
    \A c \in CheckIds : Report(observed)[c] # "none" => Shows(c, alerts[c], Report(observed)[c])

\* reduceCheck leaves a row that shows the status.
LEMMA ReducedShows ==
  ASSUME NEW c \in CheckIds, NEW row \in AlertRow, NEW st
  PROVE  Shows(c, ReduceCheck(c, row, st).row, st)
<1>1. CASE SeverityFor(c, st) = "none"
  <2>1. CASE row.state = "OPEN"
    <3> DEFINE notify == c \notin NeverNotified /\ (c \in Selective => row.notified # 0)
               date == IF notify THEN clock + 1 ELSE row.notified
               next == [row EXCEPT !.state = "RECOVERED", !.notified = date]
    <3>1. ReduceCheck(c, row, st) = [row |-> next, kind |-> "RECOVERED", notify |-> notify]
      BY <1>1, <2>1 DEF ReduceCheck, Closed, Reduced
    <3>2. next.state = "RECOVERED"
      BY DEF AlertRow
    <3> HIDE DEF next, notify
    <3> QED BY <1>1, <3>1, <3>2 DEF Shows, Fails
  <2>2. CASE row.state # "OPEN"
    BY <1>1, <2>2 DEF ReduceCheck, Reduced, Shows, Fails
  <2> QED BY <2>1, <2>2
<1>2. CASE SeverityFor(c, st) # "none"
  <2>1. CASE row.state = "OPEN"
    <3> DEFINE v == SeverityFor(c, st)
               kind == IF v = row.severity THEN "none"
                       ELSE IF SeverityRank[v] < SeverityRank[row.severity] THEN "ESCALATED"
                       ELSE "DEESCALATED"
               notify == kind # "none" /\ PolicyNotifies(c, st)
               date == IF notify THEN clock + 1 ELSE row.notified
               count == row.count + 1
               next == [row EXCEPT !.severity = v, !.count = count, !.notified = date]
    <3>1. ReduceCheck(c, row, st) = [row |-> next, kind |-> kind, notify |-> notify]
      BY <1>2, <2>1 DEF ReduceCheck, Continued, Reduced
    <3>2. next.state = "OPEN" /\ next.severity = v
      BY <2>1 DEF AlertRow
    <3> HIDE DEF next, notify, kind
    <3> QED BY <1>2, <3>1, <3>2 DEF Shows, Fails
  <2>2. CASE row.state # "OPEN"
    BY <1>2, <2>2 DEF ReduceCheck, Opened, Reduced, Shows, Fails
  <2> QED BY <2>1, <2>2
<1> QED BY <1>1, <1>2

\* A commit settles the checks its report has, and leaves the others.
LEMMA PersistSettles ==
  ASSUME EpisodeInv, NEW r \in Runners, Persist(r), NEW c \in CheckIds
  PROVE  IF Report(saw[r])[c] = "none" THEN alerts'[c] = alerts[c]
         ELSE Shows(c, alerts'[c], Report(saw[r])[c])
<1> DEFINE report == Report(saw[r])
           new == ReduceChecks(report, read[r])
<1>1. read[r] = alerts /\ alerts[c] \in AlertRow
  BY DEF Persist, EpisodeInv, ReadIsCurrent, MonitorTypeOK
<1>2. alerts'[c] = new[c].row
  BY DEF Persist, PutAll, Report
<1>3. new[c] = IF report[c] = "none" THEN Reduced(alerts[c], "none", FALSE)
               ELSE ReduceCheck(c, alerts[c], report[c])
  BY <1>1 DEF ReduceChecks
<1>4. report[c] = Report(saw[r])[c]
  OBVIOUS
<1> HIDE DEF report, new
<1>5. CASE report[c] = "none"
  BY <1>2, <1>3, <1>4, <1>5 DEF Reduced
<1>6. CASE report[c] # "none"
  BY <1>1, <1>2, <1>3, <1>4, <1>6, ReducedShows
<1> QED BY <1>5, <1>6

LEMMA ShownStep == EpisodeInv /\ VerdictsShown /\ [MonitorNext]_monitorVars => VerdictsShown'
<1> SUFFICES ASSUME EpisodeInv, VerdictsShown, [MonitorNext]_monitorVars PROVE VerdictsShown'
  OBVIOUS
<1>1. ASSUME NEW r \in Runners, Persist(r) PROVE VerdictsShown'
  <2>1. observed' = saw[r]
    BY <1>1 DEF Persist
  <2> SUFFICES ASSUME NEW c \in CheckIds, Report(observed')[c] # "none"
               PROVE  Shows(c, alerts'[c], Report(observed')[c])
    BY DEF VerdictsShown, Report, Shows, Fails
  <2> QED BY <1>1, <2>1, PersistSettles
<1>2. CASE ~\E r \in Runners : Persist(r)
  <2>1. UNCHANGED <<alerts, observed>>
    BY <1>2 DEF MonitorNext, RunnerStep, Acquire, CollectSnapshot, ReadAlerts, Deliver, StateFailed, Die,
         StartCli, ExitCli, Advance, Redeploy, IgnoreTick, HandleTick, SendTick, monitorVars, storeVars
  <2> QED BY <2>1 DEF VerdictsShown, Report, Shows, Fails
<1> QED BY <1>1, <1>2

\* A check that fails with a status the policy notifies has an announcement that no
\* recovery follows.
LEMMA FailureIsTold ==
  ASSUME EpisodeInv, NEW c \in CheckIds, NEW status, Shows(c, alerts[c], status),
         Fails(c, status), PolicyNotifies(c, status)
  PROVE  \E n \in notices : /\ n.check = c /\ n.kind # "RECOVERED"
                            /\ \A k \in notices : k.check = c /\ k.kind = "RECOVERED" => k.at < n.at
<1>1. alerts[c].state = "OPEN" /\ alerts[c].severity = SeverityFor(c, status) /\ alerts[c] \in AlertRow
  BY DEF Shows, EpisodeInv, MonitorTypeOK
<1>2. alerts[c].severity \in Severities
  BY <1>1, SeverityType DEF Fails
<1>3. c \notin NeverNotified /\ (c \in Selective => alerts[c].severity # "P3")
  BY <1>1, <1>2, UnknownIsP3 DEF PolicyNotifies
<1>4. alerts[c].notified # 0
  BY <1>1, <1>3 DEF EpisodeInv, LoudIsNotified
<1>5. PICK n \in notices : n.check = c /\ n.first = alerts[c].first /\ n.kind # "RECOVERED"
  BY <1>1, <1>3, <1>4 DEF EpisodeInv, OpenEpisode
<1>6. ASSUME NEW k \in notices, k.check = c, k.kind = "RECOVERED" PROVE k.at < n.at
  <2>1. k.first # alerts[c].first
    BY <1>1, <1>6 DEF EpisodeInv, OpenEpisode
  <2>2. k.at < alerts[c].first
    BY <1>1, <1>6, <2>1 DEF EpisodeInv, EpisodeOrder
  <2>3. n.first <= n.at /\ n \in Notice /\ k \in Notice
    BY DEF EpisodeInv, Dated, MonitorTypeOK
  <2> QED BY <1>5, <2>2, <2>3 DEF Notice
<1> QED BY <1>5, <1>6

\* For every set of worlds, outages, deaths and overlapping runs, the last word queued
\* about a check is what the last committed report found of it.
THEOREM MonitorVerdictsTold == MonitorSpec => []VerdictsTold
<1>1. EpisodeInv /\ VerdictsShown => VerdictsTold
  <2> SUFFICES ASSUME EpisodeInv, VerdictsShown, observed # NothingSeen, NEW c \in CheckIds
               PROVE  LET report == Report(observed)
                          alarms == {n \in notices : n.check = c /\ n.kind # "RECOVERED"}
                          recoveries == {n \in notices : n.check = c /\ n.kind = "RECOVERED"}
                      IN /\ Fails(c, report[c]) /\ PolicyNotifies(c, report[c]) =>
                                \E n \in alarms : \A k \in recoveries : k.at < n.at
                         /\ report[c] # "none" /\ ~Fails(c, report[c]) =>
                                \A n \in alarms : \E k \in recoveries : n.at < k.at
    BY DEF VerdictsTold
  <2> DEFINE status == Report(observed)[c]
  <2>0. status # "none" => Shows(c, alerts[c], status)
    BY DEF VerdictsShown
  <2> HIDE DEF status
  <2>1. ASSUME Fails(c, status), PolicyNotifies(c, status)
        PROVE  \E n \in notices : /\ n.check = c /\ n.kind # "RECOVERED"
                                  /\ \A k \in notices : k.check = c /\ k.kind = "RECOVERED" => k.at < n.at
    <3>1. status # "none"
      BY <2>1 DEF Fails, SeverityFor
    <3> QED BY <2>0, <2>1, <3>1, FailureIsTold
  <2>2. ASSUME status # "none", ~Fails(c, status), NEW n \in notices, n.check = c, n.kind # "RECOVERED"
        PROVE  \E k \in notices : k.check = c /\ k.kind = "RECOVERED" /\ n.at < k.at
    BY <2>0, <2>2 DEF Shows, EpisodeInv, PastEpisodes
  <2> QED BY <2>1, <2>2 DEF status
<1>2. MonitorInit => VerdictsShown
  BY DEF MonitorInit, VerdictsShown
<1> QED BY <1>1, <1>2, EpisodeInit, EpisodeStep, ShownStep, PTL DEF MonitorSpec

=============================================================================
