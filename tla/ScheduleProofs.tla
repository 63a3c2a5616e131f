--------------------------- MODULE ScheduleProofs ---------------------------
(***************************************************************************)
(* What Schedule does for all teams, matches, times and thresholds, and     *)
(* however often HLTV moves a match or a page cannot be read.              *)
(***************************************************************************)
EXTENDS Schedule, TLAPS

----------------------------------------------------------------------------
\* Type correctness.

Rows == [seen : BOOLEAN, start : Starts \union {NoTime}, missing : BOOLEAN,
         state : MatchStates, pending : Starts \union {NoTime},
         since : 0..Horizon \union {NoTime}]

\* What a page does to a row leaves a row.
LEMMA MovedIsRow ==
  ASSUME NEW r \in Rows, NEW observed \in Starts, clock \in 0..Horizon
  PROVE  Moved(r, observed) \in Rows
  BY DEF Moved, ClearPending, Rows

LEMMA EntryRowIsRow ==
  ASSUME NEW r \in Rows, NEW entry \in Pages \ {Gone}, clock \in 0..Horizon
  PROVE  EntryRow(r, entry) \in Rows
<1>1. entry.at \in Starts
  BY DEF Pages, Upcoming, Played
<1>2. Moved(r, entry.at) \in Rows
  BY <1>1, MovedIsRow
<1>3. Unseen \in Rows
  BY DEF Unseen, Rows, MatchStates
<1>4. CASE r.seen
  BY <1>2, <1>4, ZenonT(30) DEF EntryRow, Rows
<1>5. CASE ~r.seen
  BY <1>1, <1>3, <1>5 DEF EntryRow, Rows, MatchStates, Unseen
<1> QED
  BY <1>4, <1>5

LEMMA VanishedRowIsRow ==
  ASSUME NEW r \in Rows PROVE VanishedRow(r) \in Rows
  BY DEF VanishedRow, Rows, MatchStates

\* Events name a match and a time of it.
Named(e) == e.match \in Matches /\ e.at \in Starts \union {NoTime}

LEMMA EventsAreNamed ==
  ASSUME NEW m \in Matches, NEW r, NEW entry \in Pages \ {Gone}, NEW boot
  PROVE  /\ \A e \in EntryEvents(m, r, entry, boot) : Named(e)
         /\ \A e \in VanishedEvents(m, r, boot) : Named(e)
<1>1. entry.at \in Starts
  BY DEF Pages, Upcoming, Played
<1> QED
  BY <1>1 DEF EntryEvents, MoveEvents, VanishedEvents, E1, E2, E3, Named

\* One team's page applied.
LEMMA ApplyType ==
  ASSUME ScheduleTypeOK, NEW t \in Teams, Apply(t)
  PROVE  /\ row' \in [Matches -> Rows] /\ links' \in [Matches -> SUBSET Teams]
         /\ booted' \subseteq Teams /\ \A e \in told' : Named(e)
<1> DEFINE boot == t \notin booted
           listed == {m \in Matches : page[t][m] # Gone}
           vanished == TrackedMatchIds(row, links, t) \ listed
<1>1. /\ row \in [Matches -> Rows] /\ clock \in 0..Horizon
      /\ \A m \in listed : page[t][m] \in Pages \ {Gone}
      /\ \A e \in told : Named(e)
  BY DEF ScheduleTypeOK, Rows, Named
<1>2. \A m \in Matches : row[m] \in Rows
  BY <1>1
<1>3. row' \in [Matches -> Rows]
  <2>1. \A m \in listed : EntryRow(row[m], page[t][m]) \in Rows
    BY <1>1, <1>2, EntryRowIsRow
  <2>2. \A m \in Matches : VanishedRow(row[m]) \in Rows
    BY <1>2, VanishedRowIsRow
  <2> HIDE DEF listed, vanished
  <2>3. row' = [m \in Matches |-> IF m \in listed THEN EntryRow(row[m], page[t][m])
                                  ELSE IF m \in vanished THEN VanishedRow(row[m])
                                  ELSE row[m]]
    BY DEF Apply, listed, vanished
  <2> QED
    BY <1>2, <2>1, <2>2, <2>3
<1>4. links' \in [Matches -> SUBSET Teams] /\ booted' \subseteq Teams
  BY DEF Apply, ScheduleTypeOK
<1>5. \A e \in told' : Named(e)
  <2>1. vanished \subseteq Matches /\ listed \subseteq Matches
    BY DEF TrackedMatchIds
  <2>2. \A m \in listed : \A e \in EntryEvents(m, row[m], page[t][m], boot) : Named(e)
    BY <1>1, EventsAreNamed
  <2>3. \A m \in vanished : \A e \in VanishedEvents(m, row[m], boot) : Named(e)
    <3>1. \A m \in Matches : \A e \in VanishedEvents(m, row[m], boot) : Named(e)
      BY DEF VanishedEvents, E3, Named
    <3> QED
      BY <2>1, <3>1
  <2> HIDE DEF listed, vanished, boot
  <2>4. told' = told
          \union ((UNION {EntryEvents(m, row[m], page[t][m], boot) : m \in listed})
                  \union (UNION {VanishedEvents(m, row[m], boot) : m \in vanished}))
    BY DEF Apply, listed, vanished, boot
  <2> QED
    BY <1>1, <2>2, <2>3, <2>4
<1> QED
  BY <1>3, <1>4, <1>5

LEMMA ScheduleInitTypeOK == ScheduleInit => ScheduleTypeOK
<1> SUFFICES ASSUME ScheduleInit PROVE ScheduleTypeOK
  OBVIOUS
<1> USE ScheduleAssumption DEF ScheduleInit
<1>1. /\ clock \in 0..Horizon /\ truth \in [Matches -> Starts]
      /\ nextPoll \in 0..(Horizon + IdleEvery + PrematchEvery)
  OBVIOUS
<1>2. page \in [Teams -> [Matches -> Pages]]
  BY DEF Pages
<1>3. row \in [Matches -> Rows]
  BY DEF Unseen, Rows, MatchStates
<1>4. /\ links \in [Matches -> SUBSET Teams] /\ booted \subseteq Teams
      /\ phase \in {"waiting", "polling"} /\ todo \subseteq Teams /\ force \in BOOLEAN
      /\ rechecked \in [Matches -> Starts \union {NoTime}] /\ told = {}
  OBVIOUS
<1>5. PageMode(FALSE) \in {"live", "due", "prematch", "idle"}
  BY DEF PageMode, ActiveMatches
<1> QED
  BY <1>1, <1>2, <1>3, <1>4, <1>5 DEF ScheduleTypeOK, Rows

\* Without a feed the match-page loop never waits as if there were one.
LEMMA PageModeType == PageMode(FALSE) \in {"live", "due", "prematch", "idle"}
  BY DEF PageMode

LEMMA ScheduleNextTypeOK ==
  ASSUME ScheduleTypeOK, [ScheduleNext]_scheduleVars
  PROVE  ScheduleTypeOK'
<1> USE ScheduleAssumption
<1>0. PageMode(FALSE)' \in {"live", "due", "prematch", "idle"}
  BY DEF PageMode
<1>1. ASSUME NEW m \in Matches, Reschedule(m) PROVE ScheduleTypeOK'
  <2>1. truth' \in [Matches -> Starts]
    BY <1>1 DEF Reschedule, ScheduleTypeOK
  <2> QED
    BY <1>0, <1>1, <2>1 DEF Reschedule, ScheduleTypeOK, matchRows, loop
<1>2. ASSUME NEW t \in Teams, NEW m \in Matches, Publish(t, m) \/ DropFromPage(t, m)
      PROVE  ScheduleTypeOK'
  <2>1. truth[m] \in Starts
    BY DEF ScheduleTypeOK
  <2>2. /\ Played(truth[m]) \in Pages /\ Upcoming(truth[m]) \in Pages /\ Gone \in Pages
    BY <2>1 DEF Pages
  <2>3. page' \in [Teams -> [Matches -> Pages]]
    <3>1. page \in [Teams -> [Matches -> Pages]] /\ page[t] \in [Matches -> Pages]
      BY DEF ScheduleTypeOK
    <3>2. \A p \in Pages : [page EXCEPT ![t][m] = p] \in [Teams -> [Matches -> Pages]]
      BY <3>1
    <3>3. \E p \in Pages : page' = [page EXCEPT ![t][m] = p]
      BY <1>2, <2>2 DEF Publish, DropFromPage
    <3> QED
      BY <3>2, <3>3
  <2> QED
    BY <1>0, <1>2, <2>3 DEF Publish, DropFromPage, ScheduleTypeOK, matchRows, loop
<1>3. CASE StartRound \/ RequestPoll
  BY <1>0, <1>3 DEF StartRound, RequestPoll, ScheduleTypeOK, hltv, matchRows
<1>4. ASSUME NEW t \in Teams, PollTeam(t) PROVE ScheduleTypeOK'
  <2>1. /\ UNCHANGED <<clock, truth, page, phase, force, nextPoll, rechecked>>
        /\ todo' \subseteq Teams
    BY <1>4 DEF PollTeam, ScheduleTypeOK, hltv
  <2>2. CASE Apply(t)
    BY <1>0, <2>1, <2>2, ApplyType DEF ScheduleTypeOK, Rows, Named
  <2>3. CASE UNCHANGED matchRows
    BY <1>0, <2>1, <2>3 DEF ScheduleTypeOK, matchRows
  <2> QED
    BY <1>4, <2>2, <2>3 DEF PollTeam
<1>5. CASE EndRound
  <2>1. clock' = clock /\ clock \in 0..Horizon
    BY <1>5 DEF EndRound, ScheduleTypeOK
  <2>2. nextPoll' = clock + IntervalFor(CurrentMode)
    BY <1>5 DEF EndRound
  <2>3. IntervalFor(CurrentMode) \in {IdleEvery, PrematchEvery}
    BY DEF IntervalFor
  <2>4. nextPoll' \in 0..(Horizon + IdleEvery + PrematchEvery)
    BY <2>1, <2>2, <2>3
  <2> QED
    BY <1>0, <1>5, <2>4 DEF EndRound, ScheduleTypeOK, hltv, matchRows
<1>6. ASSUME NEW m \in Matches, PollMatch(m) PROVE ScheduleTypeOK'
  <2>1. row' \in [Matches -> Rows]
    <3>1. PageState(m) \in MatchStates
      BY DEF PageState, MatchStates
    <3>2. row \in [Matches -> Rows]
      BY DEF ScheduleTypeOK, Rows
    <3>3. [row[m] EXCEPT !.state = PageState(m)] \in Rows
      BY <3>1, <3>2 DEF Rows
    <3>4. row' = row \/ row' = [row EXCEPT ![m] = [row[m] EXCEPT !.state = PageState(m)]]
      BY <1>6, <3>2 DEF PollMatch
    <3> QED
      BY <3>2, <3>3, <3>4
  <2>2. rechecked' \in [Matches -> Starts \union {NoTime}] /\ force' \in BOOLEAN
    <3>1. truth[m] \in Starts /\ rechecked \in [Matches -> Starts \union {NoTime}]
          /\ force \in BOOLEAN
      BY DEF ScheduleTypeOK
    <3>2. rechecked' \in [Matches -> Starts \union {NoTime}]
      BY <1>6, <3>1 DEF PollMatch, NoticeMovedStart
    <3>3. force' \in BOOLEAN
      BY <1>6, <3>1, Zenon DEF PollMatch, NoticeMovedStart
    <3> QED
      BY <3>2, <3>3
  <2>3. UNCHANGED <<clock, truth, page, links, booted, told, phase, todo, nextPoll>>
    BY <1>6 DEF PollMatch, hltv
  <2> QED
    BY <1>0, <2>1, <2>2, <2>3 DEF ScheduleTypeOK, Rows
<1>7. CASE Remind
  <2>1. \A m \in Matches : EffectiveStart(row[m]) \in Starts \union {NoTime}
    BY DEF ScheduleTypeOK, EffectiveStart
  <2>2. \A e \in told' : e \in told \/ \E m \in Matches, lead \in Leads :
                                      e = E10(m, EffectiveStart(row[m]), lead)
    BY <1>7 DEF Remind, UpcomingMatches
  <2>3. \A e \in told' : e.match \in Matches /\ e.at \in Starts \union {NoTime}
    BY <2>1, <2>2 DEF E10, ScheduleTypeOK
  <2>4. UNCHANGED <<clock, truth, page, row, links, booted, phase, todo, force, nextPoll,
                    rechecked>>
    BY <1>7 DEF Remind, hltv, loop
  <2> QED
    BY <1>0, <2>3, <2>4 DEF ScheduleTypeOK
<1>8. CASE Tick
  <2>1. clock' \in 0..Horizon
    BY <1>8 DEF Tick, ScheduleTypeOK
  <2> QED
    BY <1>0, <1>8, <2>1 DEF Tick, ScheduleTypeOK, hltv, matchRows, loop
<1>9. CASE UNCHANGED scheduleVars
  BY <1>0, <1>9 DEF scheduleVars, ScheduleTypeOK, hltv, matchRows, loop
<1> QED
  BY <1>1, <1>2, <1>3, <1>4, <1>5, <1>6, <1>7, <1>8, <1>9 DEF ScheduleNext

\* Every variable keeps its type.
THEOREM ScheduleTypeCorrect == ScheduleSpec => []ScheduleTypeOK
  BY ScheduleInitTypeOK, ScheduleNextTypeOK, PTL DEF ScheduleSpec

----------------------------------------------------------------------------
\* Requests for a poll.

\* What is still unread since a request is asked for, or still to be read in the round.
RequestInv ==
  /\ unread \subseteq Teams
  /\ unread # {} => force \/ (phase = "polling" /\ unread \subseteq todo)

LEMMA RequestNextInv == RequestInv /\ [ScheduleNext]_scheduleVars => RequestInv'
<1> SUFFICES ASSUME RequestInv, [ScheduleNext]_scheduleVars PROVE RequestInv'
  OBVIOUS
<1>1. ASSUME NEW m \in Matches, PollMatch(m) PROVE RequestInv'
  <2>1. phase' = phase /\ todo' = todo
    BY <1>1 DEF PollMatch
  <2>2. unread' = unread \/ unread' = Teams
    BY <1>1 DEF PollMatch, NoticeMovedStart
  <2>3. force => force'
    BY <1>1, Zenon DEF PollMatch, NoticeMovedStart
  <2>4. unread' # unread => force'
    BY <1>1, Zenon DEF PollMatch, NoticeMovedStart
  <2> QED
    BY <2>1, <2>2, <2>3, <2>4, Zenon DEF RequestInv
<1>2. ASSUME NEW t \in Teams, PollTeam(t) PROVE RequestInv'
  BY <1>2 DEF PollTeam, RequestInv
<1>3. CASE StartRound \/ RequestPoll \/ EndRound
  BY <1>3 DEF StartRound, RequestPoll, EndRound, RequestInv
<1>4. ASSUME \/ \E m \in Matches : Reschedule(m)
             \/ \E t \in Teams, m \in Matches : Publish(t, m) \/ DropFromPage(t, m)
             \/ Remind \/ Tick \/ UNCHANGED scheduleVars
      PROVE  RequestInv'
  <2>1. UNCHANGED <<unread, phase, todo, force>>
    BY <1>4 DEF Reschedule, Publish, DropFromPage, Remind, Tick, scheduleVars, loop
  <2> QED
    BY <2>1 DEF RequestInv
<1> QED
  BY <1>1, <1>2, <1>3, <1>4 DEF ScheduleNext

\* The schedule loop never waits on a request that it has not served.
THEOREM RequestsAreServed == ScheduleSpec => []NoRequestSleeps
<1>1. ScheduleInit => RequestInv
  BY DEF ScheduleInit, RequestInv
<1>2. RequestInv => NoRequestSleeps
  BY DEF RequestInv, NoRequestSleeps
<1> QED
  BY <1>1, <1>2, RequestNextInv, PTL DEF ScheduleSpec

----------------------------------------------------------------------------
\* Moves that are told.

Shown == [at : Starts \union {NoTime}, since : Int, off : Int]

\* A proposal under debounce is the entry read last, and has been since before its
\* window began.
Proposed(m) ==
  /\ shown[m].at \in Starts \union {NoTime}
  /\ shown[m].since \in Int /\ shown[m].since <= clock
  /\ row[m].pending # NoTime =>
       /\ shown[m].at = row[m].pending
       /\ row[m].since # NoTime => shown[m].since <= row[m].since
HeldInv ==
  /\ ScheduleTypeOK
  /\ shown \in [Matches -> Shown]
  /\ \A m \in Matches : Proposed(m)

LEMMA ApplyKeepsProposals ==
  ASSUME HeldInv, NEW t \in Teams, Apply(t), clock' = clock
  PROVE  /\ shown' \in [Matches -> Shown]
         /\ \A m \in Matches : Proposed(m)'
<1> DEFINE listed == {m \in Matches : page[t][m] # Gone}
           vanished == TrackedMatchIds(row, links, t) \ listed
<1>1. /\ clock \in Int
      /\ \A m \in Matches : row[m] \in Rows
      /\ \A m \in listed : page[t][m] \in Pages \ {Gone} /\ page[t][m].at \in Starts
  <2>1. /\ \A m \in Matches : row[m] \in Rows /\ page[t][m] \in Pages
        /\ clock \in Int
    BY ScheduleAssumption DEF HeldInv, ScheduleTypeOK, Rows
  <2>2. \A p \in Pages \ {Gone} : p.at \in Starts
    BY DEF Pages, Upcoming, Played
  <2> QED
    BY <2>1, <2>2
<1>2. /\ \A m \in listed : ReadAt(m, page[t][m]) \in Shown
      /\ \A m \in Matches : /\ OffAt(m) \in Shown
                             /\ OffAt(m).at = shown[m].at /\ OffAt(m).since = shown[m].since
  <2>1. \A m \in Matches : shown[m] \in Shown
    BY DEF HeldInv
  <2>2. \A m \in listed : ReadAt(m, page[t][m]) \in Shown
    BY <1>1, <2>1 DEF ReadAt, Shown, NoTime
  <2>3. \A m \in Matches : /\ OffAt(m) \in Shown
                            /\ OffAt(m).at = shown[m].at /\ OffAt(m).since = shown[m].since
    BY <1>1, <2>1 DEF OffAt, Shown
  <2> QED
    BY <2>2, <2>3
<1>3. shown' = [m \in Matches |-> IF m \in listed THEN ReadAt(m, page[t][m])
                                  ELSE IF m \in vanished THEN OffAt(m)
                                  ELSE shown[m]]
  BY DEF Apply
<1>4. row' = [m \in Matches |-> IF m \in listed THEN EntryRow(row[m], page[t][m])
                                ELSE IF m \in vanished THEN VanishedRow(row[m])
                                ELSE row[m]]
  BY DEF Apply
<1>5. ASSUME NEW m \in Matches PROVE Proposed(m)'
  <2>0. Proposed(m) /\ shown[m] \in Shown
    BY DEF HeldInv
  <2>1. CASE m \in listed
    <3> DEFINE entry == page[t][m]
    <3>1. row'[m] = EntryRow(row[m], entry) /\ shown'[m] = ReadAt(m, entry)
      BY <1>3, <1>4, <2>1
    <3>2. CASE ~row[m].seen
      <4>1. row'[m].pending = NoTime
        BY <3>1, <3>2 DEF EntryRow, Unseen
      <4> QED
        BY <1>1, <2>0, <2>1, <3>1, <4>1 DEF ReadAt, Proposed
    <3>3. CASE row[m].seen /\ entry.shown = "played"
      <4>1. row'[m].pending = row[m].pending /\ row'[m].since = row[m].since
        BY <1>1, <3>1, <3>3 DEF EntryRow, Rows
      <4>2. shown'[m] = shown[m]
        BY <3>1, <3>3 DEF ReadAt
      <4> QED
        BY <2>0, <4>1, <4>2 DEF Proposed
    <3>4. CASE row[m].seen /\ entry.shown # "played"
      <4>1. entry.shown = "upcoming" /\ entry.at \in Starts
        BY <1>1, <2>1, <3>4 DEF Pages, Upcoming, Played
      <4>2. /\ row'[m].pending = Moved(row[m], entry.at).pending
            /\ row'[m].since = Moved(row[m], entry.at).since
        BY <1>1, <3>1, <3>4, <4>1, MovedIsRow, ScheduleAssumption
        DEF EntryRow, Rows, HeldInv, ScheduleTypeOK
      <4>3. shown'[m].at = entry.at /\ shown'[m].since \in Int /\ shown'[m].since <= clock
        BY <1>1, <2>0, <3>1, <4>1 DEF ReadAt, Proposed
      <4>4. \/ Moved(row[m], entry.at).pending = NoTime
            \/ Moved(row[m], entry.at) = row[m] /\ row[m].pending = entry.at
            \/ /\ Moved(row[m], entry.at).pending = entry.at
               /\ Moved(row[m], entry.at).since = clock
        BY <1>1 DEF Moved, ClearPending, Rows
      <4>5. shown[m].at = entry.at => shown'[m] = shown[m]
        BY <3>1 DEF ReadAt
      <4>6. CASE Moved(row[m], entry.at).pending = NoTime
        BY <4>1, <4>2, <4>3, <4>6 DEF Proposed
      <4>7. CASE Moved(row[m], entry.at) = row[m] /\ row[m].pending = entry.at
        <5>1. entry.at # NoTime
          BY <4>1, ScheduleAssumption DEF NoTime
        <5>2. shown'[m] = shown[m] /\ shown[m].at = entry.at
          BY <2>0, <4>5, <4>7, <5>1 DEF Proposed
        <5> QED
          BY <2>0, <4>1, <4>2, <4>3, <4>7, <5>1, <5>2 DEF Proposed
      <4>8. CASE /\ Moved(row[m], entry.at).pending = entry.at
                 /\ Moved(row[m], entry.at).since = clock
        BY <4>1, <4>2, <4>3, <4>8 DEF Proposed
      <4> QED
        BY <4>4, <4>6, <4>7, <4>8
    <3> QED
      BY <3>2, <3>3, <3>4
  <2>2. CASE m \notin listed
    <3>1. shown'[m].at = shown[m].at /\ shown'[m].since = shown[m].since
      BY <1>2, <1>3, <2>2
    <3>2. row'[m].pending = row[m].pending /\ row'[m].since = row[m].since
      BY <1>1, <1>4, <2>2 DEF VanishedRow, Rows
    <3> QED
      BY <2>0, <3>1, <3>2 DEF Proposed
  <2> QED
    BY <2>1, <2>2
<1>6. shown' \in [Matches -> Shown]
  <2> HIDE DEF listed, vanished
  <2>1. \A m \in Matches : shown[m] \in Shown
    BY DEF HeldInv
  <2> QED
    BY <1>2, <1>3, <2>1
<1> QED
  BY <1>5, <1>6

LEMMA HeldInitInv == ScheduleInit => HeldInv
<1> SUFFICES ASSUME ScheduleInit PROVE HeldInv
  OBVIOUS
<1>1. /\ \A m \in Matches : shown[m] = [at |-> NoTime, since |-> NoTime, off |-> NoTime]
      /\ shown = [m \in Matches |-> [at |-> NoTime, since |-> NoTime, off |-> NoTime]]
      /\ \A m \in Matches : row[m] = Unseen
      /\ clock = 0
  BY DEF ScheduleInit
<1>2. \A m \in Matches : Proposed(m)
  BY <1>1 DEF Proposed, Unseen, NoTime
<1>3. shown \in [Matches -> Shown]
  BY <1>1 DEF NoTime, Shown
<1> QED
  BY <1>2, <1>3, ScheduleInitTypeOK DEF HeldInv

LEMMA HeldNextInv == HeldInv /\ [ScheduleNext]_scheduleVars => HeldInv'
<1> SUFFICES ASSUME HeldInv, [ScheduleNext]_scheduleVars PROVE HeldInv'
  OBVIOUS
<1>1. ScheduleTypeOK'
  BY ScheduleNextTypeOK DEF HeldInv
<1>2. clock \in Nat /\ row \in [Matches -> Rows]
  BY ScheduleAssumption DEF HeldInv, ScheduleTypeOK, Rows
<1>3. ASSUME NEW t \in Teams, PollTeam(t)
      PROVE  /\ shown' \in [Matches -> Shown]
             /\ \A m \in Matches : Proposed(m)'
  <2>1. clock' = clock /\ (Apply(t) \/ UNCHANGED <<row, shown>>)
    BY <1>3 DEF PollTeam, matchRows
  <2>2. CASE UNCHANGED <<row, shown>>
    BY <2>1, <2>2 DEF HeldInv, Proposed
  <2> QED
    BY <2>1, <2>2, ApplyKeepsProposals
<1>4. ASSUME \/ \E m \in Matches : Reschedule(m) \/ PollMatch(m)
             \/ \E t \in Teams, m \in Matches : Publish(t, m) \/ DropFromPage(t, m)
             \/ StartRound \/ EndRound \/ RequestPoll \/ Remind \/ Tick
             \/ UNCHANGED scheduleVars
      PROVE  /\ shown' \in [Matches -> Shown]
             /\ \A m \in Matches : Proposed(m)'
  <2>1. shown' = shown /\ (clock' = clock \/ clock' = clock + 1)
    BY <1>4 DEF Reschedule, PollMatch, Publish, DropFromPage, StartRound, EndRound,
                RequestPoll, Remind, Tick, scheduleVars, matchRows
  <2>2. \A m \in Matches : row'[m].pending = row[m].pending /\ row'[m].since = row[m].since
    <3>1. CASE \E m \in Matches : PollMatch(m)
      <4>1. \/ row' = row
            \/ \E m \in Matches : row' = [row EXCEPT ![m].state = PageState(m)]
        BY <3>1 DEF PollMatch
      <4> QED
        BY <1>2, <4>1 DEF Rows
    <3>2. CASE ~ \E m \in Matches : PollMatch(m)
      <4>1. row' = row
        BY <1>4, <3>2 DEF Reschedule, Publish, DropFromPage, StartRound, EndRound,
                          RequestPoll, Remind, Tick, scheduleVars, matchRows
      <4> QED
        BY <4>1
    <3> QED
      BY <3>1, <3>2
  <2> QED
    BY <1>2, <2>1, <2>2 DEF HeldInv, Proposed
<1>5. /\ shown' \in [Matches -> Shown]
      /\ \A m \in Matches : Proposed(m)'
  BY <1>3, <1>4 DEF ScheduleNext
<1> QED
  BY <1>1, <1>5 DEF HeldInv

\* An E2 comes of an entry that was read, and one that waited has been held.
LEMMA ToldMoveWasHeld ==
  ASSUME HeldInv, [ScheduleNext]_scheduleVars, NEW m \in Matches, NEW at \in Starts,
         E2(m, at) \in told' \ told
  PROVE  \/ Earlier(row[m].start, at) - clock <= Debounce
         \/ shown'[m].at = at /\ clock - shown'[m].since >= Debounce
<1>1. PICK t \in Teams : PollTeam(t) /\ Apply(t)
  <2>1. ~Remind
    <3>1. \A k, start, lead : E2(m, at) # E10(k, start, lead)
      BY DEF E2, E10
    <3>2. Remind => \A e \in told' \ told :
                      \E k \in Matches, lead \in Leads :
                         e = E10(k, EffectiveStart(row[k]), lead)
      BY DEF Remind, UpcomingMatches
    <3> QED
      BY <3>1, <3>2
  <2>2. told' # told
    OBVIOUS
  <2> QED
    BY <2>1, <2>2 DEF ScheduleNext, Reschedule, PollMatch, Publish, DropFromPage, StartRound,
                      EndRound, RequestPoll, Tick, PollTeam, scheduleVars, matchRows
<1> DEFINE boot == t \notin booted
           entry == page[t][m]
<1>2. E2(m, at) \in EntryEvents(m, row[m], entry, boot) /\ entry # Gone
  <2> DEFINE listed == {k \in Matches : page[t][k] # Gone}
             vanished == TrackedMatchIds(row, links, t) \ listed
  <2>1. told' = told
          \union ((UNION {EntryEvents(k, row[k], page[t][k], boot) : k \in listed})
                  \union (UNION {VanishedEvents(k, row[k], boot) : k \in vanished}))
    BY <1>1 DEF Apply
  <2>2. \A k \in vanished : E2(m, at) \notin VanishedEvents(k, row[k], boot)
    BY DEF VanishedEvents, E3, E2
  <2>3. \A k \in listed : E2(m, at) \in EntryEvents(k, row[k], page[t][k], boot) => k = m
    BY DEF EntryEvents, MoveEvents, E1, E2
  <2>4. \E k \in listed : E2(m, at) \in EntryEvents(k, row[k], page[t][k], boot)
    <3> HIDE DEF listed, vanished
    <3> QED
      BY <2>1, <2>2
  <2> QED
    BY <2>3, <2>4
<1>3. /\ row[m].seen /\ entry.shown # "played" /\ entry.at = at
      /\ Shift(at, row[m].start) >= MinShift /\ Moved(row[m], at).start = at
      /\ at # row[m].start
  BY <1>2 DEF EntryEvents, MoveEvents, E1, E2
<1>4. /\ row[m] \in Rows /\ clock \in Int /\ Proposed(m) /\ at \in Int /\ at # NoTime
      /\ row[m].start \in Int /\ MinShift \in Int
  <2>1. row[m] \in Rows /\ clock \in Int /\ Proposed(m)
    BY ScheduleAssumption DEF HeldInv, ScheduleTypeOK, Rows
  <2>2. at \in Nat /\ MinShift \in Int
    BY ScheduleAssumption
  <2>3. row[m].start \in Starts \union {NoTime}
    BY <2>1 DEF Rows
  <2>4. row[m].start \in Int
    BY <2>3, ScheduleAssumption DEF NoTime
  <2> QED
    BY <2>1, <2>2, <2>4 DEF NoTime
<1>5. NoTimeToWait(row[m], at) \/ Held(row[m], at)
  <2>1. ~(Shift(at, row[m].start) < MinShift)
    BY <1>3, <1>4 DEF Shift
  <2> QED
    BY <1>3, <1>4, <2>1 DEF Moved, Rows
<1>6. CASE NoTimeToWait(row[m], at)
  BY <1>6 DEF NoTimeToWait
<1>7. CASE Held(row[m], at)
  <2>1. shown[m].at = at /\ shown[m].since <= row[m].since
    BY <1>4, <1>7 DEF Held, Proposed
  <2>2. shown'[m] = shown[m]
    <3>1. shown'[m] = ReadAt(m, entry)
      BY <1>1, <1>2 DEF Apply
    <3> QED
      BY <1>3, <2>1, <3>1 DEF ReadAt
  <2>3. row[m].since \in Int /\ Debounce \in Int
    BY <1>4, ScheduleAssumption DEF Rows, NoTime
  <2> QED
    BY <1>4, <1>7, <2>1, <2>2, <2>3 DEF Held, Proposed
<1> QED
  BY <1>5, <1>6, <1>7

\* A move is told only when every page read for the whole window said the same, or
\* when there was no window left.
THEOREM MovesAreHeld == ScheduleSpec => MoveWasHeld
<1>1. HeldInv /\ [ScheduleNext]_scheduleVars =>
        [\A m \in Matches, at \in Starts : E2(m, at) \in told' \ told =>
           \/ Earlier(row[m].start, at) - clock <= Debounce
           \/ shown'[m].at = at /\ clock - shown'[m].since >= Debounce]_scheduleVars
  BY ToldMoveWasHeld
<1> QED
  BY <1>1, HeldInitInv, HeldNextInv, PTL DEF ScheduleSpec, MoveWasHeld

----------------------------------------------------------------------------
\* Reminders.

\* The entry read last is what the row expects, debounced or not, and while no page
\* has dropped the match it is not missing; so the minute before its start has it
\* among the upcoming ones, and after that minute it has been reminded of.
InTime(m) ==
  /\ shown[m].since <= shown[m].at - 2
  /\ shown[m].off = NoTime \/ shown[m].off >= shown[m].at
Reminded(m) ==
  /\ NoTime <= shown[m].since /\ shown[m].off <= clock
  /\ shown[m].at # NoTime =>
       /\ row[m].seen /\ EffectiveStart(row[m]) = shown[m].at
       /\ shown[m].off = NoTime => ~row[m].missing
       /\ /\ clock >= shown[m].at \/ (clock = shown[m].at - 1 /\ reminded = clock)
          /\ InTime(m)
          => \A lead \in Leads : E10(m, shown[m].at, lead) \in told
RemindInv ==
  /\ reminded \in Int /\ reminded <= clock
  /\ \A m \in Matches : Reminded(m)

\* A start that was read, or none, is a number.
LEMMA TimesAreNumbers ==
  ASSUME NEW x \in Starts \union {NoTime} PROVE x \in Int
  BY ScheduleAssumption DEF NoTime

\* A time read on a page is the one the row expects, from then on.
LEMMA MovedIsExpected ==
  ASSUME NEW r \in Rows, NEW at \in Starts
  PROVE  EffectiveStart(Moved(r, at)) = at
<1>1. at # NoTime
  BY ScheduleAssumption DEF NoTime
<1> QED
  BY <1>1 DEF Moved, ClearPending, EffectiveStart, Rows

\* A page is read at a minute whose reminders are out: what it changes is either not
\* in time or was reminded of.
LEMMA ApplyKeepsReminded ==
  ASSUME HeldInv, RemindInv, NEW t \in Teams, Apply(t), clock' = clock, reminded' = reminded,
         NEW m \in Matches
  PROVE  Reminded(m)'
<1> DEFINE listed == {k \in Matches : page[t][k] # Gone}
           vanished == TrackedMatchIds(row, links, t) \ listed
           entry == page[t][m]
<1>1. /\ clock \in Nat /\ row[m] \in Rows /\ shown[m] \in Shown /\ Reminded(m)
      /\ shown[m].at \in Int
  <2>1. clock \in Nat /\ row[m] \in Rows /\ shown[m] \in Shown /\ Reminded(m)
    BY ScheduleAssumption DEF HeldInv, ScheduleTypeOK, Rows, RemindInv
  <2>2. shown[m].at \in Starts \union {NoTime}
    BY <2>1 DEF Shown
  <2>3. shown[m].at \in Int
    BY <2>2, TimesAreNumbers
  <2> QED
    BY <2>1, <2>3
<1>2. /\ shown'[m] = IF m \in listed THEN ReadAt(m, entry)
                     ELSE IF m \in vanished THEN OffAt(m) ELSE shown[m]
      /\ row'[m] = IF m \in listed THEN EntryRow(row[m], entry)
                   ELSE IF m \in vanished THEN VanishedRow(row[m]) ELSE row[m]
      /\ told \subseteq told'
  BY DEF Apply
<1>3. CASE m \notin listed /\ m \notin vanished
  BY <1>1, <1>2, <1>3 DEF Reminded, InTime
<1>4. CASE m \notin listed /\ m \in vanished
  <2>1. shown'[m] = OffAt(m) /\ row'[m] = VanishedRow(row[m])
    BY <1>2, <1>4
  <2>2. /\ shown'[m].at = shown[m].at /\ shown'[m].since = shown[m].since
        /\ shown'[m].off = IF shown[m].off = NoTime THEN clock ELSE shown[m].off
    BY <1>1, <2>1 DEF OffAt, Shown
  <2>3. EffectiveStart(row'[m]) = EffectiveStart(row[m]) /\ row'[m].seen = row[m].seen
    BY <1>1, <2>1 DEF VanishedRow, EffectiveStart, Rows
  <2>4. shown'[m].off # NoTime /\ shown'[m].off <= clock
    BY <1>1, <2>2 DEF Reminded, NoTime
  <2>5. InTime(m)' /\ (clock >= shown[m].at \/ (clock = shown[m].at - 1 /\ reminded = clock)) => InTime(m)
    BY <1>1, <2>2 DEF InTime, NoTime
  <2> QED
    BY <1>1, <1>2, <2>2, <2>3, <2>4, <2>5 DEF Reminded
<1>5. CASE m \in listed
  <2>1. shown'[m] = ReadAt(m, entry) /\ row'[m] = EntryRow(row[m], entry)
    BY <1>2, <1>5
  <2>2. entry \in Pages \ {Gone} /\ entry.at \in Starts
    <3>1. entry \in Pages \ {Gone}
      BY <1>5 DEF HeldInv, ScheduleTypeOK
    <3> QED
      BY <3>1 DEF Pages, Upcoming, Played
  <2>3. entry.at \in Int /\ entry.at # NoTime
    BY <2>2, ScheduleAssumption DEF NoTime
  <2>4. CASE entry.shown # "upcoming"
    <3>1. entry.shown = "played" /\ shown'[m] = shown[m]
      BY <2>1, <2>2, <2>4 DEF Pages, Upcoming, Played, ReadAt
    <3>2. CASE row[m].seen
      <4>1. /\ row'[m].seen /\ ~row'[m].missing
            /\ EffectiveStart(row'[m]) = EffectiveStart(row[m])
        BY <1>1, <2>1, <3>1, <3>2 DEF EntryRow, EffectiveStart, Rows
      <4> QED
        BY <1>1, <1>2, <3>1, <4>1 DEF Reminded, InTime
    <3>3. CASE ~row[m].seen
      BY <1>1, <3>1, <3>3 DEF Reminded
    <3> QED
      BY <3>2, <3>3
  <2>5. CASE entry.shown = "upcoming"
    <3>1. /\ row'[m].seen /\ ~row'[m].missing /\ EffectiveStart(row'[m]) = entry.at
      <4>1. CASE row[m].seen
        <5>1. Moved(row[m], entry.at) \in Rows
          BY <1>1, <2>2, MovedIsRow DEF HeldInv, ScheduleTypeOK
        <5>2. row'[m] = [Moved(row[m], entry.at) EXCEPT !.missing = FALSE]
          BY <2>1, <2>5, <4>1 DEF EntryRow
        <5>3. Moved(row[m], entry.at).seen
          BY <1>1, <4>1 DEF Moved, ClearPending, Rows
        <5>4. EffectiveStart(Moved(row[m], entry.at)) = entry.at
          BY <1>1, <2>2, MovedIsExpected
        <5> QED
          BY <5>1, <5>2, <5>3, <5>4 DEF EffectiveStart, Rows
      <4>2. CASE ~row[m].seen
        BY <2>1, <2>5, <4>2 DEF EntryRow, Unseen, EffectiveStart
      <4> QED
        BY <4>1, <4>2
    <3>2. CASE shown[m].at = entry.at
      <4>1. shown'[m] = shown[m]
        BY <2>1, <3>2 DEF ReadAt
      <4> QED
        BY <1>1, <1>2, <2>3, <3>1, <3>2, <4>1 DEF Reminded, InTime
    <3>3. CASE shown[m].at # entry.at
      <4>1. shown'[m].at = entry.at /\ shown'[m].since = clock /\ shown'[m].off = NoTime
        BY <2>1, <2>5, <3>3 DEF ReadAt
      <4>2. ~(InTime(m)' /\ (clock >= entry.at \/ clock = entry.at - 1))
        BY <1>1, <2>3, <4>1 DEF InTime
      <4> QED
        BY <1>1, <2>3, <3>1, <4>1, <4>2 DEF Reminded, NoTime
    <3> QED
      BY <3>2, <3>3
  <2> QED
    BY <2>4, <2>5
<1> QED
  BY <1>3, <1>4, <1>5

\* The reminders of a minute.
LEMMA RemindKeepsReminded ==
  ASSUME HeldInv, RemindInv, Remind, NEW m \in Matches
  PROVE  Reminded(m)'
<1>1. /\ clock \in Nat /\ row[m] \in Rows /\ shown[m] \in Shown /\ Reminded(m)
      /\ shown[m].at \in Int /\ shown[m].off \in Int
  <2>1. clock \in Nat /\ row[m] \in Rows /\ shown[m] \in Shown /\ Reminded(m)
    BY ScheduleAssumption DEF HeldInv, ScheduleTypeOK, Rows, RemindInv
  <2>2. shown[m].at \in Starts \union {NoTime} /\ shown[m].off \in Int
    BY <2>1 DEF Shown
  <2>3. shown[m].at \in Int
    BY <2>2, TimesAreNumbers
  <2> QED
    BY <2>1, <2>2, <2>3
<1> DEFINE due == {E10(p[1], EffectiveStart(row[p[1]]), p[2]) : p \in
                     {p \in UpcomingMatches \X Leads :
                        EffectiveStart(row[p[1]]) \in (clock + 1)..(clock + p[2])}}
<1>2. UNCHANGED <<clock, row, shown>> /\ due \subseteq told' /\ told \subseteq told'
  BY DEF Remind, SameReminder
<1>3. ASSUME shown[m].at # NoTime, clock = shown[m].at - 1, InTime(m), NEW lead \in Leads
      PROVE  E10(m, shown[m].at, lead) \in told'
  <2>1. shown[m].off = NoTime /\ EffectiveStart(row[m]) = shown[m].at /\ row[m].seen
    BY <1>1, <1>3 DEF Reminded, InTime
  <2>2. m \in UpcomingMatches
    BY <1>1, <1>3, <2>1 DEF UpcomingMatches, Reminded
  <2>3. EffectiveStart(row[m]) \in (clock + 1)..(clock + lead)
    BY <1>1, <1>3, <2>1, ScheduleAssumption
  <2>4. <<m, lead>> \in {p \in UpcomingMatches \X Leads :
                           EffectiveStart(row[p[1]]) \in (clock + 1)..(clock + p[2])}
    BY <2>2, <2>3
  <2>5. E10(m, EffectiveStart(row[m]), lead) \in due
    BY <2>4
  <2> QED
    BY <1>2, <2>1, <2>5
<1>4. InTime(m)' <=> InTime(m)
  BY <1>2 DEF InTime
<1> QED
  BY <1>1, <1>2, <1>3, <1>4 DEF Reminded

\* Time passes only when the minute's reminders are out, and nothing else matters.
LEMMA RemindNextInv ==
  ASSUME HeldInv, RemindInv, [ScheduleNext]_scheduleVars
  PROVE  RemindInv'
<1>1. clock \in Nat
  BY ScheduleAssumption DEF HeldInv, ScheduleTypeOK
<1>2. reminded' \in Int /\ reminded' <= clock'
  <2>1. \/ clock' = clock /\ reminded' = reminded
        \/ clock' = clock /\ reminded' = clock
        \/ clock' = clock + 1 /\ reminded' = reminded
    BY DEF ScheduleNext, Reschedule, PollMatch, Publish, DropFromPage, StartRound, PollTeam,
           EndRound, RequestPoll, Remind, Tick, scheduleVars
  <2> QED
    BY <1>1, <2>1 DEF RemindInv
<1>3. ASSUME NEW m \in Matches PROVE Reminded(m)'
  <2>1. /\ Reminded(m) /\ row[m] \in Rows /\ shown[m] \in Shown /\ shown[m].at \in Int
    <3>1. Reminded(m) /\ row[m] \in Rows /\ shown[m] \in Shown
      BY DEF HeldInv, ScheduleTypeOK, Rows, RemindInv
    <3>2. shown[m].at \in Starts \union {NoTime}
      BY <3>1 DEF Shown
    <3>3. shown[m].at \in Int
      BY <3>2, TimesAreNumbers
    <3> QED
      BY <3>1, <3>3
  <2>2. ASSUME NEW t \in Teams, PollTeam(t), Apply(t) PROVE Reminded(m)'
    <3>1. clock' = clock /\ reminded' = reminded
      BY <2>2 DEF PollTeam
    <3> QED
      BY <2>2, <3>1, ApplyKeepsReminded
  <2>3. CASE Remind
    BY <2>3, RemindKeepsReminded
  <2>4. CASE Tick
    <3>1. clock' = clock + 1 /\ reminded = clock /\ UNCHANGED <<row, shown, told, reminded>>
      BY <2>4 DEF Tick, matchRows
    <3>2. InTime(m)' <=> InTime(m)
      BY <3>1 DEF InTime
    <3>3. shown[m].off <= clock + 1
      BY <1>1, <2>1 DEF Reminded, Shown
    <3> QED
      BY <1>1, <2>1, <3>1, <3>2, <3>3 DEF Reminded
  <2>5. CASE \E k \in Matches : PollMatch(k)
    <3>1. UNCHANGED <<clock, reminded, shown, told>>
      BY <2>5 DEF PollMatch
    <3>2. /\ row'[m].seen = row[m].seen /\ row'[m].missing = row[m].missing
          /\ EffectiveStart(row'[m]) = EffectiveStart(row[m])
      <4>1. row' = row \/ \E k \in Matches : row' = [row EXCEPT ![k].state = PageState(k)]
        BY <2>5 DEF PollMatch
      <4>2. row \in [Matches -> Rows]
        BY DEF HeldInv, ScheduleTypeOK, Rows
      <4>3. row'[m] = row[m] \/ \E s : row'[m] = [row[m] EXCEPT !.state = s]
        BY <4>1, <4>2
      <4> QED
        BY <2>1, <4>3 DEF EffectiveStart, Rows
    <3>3. InTime(m)' <=> InTime(m)
      BY <3>1 DEF InTime
    <3> QED
      BY <2>1, <3>1, <3>2, <3>3 DEF Reminded
  <2>6. CASE UNCHANGED <<clock, reminded, row, shown, told>>
    <3>1. InTime(m)' <=> InTime(m)
      BY <2>6 DEF InTime
    <3> QED
      BY <2>1, <2>6, <3>1 DEF Reminded
  <2>7. \/ \E t \in Teams : PollTeam(t) /\ Apply(t)
        \/ Remind \/ Tick \/ \E k \in Matches : PollMatch(k)
        \/ UNCHANGED <<clock, reminded, row, shown, told>>
    BY DEF ScheduleNext, Reschedule, Publish, DropFromPage, StartRound, PollTeam,
           EndRound, RequestPoll, scheduleVars, matchRows
  <2> QED
    BY <2>2, <2>3, <2>4, <2>5, <2>6, <2>7
<1> QED
  BY <1>2, <1>3 DEF RemindInv

\* For all pages, intervals and lead times: a match that comes to its start, announced
\* for it two minutes ahead and not off a page since, was reminded of for that start.
THEOREM RemindersAreRight == ScheduleSpec => []RemindedOfTheRightTime
<1>1. ScheduleInit => RemindInv
  BY DEF ScheduleInit, RemindInv, Reminded, NoTime
<1>2. HeldInv /\ RemindInv => RemindedOfTheRightTime
  <2> SUFFICES ASSUME HeldInv, RemindInv, NEW m \in Matches,
                      clock >= EffectiveStart(row[m]), shown[m].at = EffectiveStart(row[m]),
                      InTime(m), NEW lead \in Leads
               PROVE  E10(m, EffectiveStart(row[m]), lead) \in told
    BY DEF RemindedOfTheRightTime, InTime
  <2>1. Reminded(m) /\ shown[m] \in Shown
    BY DEF HeldInv, RemindInv
  <2>2. shown[m].at # NoTime
    BY <2>1 DEF Reminded, InTime, NoTime, Shown
  <2> QED
    BY <2>1, <2>2 DEF Reminded
<1> QED
  BY <1>1, <1>2, HeldInitInv, HeldNextInv, RemindNextInv, PTL DEF ScheduleSpec
=============================================================================
