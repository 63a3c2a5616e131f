------------------------------ MODULE Schedule ------------------------------
(***************************************************************************)
(* When a match is played, as the service knows it:                        *)
(*   scheduler.py       the loop that reads the pages of the teams         *)
(*   state/machine.py   what an entry of such a page does to a match       *)
(*   match_poller.py    the page of the match: who polls it, and the       *)
(*                      second look at the schedule it asks for            *)
(*   reminders.py       the reminders before the start                     *)
(*   state/db.py        the tables and the questions asked of them         *)
(*                                                                         *)
(* A unit of time is what the debounce and the intervals are counted in; a *)
(* request takes less.  Time does not pass while a loop has something due, *)
(* and the reminders are looked at first thing in every minute.            *)
(* A team's page shows other matches besides, or else reading it fails.    *)
(***************************************************************************)
EXTENDS Integers, FiniteSets

CONSTANTS
  Teams,        \* their ids
  Matches,
  Starts,       \* times a match may be announced for
  Horizon,      \* bound: the last minute
  LastEdit,     \* bound: HLTV moves a match no later than this, or at its slot
  MaxMishaps,   \* bound: reschedules, disappearances from a page, pages that could
                \* not be read, /check commands
  MinShift, Debounce, Prematch, Grace, Lookbehind, DueLead,
  IdleEvery, PrematchEvery,
  Duration,     \* of a match
  Leads         \* the reminders of the reader, before the start

ASSUME ScheduleAssumption ==
  /\ Teams \subseteq Nat /\ Starts \subseteq Nat /\ Leads \subseteq Nat \ {0}
  /\ {Horizon, LastEdit, MaxMishaps, MinShift, Debounce,
      Prematch, Grace, Lookbehind, DueLead, Duration} \subseteq Nat
  /\ {IdleEvery, PrematchEvery} \subseteq Nat \ {0}

NoTime == -1
Gone == [shown |-> "no", at |-> NoTime]
Upcoming(at) == [shown |-> "upcoming", at |-> at]
Played(at) == [shown |-> "played", at |-> at]
Pages == {Gone} \union {Upcoming(at) : at \in Starts} \union {Played(at) : at \in Starts}

VARIABLES
  clock,
  \* HLTV.
  truth,      \* the time a match is meant to start
  page,       \* what the page of a team says of a match
  \* The database.
  row,        \* a match and its match_state
  links,      \* table match_teams
  booted,     \* teams with a bootstrapped key
  told,       \* the events ever enqueued
  \* The schedule loop.
  phase,      \* waiting or polling
  todo,       \* teams still to be read in this round
  force,      \* the flag of request_poll
  nextPoll,   \* when the wait ends by itself
  \* The match-page loop and the reminder loop.
  rechecked,  \* _start_rechecked
  reminded,   \* the minute the reminders were last looked at
  \* History, for the properties only.
  unread,     \* teams not read since a poll was last requested
  shown,      \* the last upcoming entry read, since when it says the same, and when
              \* the match was first off a page in that time
  mishaps

hltv == <<truth, page>>
matchRows == <<row, links, booted, told, shown>>
loop == <<phase, todo, force, nextPoll>>
scheduleVars == <<clock, hltv, matchRows, loop, rechecked, reminded, unread, mishaps>>

MatchStates == {"SCHEDULED", "LIVE", "FINISHED", "CANCELLED", "UNKNOWN"}
Unseen == [seen |-> FALSE, start |-> NoTime, missing |-> FALSE, state |-> "SCHEDULED",
           pending |-> NoTime, since |-> NoTime]

E1(m) == [type |-> "E1", match |-> m, at |-> NoTime, lead |-> 0]
E2(m, at) == [type |-> "E2", match |-> m, at |-> at, lead |-> 0]
E3(m) == [type |-> "E3", match |-> m, at |-> NoTime, lead |-> 0]
E10(m, at, lead) == [type |-> "E10", match |-> m, at |-> at, lead |-> lead]

\* Mutant: the start is not part of the reminder's key.
SameMatchAndLead(d, e) == d.type = e.type /\ d.match = e.match /\ d.lead = e.lead
\* Keys name everything in these records.
SameReminder(d, e) == d = e

Earlier(a, b) == IF a < b THEN a ELSE b
Shift(a, b) == IF a < b THEN b - a ELSE a - b
----------------------------------------------------------------------------
\* The questions asked of the tables.

\* effective_start: a time being debounced goes before the confirmed one.
EffectiveStart(r) == IF r.pending # NoTime THEN r.pending ELSE r.start

UpcomingMatches == {m \in Matches : row[m].seen /\ ~row[m].missing
                                     /\ EffectiveStart(row[m]) >= clock}

MatchesAwaitingStart(ahead) ==
  {m \in Matches : /\ row[m].seen /\ ~row[m].missing
                   /\ row[m].state \in {"SCHEDULED", "UNKNOWN"}
                   /\ EffectiveStart(row[m]) \in (clock - Grace)..(clock + ahead)}

ActiveMatches(r) == {m \in Matches : /\ r[m].seen /\ ~r[m].missing
                                     /\ r[m].state \notin {"FINISHED", "CANCELLED"}
                                     /\ r[m].start \in (clock - Lookbehind)..(clock + Prematch)}

TrackedMatchIds(r, l, team) == {m \in Matches : r[m].seen /\ ~r[m].missing /\ team \in l[m]}

CurrentMode ==
  IF \/ MatchesAwaitingStart(0) # {}
     \/ \E m \in UpcomingMatches : EffectiveStart(row[m]) - clock <= Prematch
  THEN "prematch" ELSE "idle"

\* Mutant: minutes are waited out as seconds.
MinutesAsSeconds(mode) == 60 * (IF mode = "prematch" THEN PrematchEvery ELSE IdleEvery)
IntervalFor(mode) == IF mode = "prematch" THEN PrematchEvery ELSE IdleEvery
----------------------------------------------------------------------------
\* The machine: what an entry does to the row of its match.

\* Mutant: a page back at the confirmed time leaves the proposal standing.
KeepPending(r) == r
ClearPending(r) == [r EXCEPT !.pending = NoTime, !.since = NoTime]

NoTimeToWait(r, observed) == Earlier(r.start, observed) - clock <= Debounce

\* Mutant: every observation starts the window anew.
HoldsAfresh(r, observed) == FALSE
\* The window of a proposal has run out.
Held(r, observed) == r.pending = observed /\ r.since # NoTime /\ clock - r.since >= Debounce

\* _check_time_change and _settle, with the row as upsert_match leaves it: a page that
\* agrees, a shift too small to speak of, no time left to wait, or a window that has
\* run out; else the window goes on or starts.
Moved(r, observed) ==
  IF \/ observed = r.start \/ Shift(observed, r.start) < MinShift
     \/ NoTimeToWait(r, observed) \/ Held(r, observed)
    THEN [ClearPending(r) EXCEPT !.start = observed]
  ELSE IF r.pending = observed /\ r.since # NoTime THEN r
  ELSE [r EXCEPT !.pending = observed, !.since = clock]

\* A settled move is told, unless there is nobody to tell or nothing left to tell.
MoveEvents(m, r, observed, boot) ==
  IF /\ Shift(observed, r.start) >= MinShift
     /\ Moved(r, observed).start = observed
     /\ observed # r.start /\ ~boot /\ observed > clock
  THEN {E2(m, observed)} ELSE {}

\* _apply_entry, for a match met before and for a new one.
EntryRow(r, entry) ==
  IF r.seen
    THEN [(IF entry.shown = "played" THEN r ELSE Moved(r, entry.at)) EXCEPT !.missing = FALSE]
    ELSE [Unseen EXCEPT !.seen = TRUE, !.start = entry.at,
                        !.state = IF entry.shown = "played" THEN "FINISHED" ELSE "SCHEDULED"]

EntryEvents(m, r, entry, boot) ==
  IF entry.shown = "played" THEN {}
  ELSE IF r.seen THEN MoveEvents(m, r, entry.at, boot)
  ELSE IF boot THEN {} ELSE {E1(m)}

\* _detect_disappeared: the row of a match that its team's page does not show.
VanishedRow(r) ==
  [r EXCEPT !.missing = TRUE,
            !.state = IF r.state \in {"FINISHED", "CANCELLED"} THEN r.state
                      ELSE IF r.start <= clock THEN "UNKNOWN" ELSE "CANCELLED"]

VanishedEvents(m, r, boot) ==
  IF r.state \notin {"FINISHED", "CANCELLED"} /\ r.start > clock /\ ~boot THEN {E3(m)} ELSE {}

ReadAt(m, entry) ==
  IF entry.shown = "upcoming" /\ shown[m].at # entry.at
    THEN [at |-> entry.at, since |-> clock, off |-> NoTime] ELSE shown[m]
OffAt(m) == [shown[m] EXCEPT !.off = IF @ = NoTime THEN clock ELSE @]

\* ScheduleMachine.apply: the entries, then what is no longer among them.
Apply(team) ==
  LET boot == team \notin booted
      listed == {m \in Matches : page[team][m] # Gone}
      vanished == TrackedMatchIds(row, links, team) \ listed
      events == (UNION {EntryEvents(m, row[m], page[team][m], boot) : m \in listed})
                \union (UNION {VanishedEvents(m, row[m], boot) : m \in vanished})
  IN /\ row' = [m \in Matches |-> IF m \in listed THEN EntryRow(row[m], page[team][m])
                                  ELSE IF m \in vanished THEN VanishedRow(row[m])
                                  ELSE row[m]]
     /\ links' = [m \in Matches |-> IF m \in listed THEN links[m] \union {team} ELSE links[m]]
     /\ booted' = booted \union {team}
     /\ told' = told \union events
     /\ shown' = [m \in Matches |-> IF m \in listed THEN ReadAt(m, page[team][m])
                                    ELSE IF m \in vanished THEN OffAt(m)
                                    ELSE shown[m]]
----------------------------------------------------------------------------
ScheduleInit ==
  /\ clock = 0
  /\ truth \in [Matches -> Starts]
  /\ \E listed \in SUBSET Matches :
       page = [t \in Teams |-> [m \in Matches |->
                 IF m \in listed THEN Upcoming(truth[m]) ELSE Gone]]
  /\ row = [m \in Matches |-> Unseen]
  /\ links = [m \in Matches |-> {}]
  /\ booted = {} /\ told = {}
  /\ phase = "waiting" /\ todo = {} /\ force = FALSE /\ nextPoll = 0
  /\ rechecked = [m \in Matches |-> NoTime]
  /\ reminded = NoTime
  /\ unread = {}
  /\ shown = [m \in Matches |-> [at |-> NoTime, since |-> NoTime, off |-> NoTime]]
  /\ mishaps = 0
----------------------------------------------------------------------------
\* HLTV moves a match, plays it, and lets the page of a team follow.  A page is read
\* once in a round, so a change in the middle of one is a change before or after it.
\* A match that is not moved at its time starts.
Game(m) == IF clock <= truth[m] THEN "ahead"
           ELSE IF clock <= truth[m] + Duration THEN "live" ELSE "over"

Quiet == phase = "waiting" /\ reminded = clock

\* Edits come early, or when the slot itself has come.
Editable(at) == clock <= LastEdit \/ clock = at

Reschedule(m) ==
  /\ Quiet
  /\ mishaps < MaxMishaps /\ Game(m) = "ahead" /\ Editable(truth[m])
  /\ \E at \in Starts \ {truth[m]} : at > clock /\ truth' = [truth EXCEPT ![m] = at]
  /\ mishaps' = mishaps + 1
  /\ UNCHANGED <<clock, page, matchRows, loop, rechecked, reminded, unread>>

Publish(t, m) ==
  /\ Quiet /\ (Editable(page[t][m].at) \/ Game(m) = "over")
  /\ page' = [page EXCEPT ![t][m] = IF Game(m) = "over" THEN Played(truth[m])
                                                        ELSE Upcoming(truth[m])]
  /\ page' # page
  /\ UNCHANGED <<clock, truth, matchRows, loop, rechecked, reminded, unread, mishaps>>

DropFromPage(t, m) ==
  /\ Quiet
  /\ mishaps < MaxMishaps /\ page[t][m] # Gone
  /\ page' = [page EXCEPT ![t][m] = Gone]
  /\ mishaps' = mishaps + 1
  /\ UNCHANGED <<clock, truth, matchRows, loop, rechecked, reminded, unread>>
----------------------------------------------------------------------------
\* The schedule loop.

\* The flag is cleared before the round.
StartRound ==
  /\ phase = "waiting" /\ (force \/ clock >= nextPoll) /\ reminded = clock
  /\ phase' = "polling" /\ todo' = Teams /\ force' = FALSE
  /\ UNCHANGED <<clock, hltv, matchRows, nextPoll, rechecked, reminded, unread, mishaps>>

\* One team's page is fetched, parsed and applied; a failure is this team's alone.
PollTeam(t) ==
  /\ phase = "polling" /\ t \in todo /\ \A u \in todo : t <= u
  /\ todo' = todo \ {t} /\ unread' = unread \ {t}
  /\ \/ Apply(t) /\ UNCHANGED mishaps
     \/ mishaps < MaxMishaps /\ mishaps' = mishaps + 1 /\ UNCHANGED matchRows
  /\ UNCHANGED <<clock, hltv, phase, force, nextPoll, rechecked, reminded>>

\* Mutant: whatever was asked during the round is taken as served by it.
EndAndClear ==
  /\ phase = "polling" /\ todo = {}
  /\ phase' = "waiting" /\ nextPoll' = clock + IntervalFor(CurrentMode) /\ force' = FALSE
  /\ UNCHANGED <<clock, hltv, matchRows, todo, rechecked, reminded, unread, mishaps>>

EndRound ==
  /\ phase = "polling" /\ todo = {}
  /\ phase' = "waiting" /\ nextPoll' = clock + IntervalFor(CurrentMode)
  /\ UNCHANGED <<clock, hltv, matchRows, todo, force, rechecked, reminded, unread,
                 mishaps>>

\* request_poll, on behalf of /check.
RequestPoll ==
  /\ mishaps < MaxMishaps
  /\ mishaps' = mishaps + 1 /\ force' = TRUE /\ unread' = Teams
  /\ UNCHANGED <<clock, hltv, matchRows, phase, todo, nextPoll, rechecked, reminded>>
----------------------------------------------------------------------------
\* The match-page loop: one poll of a match worth polling.

\* _notice_moved_start, when the page names a start: ask once for every distinct one.
NoticeMovedStart(m) ==
  LET asked == /\ Game(m) = "ahead" /\ truth[m] # EffectiveStart(row[m])
               /\ truth[m] # rechecked[m]
  IN /\ rechecked' = [rechecked EXCEPT ![m] =
          IF Game(m) # "ahead" \/ truth[m] = EffectiveStart(row[m]) THEN NoTime ELSE truth[m]]
     /\ force' = (force \/ asked)
     /\ unread' = IF asked THEN Teams ELSE unread

\* MatchMachine's target; a page with no status leaves the state as it was.
PageState(m) == IF Game(m) = "live" THEN "LIVE"
                ELSE IF Game(m) = "over" THEN "FINISHED" ELSE "SCHEDULED"

PollMatch(m) ==
  /\ m \in ActiveMatches(row)
  /\ \/ NoticeMovedStart(m) /\ row' = [row EXCEPT ![m].state = PageState(m)]
     \/ UNCHANGED <<rechecked, force, unread, row>>  \* another match's page, or none
  /\ UNCHANGED <<clock, hltv, links, booted, told, shown, phase, todo, nextPoll,
                 reminded, mishaps>>

\* _mode_for: what the loop waits for, given which feeds are up.
PageMode(feedUp) ==
  LET live == {m \in ActiveMatches(row) : row[m].state = "LIVE"} IN
  IF live # {} /\ ~feedUp THEN "live"
  ELSE IF ActiveMatches(row) \intersect MatchesAwaitingStart(DueLead) # {} THEN "due"
  ELSE IF live # {} THEN "live_with_feed"
  ELSE IF ActiveMatches(row) # {} THEN "prematch" ELSE "idle"
----------------------------------------------------------------------------
\* ReminderScheduler.due, for a reader of every team.
Remind ==
  /\ reminded < clock
  /\ reminded' = clock
  /\ LET due == {E10(p[1], EffectiveStart(row[p[1]]), p[2]) : p \in
                   {p \in UpcomingMatches \X Leads :
                      EffectiveStart(row[p[1]]) \in (clock + 1)..(clock + p[2])}}
     IN told' = told \union {e \in due : \A d \in told : ~SameReminder(d, e)}
  /\ UNCHANGED <<clock, hltv, row, links, booted, shown, loop, rechecked, unread,
                 mishaps>>

Tick ==
  /\ clock < Horizon
  /\ phase = "waiting" /\ ~force /\ clock < nextPoll /\ reminded = clock
  /\ clock' = clock + 1
  /\ UNCHANGED <<hltv, matchRows, loop, rechecked, reminded, unread, mishaps>>

ScheduleNext ==
  \/ \E m \in Matches : Reschedule(m) \/ PollMatch(m)
  \/ \E t \in Teams, m \in Matches : Publish(t, m) \/ DropFromPage(t, m)
  \/ StartRound \/ \E t \in Teams : PollTeam(t)
  \/ EndRound \/ RequestPoll \/ Remind \/ Tick

\* The loops run for ever; HLTV owes nothing.
ScheduleFairness ==
  /\ WF_scheduleVars(StartRound) /\ WF_scheduleVars(EndRound)
  /\ WF_scheduleVars(\E t \in Teams : PollTeam(t))
  /\ WF_scheduleVars(Remind) /\ WF_scheduleVars(Tick)

ScheduleSpec == ScheduleInit /\ [][ScheduleNext]_scheduleVars /\ ScheduleFairness
----------------------------------------------------------------------------
ScheduleTypeOK ==
  /\ clock \in 0..Horizon
  /\ truth \in [Matches -> Starts]
  /\ page \in [Teams -> [Matches -> Pages]]
  /\ row \in [Matches -> [seen : BOOLEAN, start : Starts \union {NoTime}, missing : BOOLEAN,
                          state : MatchStates, pending : Starts \union {NoTime},
                          since : 0..Horizon \union {NoTime}]]
  /\ links \in [Matches -> SUBSET Teams] /\ booted \subseteq Teams
  /\ phase \in {"waiting", "polling"} /\ todo \subseteq Teams /\ force \in BOOLEAN
  /\ nextPoll \in 0..(Horizon + IdleEvery + PrematchEvery)
  /\ rechecked \in [Matches -> Starts \union {NoTime}]
  /\ PageMode(FALSE) \in {"live", "due", "prematch", "idle"}
  /\ \A e \in told : e.match \in Matches /\ e.at \in Starts \union {NoTime}

\* The loop never goes to sleep on a request that nobody has served: after a
\* /check, or a start that the match page disagrees about, the page of every team
\* is read before the loop waits (request_poll, the flag cleared around a round).
NoRequestSleeps == phase = "waiting" /\ unread # {} => force

\* A burst of edits that ends where it began is silent: a move is told when it was
\* read on every page in between for the whole window, or when there was no window
\* left (_check_time_change, _clear_pending).
MoveWasHeld ==
  [][\A m \in Matches, at \in Starts : E2(m, at) \in told' \ told =>
       \/ Earlier(row[m].start, at) - clock <= Debounce
       \/ shown'[m].at = at /\ clock - shown'[m].since >= Debounce]_scheduleVars

\* Whoever wants a reminder gets one for the time that holds in the end: a match
\* that comes to its start, announced for it long enough and not off a page before
\* it, was reminded of -- also when an earlier time of it was (the start in E10's
\* key), and while the time is still debounced.
RemindedOfTheRightTime ==
  \A m \in Matches :
    LET start == EffectiveStart(row[m]) IN
    /\ clock >= start /\ shown[m].at = start /\ shown[m].since <= start - 2
    /\ shown[m].off = NoTime \/ shown[m].off >= start
    => \A lead \in Leads : E10(m, start, lead) \in told

\* Pages that end up agreeing are believed: once every page says the same time and
\* keeps saying it, that time becomes and stays the stored one, though the pages of
\* two teams may have contradicted each other for a while.
Agreed(m, at) == \A t \in Teams : page[t][m] = Upcoming(at)
AgreedTimeIsStored ==
  \A m \in Matches, at \in Starts :
    <>[]Agreed(m, at) => <>[](row[m].start = at /\ row[m].pending = NoTime)
=============================================================================
