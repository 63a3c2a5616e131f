------------------------------ MODULE Watchdog ------------------------------
(***************************************************************************)
(* watchdog.py: how the service says that it has gone blind.  The keys of  *)
(* the four subsystems are disjoint, so one of them is watched here: the   *)
(* schedule and the match page by the loops that read them, the feed by    *)
(* the match-page loop, the queue by the watchdog's own loop every minute. *)
(***************************************************************************)
EXTENDS Scoring, FiniteSets

CONSTANTS
  Subsystems,   \* those an instance looks at
  Configured,   \* DEGRADED_ALERT_SECONDS, in minutes
  Urgent,       \* URGENT_SECONDS
  MaxAlert,     \* MAX_ALERT_SECONDS
  StartGrace,   \* START_GRACE_MINUTES
  RegulationRounds, OvertimeRounds,
  Rounds,       \* what a side may have won of the map being played
  MatchStart,   \* when the match is due
  LastMinute,   \* bound
  MaxKills      \* bound: processes killed between the watchdog and the queue

ASSUME WatchdogAssumption ==
  /\ Subsystems \subseteq {"schedule", "match_page", "live_feed", "outbox"}
  /\ {Configured, StartGrace, MatchStart, LastMinute, MaxKills} \subseteq Nat
  /\ {Urgent, MaxAlert, RegulationRounds, OvertimeRounds} \subseteq Nat \ {0}
  /\ Rounds \subseteq Nat

Never == -1
DecisiveRounds == 3
Scores == Rounds \X Rounds

VARIABLES
  subsystem,  \* the one that is watched
  minute,
  match,      \* state and score of the match of the day
  since,      \* degraded_since
  alerted,    \* degraded_alerted
  heard,      \* table sent_events: alarms and recoveries, with the minute they were recorded
  queue,      \* table outbox: when its pending messages were created
  accepting,  \* Telegram takes messages
  lastCheck,  \* of the queue
  \* History, for the properties only.
  outage,     \* since when every check has failed
  checks,     \* a check just made: ok, failed, or killed before its event was queued
  killed

watchdogVars == <<subsystem, minute, match, since, alerted, heard, queue, accepting,
                  lastCheck, outage, checks, killed>>

Down(from) == [kind |-> "down", since |-> from, at |-> minute]
Up(from) == [kind |-> "up", since |-> from, at |-> minute]
SameAlarm(d, e) == d.kind = e.kind /\ d.since = e.since
----------------------------------------------------------------------------
\* normal_delay
NormalDelay == Low(High(Configured, Urgent), MaxAlert)

\* _match_urgency: an overtime, or the map is about to be won.
Decisive(score) ==
  \/ score[1] >= RegulationRounds /\ score[2] >= RegulationRounds
  \/ RoundsToWin(score[1], score[2], RegulationRounds, OvertimeRounds) <= DecisiveRounds

\* urgency: how long to wait with the alarm.
Delay ==
  IF \/ match.state = "LIVE" /\ match.score \in Scores /\ Decisive(match.score)
     \/ /\ match.state \notin {"LIVE", "FINISHED"}
        /\ MatchStart - minute <= Urgent /\ minute - MatchStart <= StartGrace
  THEN Urgent ELSE NormalDelay

\* Mutant: the moment the failure began survives the recovery.
ClearAlertOnly == since' = since /\ alerted' = FALSE
ClearFailure == since' = Never /\ alerted' = FALSE

\* Mutant: any outage long enough is taken as one that was reported.
WasLong == minute - since >= Delay
WasAlerted == alerted

\* What the watchdog's caller records: the journal swallows a key it has, and the
\* process may be killed after the keys are written and before the event is.
Record(e) ==
  \/ /\ heard' = IF \E d \in heard : SameAlarm(d, e) THEN heard ELSE heard \union {e}
     /\ queue' = IF heard' # heard THEN queue \union {minute} ELSE queue
     /\ UNCHANGED killed
  \/ killed < MaxKills /\ killed' = killed + 1 /\ UNCHANGED <<heard, queue>>

Silent == UNCHANGED <<heard, queue, killed>>

\* report_success
ReportSuccess ==
  /\ outage' = Never
  /\ checks' = "ok"
  /\ IF since = Never THEN UNCHANGED <<since, alerted>> /\ Silent
     ELSE ClearFailure /\ IF WasAlerted THEN Record(Up(since)) ELSE Silent

\* report_failure; `known` is the real start of the failure, where the caller has it.
ReportFailure(known) ==
  LET from == IF since # Never THEN since ELSE IF known # Never THEN known ELSE minute
      clockStarts == since = Never /\ known = Never
      due == ~clockStarts /\ minute - from >= Delay
  IN /\ since' = from
     /\ alerted' = (alerted \/ due)
     /\ outage' = IF known # Never THEN known ELSE IF outage = Never THEN minute ELSE outage
     /\ IF due THEN Record(Down(from)) ELSE Silent
     /\ checks' = IF killed' # killed THEN "killed" ELSE "failed"
----------------------------------------------------------------------------
WatchdogInit ==
  /\ subsystem \in Subsystems
  /\ minute = 0
  /\ match = [state |-> "SCHEDULED", score |-> <<0, 0>>]
  /\ since = Never /\ alerted = FALSE
  /\ heard = {} /\ queue = {} /\ accepting = TRUE
  /\ lastCheck = Never
  /\ outage = Never /\ checks = "none" /\ killed = 0

\* The match goes on.
MatchGoesOn ==
  /\ \/ /\ match.state = "SCHEDULED" /\ minute >= MatchStart
        /\ \E score \in Scores : match' = [state |-> "LIVE", score |-> score]
     \/ match.state = "LIVE" /\ match' = [match EXCEPT !.state = "FINISHED"]
  /\ checks' = "none"
  /\ UNCHANGED <<subsystem, minute, since, alerted, heard, queue, accepting, lastCheck,
                 outage, killed>>

\* The schedule loop and the match-page loop: a round is read, or no page of it is;
\* a round of which only some pages are read reports neither (poll_once).
CheckPages ==
  /\ subsystem \in {"schedule", "match_page"}
  /\ ReportSuccess \/ ReportFailure(Never)
  /\ UNCHANGED <<subsystem, minute, match, accepting, lastCheck>>

\* check_live_feed: with no match running there is nothing to be blind to.
CheckLiveFeed ==
  /\ subsystem = "live_feed"
  /\ \/ ReportSuccess
     \/ match.state = "LIVE" /\ ReportFailure(Never)
  /\ UNCHANGED <<subsystem, minute, match, accepting, lastCheck>>

Oldest == CHOOSE created \in queue : \A other \in queue : created <= other

\* check_outbox, once a minute.
CheckOutbox ==
  /\ subsystem = "outbox" /\ lastCheck < minute
  /\ lastCheck' = minute
  /\ CASE queue = {} -> ReportSuccess
       [] queue # {} /\ minute - Oldest < Delay ->
            Silent /\ checks' = "none" /\ UNCHANGED <<since, alerted, outage>>
       [] OTHER -> ReportFailure(Oldest)
  /\ UNCHANGED <<subsystem, minute, match, accepting>>

\* The queue fills, and drains while Telegram accepts.
Enqueue ==
  /\ subsystem = "outbox"
  /\ queue' = queue \union {minute} /\ queue' # queue
  /\ checks' = "none"
  /\ UNCHANGED <<subsystem, minute, match, since, alerted, heard, accepting, lastCheck,
                 outage, killed>>

Deliver ==
  /\ subsystem = "outbox" /\ accepting /\ queue # {}
  /\ queue' = queue \ {Oldest}
  /\ checks' = "none"
  /\ UNCHANGED <<subsystem, minute, match, since, alerted, heard, accepting, lastCheck,
                 outage, killed>>

TelegramTurns ==
  /\ subsystem = "outbox"
  /\ accepting' = ~accepting
  /\ checks' = "none"
  /\ UNCHANGED <<subsystem, minute, match, since, alerted, heard, queue, lastCheck,
                 outage, killed>>

MinutePasses ==
  /\ minute < LastMinute
  /\ subsystem = "outbox" => lastCheck = minute
  /\ minute' = minute + 1
  /\ checks' = "none"
  /\ UNCHANGED <<subsystem, match, since, alerted, heard, queue, accepting, lastCheck,
                 outage, killed>>

WatchdogNext ==
  \/ MatchGoesOn \/ CheckPages \/ CheckLiveFeed
  \/ CheckOutbox \/ Enqueue \/ Deliver \/ TelegramTurns \/ MinutePasses

WatchdogSpec == WatchdogInit /\ [][WatchdogNext]_watchdogVars
----------------------------------------------------------------------------
WatchdogTypeOK ==
  /\ subsystem \in Subsystems /\ minute \in 0..LastMinute
  /\ match \in [state : {"SCHEDULED", "LIVE", "FINISHED"}, score : Scores \union {<<0, 0>>}]
  /\ since \in 0..minute \union {Never} /\ alerted \in BOOLEAN
  /\ heard \subseteq [kind : {"down", "up"}, since : 0..minute, at : 0..minute]
  /\ queue \subseteq 0..minute /\ accepting \in BOOLEAN
  /\ lastCheck \in 0..minute \union {Never}
  /\ outage \in 0..minute \union {Never}
  /\ checks \in {"none", "ok", "failed", "killed"} /\ killed \in 0..MaxKills

ReportedSince(start) == \E e \in heard' : e.kind = "down" /\ e.at >= start

\* Nobody stays blind unawares: when a check fails after the outage has lasted as
\* long as the moment allows, an alarm has gone out about THIS outage -- not about
\* one before it (report_failure, report_success, the key of E8).
OutageIsReported ==
  [][subsystem # "outbox" /\ checks' = "failed" /\ minute - outage' >= Delay
       => ReportedSince(outage')]_watchdogVars

\* The same of the queue, whose outage is that of its oldest message: "a new failure
\* is reported afresh" (watchdog.py:16-18).
StuckQueueIsReported ==
  [][subsystem = "outbox" /\ checks' = "failed" /\ lastCheck' # lastCheck
       => ReportedSince(outage')]_watchdogVars

\* "Recovered" is only said to somebody who was told of the failure, unless the
\* process was killed over the alarm (degraded_alerted, report_success).
RecoveryFollowsAlarm ==
  killed = 0 => \A e \in heard : e.kind = "up" =>
                 \E d \in heard : d.kind = "down" /\ d.since = e.since /\ d.at <= e.at
=============================================================================
