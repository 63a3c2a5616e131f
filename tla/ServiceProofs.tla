--------------------------- MODULE ServiceProofs ---------------------------
(***************************************************************************)
(* What Watchdog, Stall and Digests do for all thresholds, intervals and   *)
(* hours, however long an outage lasts and however often somebody changes  *)
(* his mind; and that the composition, MCService, does what each of its    *)
(* components does.                                                        *)
(***************************************************************************)
EXTENDS MCService, MapScoreProofs, RoundsProofs, SubscribersProofs

----------------------------------------------------------------------------
\* The alarm is never due at once.
LEMMA DelayIsPositive == Delay \in Nat \ {0}
<1>1. NormalDelay \in Nat \ {0}
  BY WatchdogAssumption DEF NormalDelay, Low, High
<1> QED
  BY <1>1, WatchdogAssumption DEF Delay

\* The clock and the journal.
Times ==
  /\ minute \in Nat /\ killed \in Nat
  /\ \A e \in heard : e.at \in Nat /\ e.at <= minute

\* A failure is measured from its first failed check, its start is kept no longer than
\* the failure, and no alarm is older than the failure it names.  Of the queue, whose
\* start is its oldest message's, this is not so.
SinceIsOutage ==
  subsystem # "outbox" =>
    /\ since = outage /\ since \in 0..minute \union {Never}
    /\ \A e \in heard : e.since \in Nat /\ e.since <= e.at

\* An alarm that is marked as raised is in the journal, unless a process was killed.
AlarmIsHeard ==
  killed = 0 /\ alerted =>
    /\ since # Never
    /\ \E d \in heard : d.kind = "down" /\ d.since = since

WatchdogInv == Times /\ SinceIsOutage /\ AlarmIsHeard /\ RecoveryFollowsAlarm

LEMMA WatchdogInitInv == WatchdogInit => WatchdogInv
  BY WatchdogAssumption
  DEF WatchdogInit, WatchdogInv, Times, SinceIsOutage, AlarmIsHeard, RecoveryFollowsAlarm, Never

\* Recording keeps what is in the journal, and adds the event or finds it there,
\* unless the process is killed over it.
LEMMA RecordKeeps ==
  ASSUME NEW e, Record(e), killed \in Nat
  PROVE  /\ heard \subseteq heard' /\ heard' \subseteq heard \union {e}
         /\ killed' # killed \/ \E d \in heard' : SameAlarm(d, e)
         /\ killed' = killed \/ killed' = killed + 1
<1>1. CASE killed < MaxKills /\ killed' = killed + 1 /\ UNCHANGED <<heard, queue>>
  BY <1>1
<1>2. CASE /\ heard' = IF \E d \in heard : SameAlarm(d, e) THEN heard ELSE heard \union {e}
           /\ queue' = IF heard' # heard THEN queue \union {minute} ELSE queue
           /\ UNCHANGED killed
  <2>1. SameAlarm(e, e)
    BY DEF SameAlarm
  <2> QED
    BY <1>2, <2>1
<1> QED
  BY <1>1, <1>2 DEF Record

\* What report_failure leaves.
LEMMA FailureKeepsInv ==
  ASSUME WatchdogInv, NEW start, ReportFailure(start),
         UNCHANGED <<subsystem, minute>>, subsystem # "outbox" => start = Never
  PROVE  /\ WatchdogInv'
         /\ subsystem # "outbox" /\ checks' = "failed" /\ minute - outage' >= Delay
              => ReportedSince(outage')
<1> DEFINE from == IF since # Never THEN since ELSE IF start # Never THEN start ELSE minute
           clockStarts == since = Never /\ start = Never
           due == ~clockStarts /\ minute - from >= Delay
<1> USE DEF WatchdogInv
<1>1. /\ since' = from /\ alerted' = (alerted \/ due)
      /\ outage' = IF start # Never THEN start ELSE IF outage = Never THEN minute ELSE outage
      /\ IF due THEN Record(Down(from)) ELSE Silent
      /\ checks' = IF killed' # killed THEN "killed" ELSE "failed"
  BY DEF ReportFailure
<1>2. from # Never /\ minute \in Nat
  BY DEF Times, Never
<1>3. /\ heard \subseteq heard' /\ heard' \subseteq heard \union {Down(from)}
      /\ killed' = killed \/ killed' = killed + 1
      /\ due => killed' # killed \/ \E d \in heard' : SameAlarm(d, Down(from))
  <2>1. CASE due
    BY <1>1, <2>1, RecordKeeps DEF Times
  <2>2. CASE ~due
    BY <1>1, <2>2 DEF Silent
  <2> QED
    BY <2>1, <2>2
<1>4. Down(from).kind = "down" /\ Down(from).since = from /\ Down(from).at = minute
  BY DEF Down
<1>5. Times'
  BY <1>3, <1>4 DEF Times
<1>6. SinceIsOutage'
  <2> SUFFICES ASSUME subsystem # "outbox" PROVE SinceIsOutage'
    BY DEF SinceIsOutage
  <2>1. start = Never /\ since' = outage' /\ from \in 0..minute
    BY <1>1, <1>2 DEF SinceIsOutage
  <2> QED
    BY <1>1, <1>3, <1>4, <2>1 DEF SinceIsOutage
<1>7. AlarmIsHeard'
  <2> SUFFICES ASSUME killed' = 0, alerted'
               PROVE  since' # Never /\ \E d \in heard' : d.kind = "down" /\ d.since = since'
    BY DEF AlarmIsHeard
  <2>1. killed = 0 /\ killed' = killed
    BY <1>3 DEF Times
  <2>2. CASE alerted
    <3>1. since # Never /\ \E d \in heard : d.kind = "down" /\ d.since = since
      BY <2>1, <2>2 DEF AlarmIsHeard
    <3> QED
      BY <1>1, <1>3, <3>1
  <2>3. CASE due
    BY <1>1, <1>2, <1>3, <1>4, <2>1, <2>3 DEF SameAlarm
  <2> QED
    BY <1>1, <2>2, <2>3
<1>8. RecoveryFollowsAlarm'
  BY <1>3, <1>4 DEF RecoveryFollowsAlarm, Times
<1>9. ASSUME subsystem # "outbox", checks' = "failed", minute - outage' >= Delay
      PROVE  ReportedSince(outage')
  <2>1. since = outage /\ start = Never /\ outage' = from /\ killed' = killed
    BY <1>1, <1>9 DEF SinceIsOutage
  <2>2. ~clockStarts
    BY <1>2, <1>9, <2>1, DelayIsPositive
  <2>3. PICK d \in heard' : SameAlarm(d, Down(from))
    BY <1>3, <1>9, <2>1, <2>2
  <2>4. d.kind = "down" /\ d.since = from
    BY <1>4, <2>3 DEF SameAlarm
  <2>5. d.since <= d.at
    BY <1>6, <1>9 DEF SinceIsOutage
  <2> QED
    BY <2>1, <2>4, <2>5 DEF ReportedSince
<1> QED
  BY <1>5, <1>6, <1>7, <1>8, <1>9

\* What report_success leaves: a recovery follows the alarm that was marked.
LEMMA SuccessKeepsInv ==
  ASSUME WatchdogInv, ReportSuccess, UNCHANGED <<subsystem, minute>>
  PROVE  WatchdogInv' /\ checks' = "ok"
<1> USE DEF WatchdogInv
<1>1. outage' = Never /\ since' = Never /\ checks' = "ok"
  BY DEF ReportSuccess, ClearFailure
<1>2. alerted' => alerted /\ since = Never
  BY DEF ReportSuccess, ClearFailure
<1>3. /\ heard \subseteq heard' /\ heard' \subseteq heard \union {Up(since)}
      /\ killed' = killed \/ killed' = killed + 1
      /\ heard' # heard => alerted /\ since # Never
  <2>1. CASE since # Never /\ alerted
    BY <2>1, RecordKeeps DEF ReportSuccess, WasAlerted, Times
  <2>2. CASE ~(since # Never /\ alerted)
    BY <2>2 DEF ReportSuccess, WasAlerted, Silent
  <2> QED
    BY <2>1, <2>2
<1>4. Up(since).kind = "up" /\ Up(since).since = since /\ Up(since).at = minute
  BY DEF Up
<1>5. Times'
  BY <1>1, <1>3, <1>4 DEF Times, Never
<1>6. SinceIsOutage'
  BY <1>1, <1>3, <1>4 DEF SinceIsOutage, Times
<1>7. AlarmIsHeard'
  BY <1>2, <1>3 DEF AlarmIsHeard, Times
<1>8. RecoveryFollowsAlarm'
  <2> SUFFICES ASSUME killed' = 0, NEW e \in heard', e.kind = "up"
               PROVE  \E d \in heard' : d.kind = "down" /\ d.since = e.since /\ d.at <= e.at
    BY DEF RecoveryFollowsAlarm
  <2>1. killed = 0
    BY <1>3 DEF Times
  <2>2. CASE e \in heard
    BY <1>3, <2>1, <2>2 DEF RecoveryFollowsAlarm
  <2>3. CASE e \notin heard
    <3>1. e = Up(since) /\ alerted
      BY <1>3, <2>3
    <3>2. PICK d \in heard : d.kind = "down" /\ d.since = since
      BY <2>1, <3>1 DEF AlarmIsHeard
    <3> QED
      BY <1>3, <1>4, <3>1, <3>2 DEF Times
  <2> QED
    BY <2>2, <2>3
<1> QED
  BY <1>1, <1>5, <1>6, <1>7, <1>8

\* Every step keeps the invariant, and reports the outage it finds long enough.
LEMMA WatchdogStep ==
  ASSUME WatchdogInv, [WatchdogNext]_watchdogVars
  PROVE  /\ WatchdogInv'
         /\ \/ UNCHANGED watchdogVars
            \/ subsystem # "outbox" /\ checks' = "failed" /\ minute - outage' >= Delay
                 => ReportedSince(outage')
<1>1. CASE CheckPages
  BY <1>1, SuccessKeepsInv, FailureKeepsInv DEF CheckPages
<1>2. CASE CheckLiveFeed
  BY <1>2, SuccessKeepsInv, FailureKeepsInv DEF CheckLiveFeed
<1>3. CASE CheckOutbox
  <2>1. subsystem = "outbox" /\ UNCHANGED <<subsystem, minute>>
    BY <1>3 DEF CheckOutbox
  <2>2. CASE ReportSuccess
    BY <2>1, <2>2, SuccessKeepsInv
  <2>3. CASE Silent /\ UNCHANGED <<since, alerted, outage>>
    BY <2>1, <2>3
    DEF Silent, WatchdogInv, Times, SinceIsOutage, AlarmIsHeard, RecoveryFollowsAlarm
  <2>4. CASE queue # {} /\ ReportFailure(Oldest)
    BY <2>1, <2>4, FailureKeepsInv
  <2> QED
    BY <1>3, <2>2, <2>3, <2>4 DEF CheckOutbox
<1>4. CASE MatchGoesOn \/ TelegramTurns
  <2>1. UNCHANGED <<subsystem, minute, since, alerted, heard, queue, outage, killed>>
        /\ checks' = "none"
    BY <1>4 DEF MatchGoesOn, TelegramTurns
  <2> QED
    BY <2>1 DEF WatchdogInv, Times, SinceIsOutage, AlarmIsHeard, RecoveryFollowsAlarm
<1>5. CASE Enqueue \/ Deliver
  <2>1. UNCHANGED <<subsystem, minute, since, alerted, heard, outage, killed>>
        /\ checks' = "none" /\ queue' \subseteq queue \union {minute}
    BY <1>5 DEF Enqueue, Deliver
  <2> QED
    BY <2>1 DEF WatchdogInv, Times, SinceIsOutage, AlarmIsHeard, RecoveryFollowsAlarm
<1>6. CASE MinutePasses
  <2>1. UNCHANGED <<subsystem, since, alerted, heard, queue, outage, killed>>
        /\ checks' = "none" /\ minute' = minute + 1
    BY <1>6 DEF MinutePasses
  <2>2. Times' /\ SinceIsOutage'
    BY <2>1 DEF WatchdogInv, Times, SinceIsOutage
  <2>3. AlarmIsHeard' /\ RecoveryFollowsAlarm'
    BY <2>1 DEF WatchdogInv, AlarmIsHeard, RecoveryFollowsAlarm
  <2> QED
    BY <2>1, <2>2, <2>3 DEF WatchdogInv
<1>7. CASE UNCHANGED watchdogVars
  BY <1>7 DEF watchdogVars, WatchdogInv, Times, SinceIsOutage, AlarmIsHeard, RecoveryFollowsAlarm
<1> QED
  BY <1>1, <1>2, <1>3, <1>4, <1>5, <1>6, <1>7 DEF WatchdogNext

LEMMA WatchdogInvHolds == WatchdogSpec => []WatchdogInv
  BY WatchdogInitInv, WatchdogStep, PTL DEF WatchdogSpec

\* "Recovered" is only said after an alarm about the same failure.
THEOREM RecoveryHolds == WatchdogSpec => []RecoveryFollowsAlarm
<1>1. WatchdogInv => RecoveryFollowsAlarm
  BY DEF WatchdogInv
<1> QED
  BY <1>1, WatchdogInvHolds, PTL

\* A check that fails when the outage has lasted long enough finds an alarm about this
\* outage in the journal, whatever was reported, recovered from or killed before.
THEOREM OutageHolds == WatchdogSpec => OutageIsReported
<1>1. WatchdogInv /\ [WatchdogNext]_watchdogVars
        => [subsystem # "outbox" /\ checks' = "failed" /\ minute - outage' >= Delay
              => ReportedSince(outage')]_watchdogVars
  BY WatchdogStep
<1> QED
  BY <1>1, WatchdogInvHolds, PTL DEF WatchdogSpec, OutageIsReported
----------------------------------------------------------------------------
\* Stall: the readings of the page.

\* The loop is never late.
NextReading == minuteOfMatch <= pageDue /\ pageDue <= minuteOfMatch + LongestWait

\* What was read was shown, and has stood since no later than it was read.
ProgressIsRead ==
  /\ progress.score <= shownPage.score
  /\ progress.score = shownPage.score => progress.since # NotYet /\ moved <= progress.since
  /\ progress.since = NotYet <=> progress.score = NotYet

\* A feed that is up longer than a wait has kept the timer from running.
TimerStartsAfresh ==
  shownPage.live /\ failures = 0 =>
    /\ connected => \/ progress.since >= pageDue - LongestWait
                    \/ pageDue <= turned + LongestWait
    /\ fed # NotYet => progress.since >= fed - LongestWait

\* Without a feed: the first reading since it went and since the page moved is not far,
\* or the timer runs from that one and the last has told what it found.
Soon(t) == t <= moved + LongestWait \/ t <= turned + LongestWait
ReadingsTell ==
  shownPage.live /\ failures = 0 /\ ~connected =>
    \/ Soon(pageDue)
    \/ /\ progress.score = shownPage.score /\ Soon(progress.since)
       /\ \/ shownPage.score \in alarms
          \/ pageDue - LiveEvery - progress.since < Patience

StallInv ==
  StallTypeOK /\ NextReading /\ ProgressIsRead /\ TimerStartsAfresh /\ ReadingsTell

\* How long the loop waits, and how patient the alarm is.
LEMMA WaitsAndPatience ==
  /\ LiveEvery \in Nat /\ FeedEvery \in Nat /\ LongestWait \in Nat /\ LiveEvery > 0
  /\ LiveEvery <= LongestWait /\ FeedEvery <= LongestWait
  /\ LongestWait <= LiveEvery + FeedEvery
  /\ Patience \in Nat /\ Patience > 0
  /\ Stale \in Nat /\ BreakFactor * Stale \in Nat /\ Stale <= BreakFactor * Stale
<1>1. Stale \in Nat /\ Stale > 0 /\ BreakFactor \in Nat /\ BreakFactor > 0
  BY StallAssumption
<1>2. BreakFactor * Stale \in Nat /\ Stale <= BreakFactor * Stale
  <2>1. BreakFactor * Stale = (BreakFactor - 1) * Stale + Stale
        /\ (BreakFactor - 1) * Stale \in Nat /\ BreakFactor * Stale \in Nat
    BY <1>1
  <2> HIDE DEF Patience
  <2>2. \A a, b, c \in Nat : a = b + c => c <= a
    OBVIOUS
  <2> QED
    BY <1>1, <2>1, <2>2
<1> QED
  BY <1>1, <1>2, StallAssumption DEF LongestWait, Patience

\* The integers of a state.
LEMMA StallNumbers ==
  ASSUME StallTypeOK
  PROVE  /\ {minuteOfMatch, pageDue, moved, failures} \subseteq Nat
         /\ {turned, fed, progress.since, progress.score} \subseteq Int
         /\ shownPage.score \in 0..MaxScore /\ shownPage.live \in BOOLEAN
         /\ shownPage.between \in BOOLEAN
         /\ progress.since \in 0..minuteOfMatch \union {NotYet}
         /\ progress.score \in 0..MaxScore \union {NotYet}
         /\ turned <= minuteOfMatch /\ fed <= minuteOfMatch /\ moved <= minuteOfMatch
         /\ NotYet \in Int /\ NotYet < 0
         /\ {LastMinuteSeen, MaxScore, MaxFailures} \subseteq Nat
  BY StallAssumption DEF StallTypeOK, NotYet

\* The invariant holds initially.
LEMMA StallInitInv == StallInit => StallInv
<1> SUFFICES ASSUME StallInit PROVE StallInv
  OBVIOUS
<1>1. /\ LongestWait \in Nat /\ LiveEvery \in Nat /\ FeedEvery \in Nat
      /\ {LastMinuteSeen, MaxScore, MaxFailures} \subseteq Nat
  BY WaitsAndPatience, StallAssumption
<1>2. StallTypeOK
  <2>1. shownPage = [score |-> 0, between |-> TRUE, live |-> TRUE] /\ connected = FALSE
    BY DEF StallInit
  <2>2. /\ shownPage \in [score : 0..MaxScore, between : BOOLEAN, live : BOOLEAN]
        /\ connected \in BOOLEAN
    <3>1. connected \in BOOLEAN /\ TRUE \in BOOLEAN
      BY <2>1, Zenon
    <3>2. 0 \in 0..MaxScore
      BY <1>1
    <3>3. [score |-> 0, between |-> TRUE, live |-> TRUE]
            \in [score : 0..MaxScore, between : BOOLEAN, live : BOOLEAN]
      BY <3>1, <3>2, Zenon
    <3> QED
      BY <2>1, <3>1, <3>3
  <2>3. /\ minuteOfMatch = 0 /\ pageDue = 0 /\ alarms = {} /\ moved = 0 /\ failures = 0
        /\ turned = NotYet /\ fed = NotYet /\ progress = [score |-> NotYet, since |-> NotYet]
    BY DEF StallInit
  <2> QED
    BY <1>1, <2>2, <2>3 DEF StallTypeOK
<1>3. NextReading /\ ProgressIsRead /\ TimerStartsAfresh /\ ReadingsTell
  BY <1>1 DEF StallInit, NextReading, ProgressIsRead, TimerStartsAfresh, ReadingsTell, Soon, NotYet
<1> QED
  BY <1>2, <1>3 DEF StallInv

\* A round, a break and the end of the match.
LEMMA PageMovesInv == StallInv /\ PageMoves => StallInv'
<1> SUFFICES ASSUME StallInv, PageMoves PROVE StallInv'
  OBVIOUS
<1>1. /\ StallTypeOK /\ NextReading /\ ProgressIsRead /\ TimerStartsAfresh /\ ReadingsTell
      /\ UNCHANGED <<minuteOfMatch, connected, pageDue, progress, alarms, turned, fed, failures>>
      /\ shownPage.live
  BY DEF StallInv, PageMoves
<1>2. shownPage \in [score : 0..MaxScore, between : BOOLEAN, live : BOOLEAN]
  BY <1>1 DEF StallTypeOK
<1>3. CASE /\ shownPage.score < MaxScore
           /\ shownPage' = [shownPage EXCEPT !.score = @ + 1, !.between = FALSE]
           /\ moved' = minuteOfMatch
  <2>1. /\ shownPage'.score = shownPage.score + 1 /\ shownPage'.live = shownPage.live
        /\ shownPage' \in [score : 0..MaxScore, between : BOOLEAN, live : BOOLEAN]
        /\ moved' = minuteOfMatch
    <3>1. /\ shownPage.score \in 0..MaxScore /\ shownPage.score + 1 \in 0..MaxScore
      BY <1>1, <1>3, StallNumbers
    <3> QED
      BY <1>2, <1>3, <3>1
  <2>2. StallTypeOK'
    BY <1>1, <2>1, StallNumbers DEF StallTypeOK
  <2>3. ProgressIsRead'
    BY <1>1, <2>1, StallNumbers DEF ProgressIsRead
  <2>4. TimerStartsAfresh'
    BY <1>1, <2>1 DEF TimerStartsAfresh, LongestWait
  <2>5. NextReading' /\ ReadingsTell'
    BY <1>1, <2>1 DEF NextReading, ReadingsTell, Soon, LongestWait
  <2> QED
    BY <2>2, <2>3, <2>4, <2>5 DEF StallInv
<1>4. CASE ~shownPage.between /\ shownPage' = [shownPage EXCEPT !.between = TRUE] /\ UNCHANGED moved
  <2>1. /\ shownPage'.score = shownPage.score /\ shownPage'.live = shownPage.live
        /\ shownPage' \in [score : 0..MaxScore, between : BOOLEAN, live : BOOLEAN]
        /\ shownPage'.between = TRUE
    BY <1>2, <1>4
  <2>2. StallTypeOK'
    BY <1>1, <1>4, <2>1 DEF StallTypeOK
  <2>3. ProgressIsRead' /\ TimerStartsAfresh' /\ NextReading'
    BY <1>1, <1>4, <2>1 DEF ProgressIsRead, TimerStartsAfresh, NextReading, LongestWait
  <2>4. Patience \in Int /\ Patience' \in Int /\ Patience <= Patience'
    BY <1>4, <2>1, WaitsAndPatience DEF Patience
  <2>5. ReadingsTell'
    <3>1. \A d \in Int : d < Patience => d < Patience'
      BY <2>4
    <3>2. pageDue - LiveEvery - progress.since \in Int
      BY <1>1, StallNumbers, WaitsAndPatience
    <3> HIDE DEF Patience
    <3>3. \A x : Soon(x)' = Soon(x)
      BY <1>1, <1>4 DEF Soon, LongestWait
    <3> QED
      BY <1>1, <2>1, <3>1, <3>2, <1>4 DEF ReadingsTell, Soon, LongestWait
  <2> QED
    BY <2>2, <2>3, <2>5 DEF StallInv
<1>5. CASE shownPage' = [shownPage EXCEPT !.live = FALSE] /\ UNCHANGED moved
  <2>1. /\ shownPage'.score = shownPage.score /\ ~shownPage'.live
        /\ shownPage' \in [score : 0..MaxScore, between : BOOLEAN, live : BOOLEAN]
    BY <1>2, <1>5
  <2>2. StallTypeOK'
    BY <1>1, <1>5, <2>1 DEF StallTypeOK
  <2> QED
    BY <1>1, <1>5, <2>1, <2>2
    DEF StallInv, ProgressIsRead, TimerStartsAfresh, NextReading, ReadingsTell, LongestWait
<1> QED
  BY <1>3, <1>4, <1>5 DEF PageMoves

\* The feed comes or goes: the next reading is soon after that.
LEMMA FeedTurnsInv == StallInv /\ FeedTurns => StallInv'
<1> SUFFICES ASSUME StallInv, FeedTurns PROVE StallInv'
  OBVIOUS
<1>1. /\ StallTypeOK /\ NextReading /\ ProgressIsRead /\ TimerStartsAfresh /\ ReadingsTell
      /\ UNCHANGED <<minuteOfMatch, shownPage, pageDue, progress, alarms, moved, fed, failures>>
      /\ turned' = minuteOfMatch
  BY DEF StallInv, FeedTurns
<1>2. connected' \in BOOLEAN
  BY Zenon DEF FeedTurns
<1>3. StallTypeOK'
  BY <1>1, <1>2, StallNumbers DEF StallTypeOK
<1>4. TimerStartsAfresh'
  BY <1>1 DEF TimerStartsAfresh, NextReading, LongestWait
<1>5. ReadingsTell' /\ NextReading' /\ ProgressIsRead'
  BY <1>1 DEF ReadingsTell, Soon, NextReading, ProgressIsRead, LongestWait
<1> QED
  BY <1>3, <1>4, <1>5 DEF StallInv

\* A reading that is looked at: there is a feed, or the page moved, or the timer is
\* looked at.
LEMMA CheckStallCases ==
  ASSUME StallTypeOK, CheckStall
  PROVE  \/ ~shownPage.live /\ UNCHANGED <<progress, alarms>>
         \/ /\ shownPage.live /\ UNCHANGED alarms
            /\ connected \/ progress.score # shownPage.score \/ progress.since = NotYet
            /\ progress'.score = shownPage.score /\ progress'.since = minuteOfMatch
            /\ progress' \in [score : 0..MaxScore, since : 0..minuteOfMatch]
         \/ /\ shownPage.live /\ ~connected /\ UNCHANGED progress
            /\ progress.score = shownPage.score /\ progress.since # NotYet
            /\ alarms' = IF minuteOfMatch - progress.since >= Patience
                           THEN alarms \union {shownPage.score} ELSE alarms
<1>1. minuteOfMatch \in 0..minuteOfMatch /\ shownPage.score \in 0..MaxScore
  BY StallNumbers
<1> QED
  BY <1>1 DEF CheckStall, StartsAfresh

\* A reading, or a page that could not be read.
LEMMA ReadPageInv == StallInv /\ ReadPage => StallInv'
<1> SUFFICES ASSUME StallInv, ReadPage PROVE StallInv'
  OBVIOUS
<1>1. /\ StallTypeOK /\ NextReading /\ ProgressIsRead /\ TimerStartsAfresh /\ ReadingsTell
      /\ UNCHANGED <<minuteOfMatch, shownPage, connected, moved, turned, fed>>
      /\ pageDue' = minuteOfMatch + (IF connected THEN FeedEvery ELSE LiveEvery)
      /\ minuteOfMatch >= pageDue
  BY DEF StallInv, ReadPage
<1>2. /\ minuteOfMatch = pageDue /\ pageDue' \in Nat /\ NextReading'
      /\ pageDue' \in 0..(LastMinuteSeen + LiveEvery + FeedEvery)
      /\ ~connected => pageDue' - LiveEvery = minuteOfMatch
      /\ pageDue' - LongestWait <= minuteOfMatch
  <2>1. minuteOfMatch = pageDue
    BY <1>1, StallNumbers DEF NextReading
  <2>2. minuteOfMatch <= LastMinuteSeen
    BY <1>1 DEF StallTypeOK
  <2> QED
    BY <1>1, <2>1, <2>2, StallNumbers, WaitsAndPatience DEF NextReading
<1>3. CASE /\ failures < MaxFailures /\ failures' = failures + 1
           /\ UNCHANGED <<progress, alarms>>
  <2>1. failures' \in 0..MaxFailures /\ failures' # 0
    BY <1>1, <1>3, StallNumbers
  <2>2. StallTypeOK'
    BY <1>1, <1>2, <1>3, <2>1 DEF StallTypeOK
  <2> QED
    BY <1>1, <1>2, <1>3, <2>1, <2>2
    DEF StallInv, ProgressIsRead, TimerStartsAfresh, ReadingsTell
<1>4. CASE CheckStall /\ UNCHANGED failures
  <2>1. CASE ~shownPage.live /\ UNCHANGED <<progress, alarms>>
    <3>1. StallTypeOK'
      BY <1>1, <1>2, <1>4, <2>1 DEF StallTypeOK
    <3> QED
      BY <1>1, <1>2, <1>4, <2>1, <3>1
      DEF StallInv, ProgressIsRead, TimerStartsAfresh, ReadingsTell
  <2>2. CASE /\ shownPage.live /\ UNCHANGED alarms
             /\ connected \/ progress.score # shownPage.score \/ progress.since = NotYet
             /\ progress'.score = shownPage.score /\ progress'.since = minuteOfMatch
             /\ progress' \in [score : 0..MaxScore, since : 0..minuteOfMatch]
    <3>1. StallTypeOK'
      BY <1>1, <1>2, <1>4, <2>2 DEF StallTypeOK
    <3>2. ProgressIsRead'
      BY <1>1, <2>2, StallNumbers DEF ProgressIsRead
    <3>3. TimerStartsAfresh'
      BY <1>1, <1>2, <1>4, <2>2, StallNumbers, WaitsAndPatience DEF TimerStartsAfresh, LongestWait
    <3>4. ReadingsTell'
      <4>1. SUFFICES ASSUME failures = 0, ~connected PROVE Soon(progress.since)' /\
                       (pageDue - LiveEvery - progress.since < Patience)'
        BY <1>1, <1>4, <2>2 DEF ReadingsTell
      <4>2. Soon(pageDue)
        BY <1>1, <2>2, <4>1 DEF ReadingsTell, ProgressIsRead
      <4>3. pageDue' - LiveEvery - progress'.since = 0
        BY <1>1, <1>2, <2>2, <4>1, StallNumbers
      <4>4. Patience' > 0
        BY <1>1, WaitsAndPatience DEF Patience
      <4>5. LiveEvery' = LiveEvery
        OBVIOUS
      <4> QED
        BY <1>1, <1>2, <2>2, <4>2, <4>3, <4>4 DEF Soon, LongestWait
    <3> QED
      BY <1>2, <3>1, <3>2, <3>3, <3>4 DEF StallInv
  <2>3. CASE /\ shownPage.live /\ ~connected /\ UNCHANGED progress
             /\ progress.score = shownPage.score /\ progress.since # NotYet
             /\ alarms' = IF minuteOfMatch - progress.since >= Patience
                            THEN alarms \union {shownPage.score} ELSE alarms
    <3>1. StallTypeOK'
      <4>1. alarms' \subseteq 0..MaxScore
        BY <1>1, <2>3, StallNumbers DEF StallTypeOK
      <4> QED
        BY <1>1, <1>2, <1>4, <2>3, <4>1 DEF StallTypeOK
    <3>2. ProgressIsRead' /\ TimerStartsAfresh'
      BY <1>1, <1>4, <2>3 DEF ProgressIsRead, TimerStartsAfresh, LongestWait
    <3>3. ReadingsTell'
      <4>1. SUFFICES ASSUME failures = 0
                     PROVE  /\ Soon(progress.since)
                            /\ \/ shownPage.score \in alarms'
                               \/ minuteOfMatch - progress.since < Patience
        BY <1>1, <1>2, <1>4, <2>3 DEF ReadingsTell, Soon, LongestWait, Patience
      <4>2. Soon(progress.since)
        <5>1. CASE Soon(pageDue)
          BY <1>1, <1>2, <2>3, <5>1, StallNumbers, WaitsAndPatience DEF Soon
        <5>2. CASE ~Soon(pageDue)
          BY <1>1, <2>3, <4>1, <5>2 DEF ReadingsTell
        <5> QED
          BY <5>1, <5>2
      <4>3. shownPage.score \in alarms' \/ minuteOfMatch - progress.since < Patience
        <5>1. minuteOfMatch - progress.since \in Int /\ Patience \in Int
          BY <1>1, StallNumbers, WaitsAndPatience
        <5> HIDE DEF Patience
        <5>2. CASE minuteOfMatch - progress.since >= Patience
          BY <2>3, <5>2
        <5>3. CASE ~(minuteOfMatch - progress.since >= Patience)
          BY <5>1, <5>3
        <5> QED
          BY <5>2, <5>3
      <4> QED
        BY <4>2, <4>3
    <3> QED
      BY <1>2, <3>1, <3>2, <3>3 DEF StallInv
  <2> QED
    BY <1>1, <1>4, <2>1, <2>2, <2>3, CheckStallCases
<1> QED
  BY <1>3, <1>4 DEF ReadPage

\* A minute passes.
LEMMA MatchMinuteInv == StallInv /\ MatchMinute => StallInv'
<1> SUFFICES ASSUME StallInv, MatchMinute PROVE StallInv'
  OBVIOUS
<1>1. /\ StallTypeOK /\ NextReading /\ ProgressIsRead /\ TimerStartsAfresh /\ ReadingsTell
      /\ UNCHANGED <<shownPage, connected, pageDue, progress, alarms, moved, turned, failures>>
      /\ minuteOfMatch' = minuteOfMatch + 1 /\ minuteOfMatch < LastMinuteSeen
      /\ minuteOfMatch < pageDue
      /\ \/ fed' = fed
         \/ connected /\ (minuteOfMatch + 1) - turned > LongestWait /\ fed' = minuteOfMatch + 1
  <2>1. minuteOfMatch' = minuteOfMatch + 1
        /\ fed' = IF connected /\ minuteOfMatch' - turned > LongestWait THEN minuteOfMatch' ELSE fed
    BY DEF MatchMinute
  <2>2. \/ fed' = fed
        \/ connected /\ (minuteOfMatch + 1) - turned > LongestWait /\ fed' = minuteOfMatch + 1
    BY <2>1
  <2> QED
    BY <2>2 DEF StallInv, MatchMinute
<1>2. StallTypeOK'
  <2>1. /\ minuteOfMatch' \in 0..LastMinuteSeen
        /\ \A x \in 0..minuteOfMatch : x \in 0..minuteOfMatch'
        /\ minuteOfMatch + 1 \in 0..minuteOfMatch'
    BY <1>1, StallNumbers
  <2>2. progress \in [score : 0..MaxScore \union {NotYet}, since : 0..minuteOfMatch' \union {NotYet}]
    BY <1>1, <2>1 DEF StallTypeOK
  <2> QED
    BY <1>1, <2>1, <2>2 DEF StallTypeOK
<1>3. NextReading' /\ ProgressIsRead'
  BY <1>1, StallNumbers, WaitsAndPatience DEF NextReading, ProgressIsRead, LongestWait
<1>4. ReadingsTell'
  BY <1>1 DEF ReadingsTell, Soon, LongestWait, Patience
<1>5. TimerStartsAfresh'
  <2>1. CASE fed' = fed
    BY <1>1, <2>1 DEF TimerStartsAfresh, LongestWait
  <2>2. CASE connected /\ (minuteOfMatch + 1) - turned > LongestWait /\ fed' = minuteOfMatch + 1
    <3>1. SUFFICES ASSUME shownPage.live, failures = 0
                   PROVE  progress.since >= (minuteOfMatch + 1) - LongestWait
      BY <1>1, <2>2 DEF TimerStartsAfresh, LongestWait
    <3>2. \/ progress.since >= pageDue - LongestWait
          \/ pageDue <= turned + LongestWait
      BY <1>1, <2>2, <3>1 DEF TimerStartsAfresh
    <3> QED
      BY <1>1, <2>2, <3>2, StallNumbers, WaitsAndPatience
  <2> QED
    BY <1>1, <2>1, <2>2
<1> QED
  BY <1>2, <1>3, <1>4, <1>5 DEF StallInv

\* Each step keeps the invariant.
LEMMA StallNextInv == StallInv /\ [StallNext]_stallVars => StallInv'
<1>1. StallInv /\ UNCHANGED stallVars => StallInv'
  BY DEF stallVars, StallInv, StallTypeOK, NextReading, ProgressIsRead, TimerStartsAfresh,
         ReadingsTell, Soon, LongestWait, Patience
<1> QED
  BY <1>1, PageMovesInv, FeedTurnsInv, ReadPageInv, MatchMinuteInv DEF StallNext

\* What a step tells is blindness, and blindness has been told of.
LEMMA StallStep ==
  ASSUME StallInv, [StallNext]_stallVars
  PROVE  /\ alarms' # alarms =>
              /\ ~connected /\ shownPage.live /\ Blind(moved, Patience)
              /\ failures = 0 /\ fed # NotYet => Blind(fed, Patience - LongestWait)
         /\ /\ shownPage.live /\ ~connected /\ failures = 0
            /\ Blind(moved, Patience + LongestWait + LiveEvery)
            /\ Blind(turned, Patience + LongestWait + LiveEvery)
            => shownPage.score \in alarms'
<1>1. /\ StallTypeOK /\ NextReading /\ ProgressIsRead /\ TimerStartsAfresh /\ ReadingsTell
  BY DEF StallInv
<1> HIDE DEF Patience
<1>2. ASSUME alarms' # alarms
      PROVE  /\ ~connected /\ shownPage.live /\ Blind(moved, Patience)
             /\ failures = 0 /\ fed # NotYet => Blind(fed, Patience - LongestWait)
  <2>1. ReadPage /\ CheckStall
    BY <1>2 DEF StallNext, PageMoves, FeedTurns, ReadPage, MatchMinute, stallVars
  <2>2. /\ shownPage.live /\ ~connected /\ progress.score = shownPage.score
        /\ minuteOfMatch - progress.since >= Patience
    BY <1>1, <1>2, <2>1, CheckStallCases
  <2>3. moved <= progress.since
    BY <1>1, <2>2 DEF ProgressIsRead
  <2>4. failures = 0 /\ fed # NotYet => progress.since >= fed - LongestWait
    BY <1>1, <2>2 DEF TimerStartsAfresh
  <2>5. \A m, s, a, f, w, p \in Int :
          m - s >= p => (a <= s => m - a >= p) /\ (s >= f - w => m - f >= p - w)
    OBVIOUS
  <2>6. /\ {minuteOfMatch, progress.since, moved, fed, LongestWait, Patience} \subseteq Int
    BY <1>1, StallNumbers, WaitsAndPatience
  <2> QED
    BY <2>2, <2>3, <2>4, <2>5, <2>6 DEF Blind
<1>3. ASSUME shownPage.live, ~connected, failures = 0,
             Blind(moved, Patience + LongestWait + LiveEvery),
             Blind(turned, Patience + LongestWait + LiveEvery)
      PROVE  shownPage.score \in alarms
  <2>1. {minuteOfMatch, pageDue, moved, turned, progress.since, LongestWait, LiveEvery, Patience}
          \subseteq Int /\ Patience > 0 /\ LiveEvery > 0
    BY <1>1, StallNumbers, WaitsAndPatience
  <2>2. /\ minuteOfMatch - moved >= Patience + LongestWait + LiveEvery
        /\ minuteOfMatch - turned >= Patience + LongestWait + LiveEvery
        /\ minuteOfMatch <= pageDue
    BY <1>1, <1>3 DEF Blind, NextReading
  <2>3. ~Soon(pageDue)
    BY <2>1, <2>2 DEF Soon
  <2>4. /\ progress.score = shownPage.score /\ Soon(progress.since)
        /\ \/ shownPage.score \in alarms
           \/ pageDue - LiveEvery - progress.since < Patience
    BY <1>1, <1>3, <2>3 DEF ReadingsTell
  <2>5. ~(pageDue - LiveEvery - progress.since < Patience)
    BY <2>1, <2>2, <2>4 DEF Soon
  <2> QED
    BY <2>4, <2>5
<1>4. alarms \subseteq alarms'
  <2>1. CASE CheckStall
    BY <1>1, <2>1, CheckStallCases
  <2>2. CASE alarms' = alarms
    BY <2>2
  <2> QED
    BY <2>1, <2>2 DEF StallNext, PageMoves, FeedTurns, ReadPage, MatchMinute, stallVars
<1> QED
  BY <1>2, <1>3, <1>4

\* However the intervals and thresholds are set, the stall alarm is blindness and
\* nothing else, and blindness that lasts is told of (_check_stall).
THEOREM StallHolds == StallSpec => StallIsBlindness
<1>1. StallInv /\ [StallNext]_stallVars =>
        [/\ alarms' # alarms =>
              /\ ~connected /\ shownPage.live /\ Blind(moved, Patience)
              /\ failures = 0 /\ fed # NotYet => Blind(fed, Patience - LongestWait)
         /\ /\ shownPage.live /\ ~connected /\ failures = 0
            /\ Blind(moved, Patience + LongestWait + LiveEvery)
            /\ Blind(turned, Patience + LongestWait + LiveEvery)
            => shownPage.score \in alarms']_stallVars
  BY StallStep
<1> QED
  BY <1>1, StallInitInv, StallNextInv, PTL DEF StallSpec, StallIsBlindness

\* The variables keep their types.
THEOREM StallTypeCorrect == StallSpec => []StallTypeOK
<1>1. StallInv => StallTypeOK
  BY DEF StallInv
<1> QED
  BY <1>1, StallInitInv, StallNextInv, PTL DEF StallSpec
----------------------------------------------------------------------------
\* Digests: the reader's clock.

\* The date on which the clock last passed this slot, and how long ago that was.
PassedOn(s) == Wall(passed[s]) \div DayLength
Since(s) == turn - passed[s]

\* Unless the clock was moved since: it is less than a day that it passed the slot, and
\* there has been a midnight since just when it shows less than it showed then.
ClockInv ==
  \A s \in Slots : passed[s] # NotPassed =>
    /\ passed[s] \in 0..turn /\ Since(s) < DayLength
    /\ \/ TimeOfDay = s + Since(s) /\ Date = PassedOn(s)
       \/ TimeOfDay = s + Since(s) - DayLength /\ Date = PassedOn(s) + 1

\* A digest since then is of that date.
DigestIsOfItsDay ==
  \A d \in digests :
    passed[d.slot] # NotPassed /\ d.at >= passed[d.slot] => d.date = PassedOn(d.slot)

\* What was due when the loop looked has been sent.
NothingIsDue ==
  attended /\ ~quiet => \A s \in DueNow : Key(s) \in Keyed

DigestsInv == DigestsTypeOK /\ ClockInv /\ DigestIsOfItsDay /\ NothingIsDue

\* What is sent is on its way to the journal, and nothing leaves it.
LEMMA EnqueuedGrows ==
  ASSUME DigestsTypeOK, NEW some \in SUBSET DueNow, Enqueued(some)
  PROVE  /\ digests \subseteq digests'
         /\ \A d \in digests' \ digests :
              /\ ~quiet /\ d.slot \in some /\ d.date = Date /\ d.at = turn
              /\ Key(d.slot) \notin Keyed
         /\ ~quiet => \A s \in some : \E d \in digests' : d.slot = s /\ d.date = Date
<1> DEFINE new == {[slot |-> Key(s).slot, date |-> Key(s).date, at |-> turn] :
                      s \in {s \in some : Key(s) \notin Keyed}}
<1>1. digests' = IF quiet THEN digests ELSE digests \union new
  BY DEF Enqueued
<1>2. \A s : Key(s).slot = s /\ Key(s).date = Date
  BY DEF Key
<1>3. \A d \in new : d.slot \in some /\ d.date = Date /\ d.at = turn /\ Key(d.slot) \notin Keyed
  BY <1>2
<1>4. ASSUME ~quiet, NEW s \in some PROVE \E d \in digests' : d.slot = s /\ d.date = Date
  <2>1. CASE Key(s) \in Keyed
    <3>1. PICK d \in digests : Key(s) = [slot |-> d.slot, date |-> d.date]
      BY <2>1 DEF Keyed
    <3>2. d.slot = s /\ d.date = Date
      BY <1>2, <3>1
    <3> QED
      BY <1>1, <1>4, <3>2
  <2>2. CASE Key(s) \notin Keyed
    <3> DEFINE d == [slot |-> Key(s).slot, date |-> Key(s).date, at |-> turn]
    <3>1. d \in new /\ d.slot = s /\ d.date = Date
      BY <1>2, <1>4, <2>2
    <3> QED
      BY <1>1, <1>4, <3>1
  <2> QED
    BY <2>1, <2>2
<1> HIDE DEF new
<1> QED
  BY <1>1, <1>3, <1>4

\* Two that are sent at once for one slot are one.
LEMMA SameDigest ==
  ASSUME NEW some \in SUBSET DueNow, Enqueued(some),
         NEW d \in digests' \ digests, NEW e \in digests' \ digests, d.slot = e.slot
  PROVE  d = e
<1> DEFINE Sent(s) == [slot |-> Key(s).slot, date |-> Key(s).date, at |-> turn]
<1>1. d \in {Sent(s) : s \in some} /\ e \in {Sent(s) : s \in some}
  BY DEF Enqueued
<1>2. PICK s \in some, z \in some : d = Sent(s) /\ e = Sent(z)
  BY <1>1
<1>3. s = z
  BY <1>2 DEF Key
<1> QED
  BY <1>2, <1>3

\* A key is in the journal with its digest.
LEMMA KeyedIsSent ==
  \A s : Key(s) \in Keyed <=> \E d \in digests : d.slot = s /\ d.date = Date
<1>1. ASSUME NEW s, Key(s) \in Keyed PROVE \E d \in digests : d.slot = s /\ d.date = Date
  <2>1. PICK d \in digests : Key(s) = [slot |-> d.slot, date |-> d.date]
    BY <1>1 DEF Keyed
  <2>2. Key(s).slot = s /\ Key(s).date = Date
    BY DEF Key
  <2> QED
    BY <2>1, <2>2
<1>2. ASSUME NEW s, NEW d \in digests, d.slot = s, d.date = Date PROVE Key(s) \in Keyed
  BY <1>2 DEF Key, Keyed
<1> QED
  BY <1>1, <1>2

\* A day is a whole number of minutes.
LEMMA Midnight ==
  ASSUME NEW n \in Nat, NEW day \in Nat \ {0}
  PROVE  /\ n \div day \in Nat /\ n % day \in 0..(day - 1)
         /\ \/ n % day = day - 1 /\ (n + 1) % day = 0 /\ (n + 1) \div day = (n \div day) + 1
            \/ n % day # day - 1 /\ (n + 1) % day = (n % day) + 1 /\ (n + 1) \div day = n \div day
<1> DEFINE q == n \div day
           r == n % day
<1>1. \A a \in Nat, b \in 0..(day - 1) : (a * day + b) \div day = a /\ (a * day + b) % day = b
  OBVIOUS
<1>2. q \in Nat /\ r \in 0..(day - 1) /\ n = q * day + r
  OBVIOUS
<1> HIDE DEF q, r
<1>3. CASE r = day - 1
  <2>1. n + 1 = (q + 1) * day + 0 /\ q + 1 \in Nat /\ 0 \in 0..(day - 1)
    BY <1>2, <1>3
  <2> QED
    BY <1>1, <1>2, <1>3, <2>1 DEF q, r
<1>4. CASE r # day - 1
  <2>1. n + 1 = q * day + (r + 1) /\ r + 1 \in 0..(day - 1)
    BY <1>2, <1>4
  <2>2. (n + 1) \div day = q /\ (n + 1) % day = r + 1
    BY <1>1, <1>2, <2>1
  <2> QED
    BY <1>2, <1>4, <2>2 DEF q, r
<1> QED
  BY <1>2, <1>3, <1>4 DEF q, r

\* The reader's clock shows a time of the day and a date.
LEMMA ClockShows ==
  ASSUME DigestsTypeOK
  PROVE  /\ DayLength \in Nat \ {0} /\ CatchUp \in Nat /\ CatchUp < DayLength
         /\ \A t \in Nat : /\ Wall(t) \in Nat /\ Wall(t) \div DayLength \in Nat
                           /\ Wall(t) % DayLength \in 0..(DayLength - 1)
                           /\ Wall(t + 1) = Wall(t) + 1
         /\ turn \in Nat /\ Date \in Nat /\ TimeOfDay \in 0..(DayLength - 1)
         /\ Slots \subseteq 0..(DayLength - 1)
<1>1. /\ DayLength \in Nat \ {0} /\ CatchUp \in Nat /\ CatchUp < DayLength
      /\ zone \in Nat /\ season \in Nat /\ turn \in Nat /\ Slots \subseteq 0..(DayLength - 1)
  BY DigestsAssumption DEF DigestsTypeOK
<1>2. ASSUME NEW t \in Nat
      PROVE  /\ Wall(t) \in Nat /\ Wall(t) \div DayLength \in Nat
             /\ Wall(t) % DayLength \in 0..(DayLength - 1)
             /\ Wall(t + 1) = Wall(t) + 1
  <2>1. Wall(t) \in Nat /\ Wall(t + 1) = Wall(t) + 1
    BY <1>1 DEF Wall
  <2> QED
    BY <1>1, <2>1, Midnight
<1> QED
  BY <1>1, <1>2 DEF Date, TimeOfDay

\* The hour after a slot is the hour since the clock passed it, on the same date.
LEMMA DueIsJustPassed ==
  ASSUME DigestsTypeOK, ClockInv, NEW s \in Slots, passed[s] # NotPassed
  PROVE  /\ IsDue(s) <=> JustPassed(s)
         /\ IsDue(s) => Date = PassedOn(s)
<1>1. /\ DayLength \in Nat /\ CatchUp \in Nat /\ CatchUp < DayLength /\ TimeOfDay \in Nat
      /\ s \in 0..(DayLength - 1) /\ Date \in Nat /\ PassedOn(s) \in Nat /\ Since(s) \in Nat
  <2>1. turn \in Nat /\ passed[s] \in 0..turn
    BY ClockShows DEF ClockInv
  <2>2. Since(s) \in Nat
    BY <2>1 DEF Since
  <2>3. PassedOn(s) \in Nat
    <3>1. passed[s] \in Nat
      BY <2>1
    <3> QED
      BY <3>1, ClockShows DEF PassedOn
  <2> QED
    BY <2>2, <2>3, ClockShows
<1>2. /\ Since(s) < DayLength
      /\ \/ TimeOfDay = s + Since(s) /\ Date = PassedOn(s)
         \/ TimeOfDay = s + Since(s) - DayLength /\ Date = PassedOn(s) + 1
  BY DEF ClockInv
<1>3. JustPassed(s) <=> Since(s) < CatchUp /\ PassedOn(s) = Date
  BY DEF JustPassed, Since, PassedOn
<1>4. CASE TimeOfDay = s + Since(s) /\ Date = PassedOn(s)
  BY <1>1, <1>3, <1>4 DEF IsDue
<1>5. CASE TimeOfDay = s + Since(s) - DayLength /\ Date = PassedOn(s) + 1
  <2>1. TimeOfDay < s /\ Date # PassedOn(s)
    BY <1>1, <1>2, <1>5
  <2> QED
    BY <1>1, <1>3, <2>1 DEF IsDue
<1> QED
  BY <1>2, <1>4, <1>5

\* The invariant holds initially.
LEMMA DigestsInitInv == DigestsInit => DigestsInv
<1> SUFFICES ASSUME DigestsInit PROVE DigestsInv
  OBVIOUS
<1>1. DigestsTypeOK
  <2>1. {quiet, matchesOn, serving, attended} \subseteq BOOLEAN
    BY Zenon DEF DigestsInit
  <2>2. /\ turn \in 0..LastTurn /\ zone \in Zones /\ season \in {0, Season} /\ slots \subseteq Slots
        /\ digests = {} /\ passed \in [Slots -> 0..LastTurn \union {NotPassed}]
        /\ turnings \in 0..MaxTurnings
    BY DigestsAssumption DEF DigestsInit
  <2> QED
    BY <2>1, <2>2 DEF DigestsTypeOK
<1>2. ClockInv
  BY DEF DigestsInit, ClockInv
<1>3. DigestIsOfItsDay /\ NothingIsDue
  BY DEF DigestsInit, DigestIsOfItsDay, NothingIsDue
<1> QED
  BY <1>1, <1>2, <1>3 DEF DigestsInv

\* What a turn of the loop sends is of the day.
LEMMA SentIsOfItsDay ==
  ASSUME DigestsInv, NEW some \in SUBSET DueNow, Enqueued(some),
         UNCHANGED <<turn, zone, season, passed>>
  PROVE  /\ \A d \in digests' : d.slot \in Slots /\ d.date \in Nat /\ d.at \in 0..turn
         /\ ClockInv' /\ DigestIsOfItsDay'
<1>1. /\ DigestsTypeOK /\ ClockInv /\ DigestIsOfItsDay /\ slots \subseteq Slots
  BY DEF DigestsInv, DigestsTypeOK
<1>2. \A d \in digests' \ digests : d.slot \in some /\ d.date = Date /\ d.at = turn
  BY <1>1, EnqueuedGrows
<1>3. \A s \in some : s \in Slots /\ IsDue(s)
  BY <1>1 DEF DueNow
<1>4. turn \in Nat /\ Date \in Nat
  BY <1>1, ClockShows
<1>5. /\ ClockInv' /\ \A s \in Slots : PassedOn(s)' = PassedOn(s)
  BY <1>1 DEF ClockInv, Since, TimeOfDay, Date, PassedOn, Wall
<1>6. ASSUME NEW d \in digests'
      PROVE  d.slot \in Slots /\ d.date \in Nat /\ d.at \in 0..turn
  <2>1. CASE d \in digests
    BY <1>1, <2>1 DEF DigestsTypeOK
  <2>2. CASE d \notin digests
    BY <1>2, <1>3, <1>4, <2>2
  <2> QED
    BY <2>1, <2>2
<1>7. ASSUME NEW d \in digests', passed[d.slot] # NotPassed, d.at >= passed[d.slot]
      PROVE  d.date = PassedOn(d.slot)
  <2>1. CASE d \in digests
    BY <1>1, <1>7, <2>1 DEF DigestIsOfItsDay
  <2>2. CASE d \notin digests
    BY <1>1, <1>2, <1>3, <1>7, <2>2, DueIsJustPassed
  <2> QED
    BY <2>1, <2>2
<1> QED
  BY <1>5, <1>6, <1>7 DEF DigestIsOfItsDay

\* Time passes: the clock shows a slot, or is one minute further from it.
LEMMA TurnPassesClock ==
  ASSUME DigestsInv, TurnPasses
  PROVE  ClockInv' /\ DigestIsOfItsDay'
<1> DEFINE now == Wall(turn + 1) % DayLength
           today == Wall(turn + 1) \div DayLength
<1>1. /\ turn' = turn + 1 /\ UNCHANGED <<zone, season, digests>>
      /\ passed' = [s \in Slots |-> IF now = s THEN turn + 1 ELSE passed[s]]
  BY DEF TurnPasses
<1>2. /\ DigestsTypeOK /\ ClockInv /\ DigestIsOfItsDay
  BY DEF DigestsInv
<1>3. /\ DayLength \in Nat \ {0} /\ TimeOfDay \in 0..(DayLength - 1) /\ Date \in Nat /\ turn \in Nat
      /\ Slots \subseteq 0..(DayLength - 1)
  BY <1>2, ClockShows
<1>4. /\ \/ TimeOfDay = DayLength - 1 /\ now = 0 /\ today = Date + 1
         \/ TimeOfDay # DayLength - 1 /\ now = TimeOfDay + 1 /\ today = Date
  <2>1. Wall(turn) \in Nat /\ Wall(turn + 1) = Wall(turn) + 1
    BY <1>2, ClockShows
  <2> QED
    BY <1>3, <2>1, Midnight DEF TimeOfDay, Date
<1>5. (\A t : Wall(t)' = Wall(t)) /\ TimeOfDay' = now /\ Date' = today
  BY <1>1 DEF Wall, TimeOfDay, Date
<1> HIDE DEF now, today
<1>6. ASSUME NEW s \in Slots, now = s
      PROVE  passed'[s] = turn + 1 /\ PassedOn(s)' = today /\ Since(s)' = 0
  BY <1>1, <1>3, <1>5, <1>6 DEF PassedOn, Since, today
<1>7. ASSUME NEW s \in Slots, now # s, passed[s] # NotPassed
      PROVE  /\ passed'[s] = passed[s] /\ PassedOn(s)' = PassedOn(s)
             /\ Since(s)' = Since(s) + 1 /\ Since(s) \in Nat /\ passed[s] \in 0..turn
  BY <1>1, <1>2, <1>3, <1>5, <1>7 DEF PassedOn, Since, ClockInv
<1>8. ASSUME NEW s \in Slots, passed'[s] # NotPassed
      PROVE  /\ passed'[s] \in 0..turn' /\ Since(s)' < DayLength
             /\ \/ TimeOfDay' = s + Since(s)' /\ Date' = PassedOn(s)'
                \/ TimeOfDay' = s + Since(s)' - DayLength /\ Date' = PassedOn(s)' + 1
  <2>1. CASE now = s
    <3>1. s \in Nat /\ s + 0 = s /\ passed'[s] \in 0..turn' /\ 0 < DayLength
      BY <1>1, <1>3, <1>6, <2>1
    <3> QED
      BY <1>5, <1>6, <2>1, <3>1
  <2>2. CASE now # s
    <3>1. passed[s] # NotPassed
      BY <1>1, <1>8, <2>2
    <3>2. /\ passed'[s] = passed[s] /\ PassedOn(s)' = PassedOn(s)
          /\ Since(s)' = Since(s) + 1 /\ Since(s) \in Nat /\ passed[s] \in 0..turn
      BY <1>7, <2>2, <3>1
    <3>3. /\ Since(s) < DayLength
          /\ \/ TimeOfDay = s + Since(s) /\ Date = PassedOn(s)
             \/ TimeOfDay = s + Since(s) - DayLength /\ Date = PassedOn(s) + 1
      BY <1>2, <3>1 DEF ClockInv
    <3>4. passed'[s] \in 0..turn'
      BY <1>1, <1>3, <3>2
    <3>5. s \in 0..(DayLength - 1)
      BY <1>3
    <3>6. Since(s) + 1 < DayLength
      BY <1>3, <1>4, <2>2, <3>2, <3>3, <3>5
    <3>7. CASE TimeOfDay = s + Since(s) /\ Date = PassedOn(s)
      <4>1. \/ now = s + (Since(s) + 1) /\ today = PassedOn(s)
            \/ now = s + (Since(s) + 1) - DayLength /\ today = PassedOn(s) + 1
        BY <1>3, <1>4, <3>2, <3>5, <3>7
      <4> QED
        BY <1>5, <3>2, <3>4, <3>6, <4>1
    <3>8. CASE TimeOfDay = s + Since(s) - DayLength /\ Date = PassedOn(s) + 1
      <4>1. now = s + (Since(s) + 1) - DayLength /\ today = PassedOn(s) + 1
        BY <1>3, <1>4, <3>2, <3>3, <3>5, <3>8
      <4> QED
        BY <1>5, <3>2, <3>4, <3>6, <4>1
    <3> QED
      BY <3>3, <3>7, <3>8
  <2> QED
    BY <2>1, <2>2
<1>9. ASSUME NEW d \in digests', passed'[d.slot] # NotPassed, d.at >= passed'[d.slot]
      PROVE  d.date = PassedOn(d.slot)'
  <2>1. d \in digests /\ d.slot \in Slots /\ d.at \in 0..turn
    BY <1>1, <1>2 DEF DigestsTypeOK
  <2>2. ASSUME now = d.slot PROVE FALSE
    <3>1. passed'[d.slot] = turn + 1
      BY <1>6, <2>1, <2>2
    <3> QED
      BY <1>3, <1>9, <2>1, <3>1
  <2>3. passed[d.slot] # NotPassed
    BY <1>1, <1>9, <2>1, <2>2
  <2> QED
    BY <1>2, <1>7, <1>9, <2>1, <2>2, <2>3 DEF DigestIsOfItsDay
<1> QED
  BY <1>8, <1>9 DEF ClockInv, DigestIsOfItsDay

\* Each step keeps the invariant.
LEMMA DigestsNextInv ==
  ASSUME DigestsInv, [DigestsNext]_digestsVars
  PROVE  DigestsInv'
<1>1. /\ DigestsTypeOK /\ ClockInv /\ DigestIsOfItsDay /\ NothingIsDue
  BY DEF DigestsInv
<1>2. ASSUME UNCHANGED <<turn, zone, season, passed, digests>>
      PROVE  ClockInv' /\ DigestIsOfItsDay'
  BY <1>1, <1>2 DEF ClockInv, DigestIsOfItsDay, Since, TimeOfDay, Date, PassedOn, Wall
<1>3. CASE Attend
  <2>1. /\ DueNow \in SUBSET DueNow /\ Enqueued(DueNow) /\ attended' = TRUE
        /\ UNCHANGED <<turn, zone, season, slots, quiet, matchesOn, serving, passed, turnings>>
    BY <1>3 DEF Attend
  <2>2. /\ \A d \in digests' : d.slot \in Slots /\ d.date \in Nat /\ d.at \in 0..turn
        /\ ClockInv' /\ DigestIsOfItsDay'
    BY <2>1, SentIsOfItsDay
  <2>3. DigestsTypeOK'
    BY <1>1, <2>1, <2>2 DEF DigestsTypeOK
  <2>4. ASSUME ~quiet', NEW s \in DueNow' PROVE Key(s)' \in Keyed'
    <3>1. s \in DueNow /\ Date' = Date /\ ~quiet
      BY <2>1, <2>4 DEF DueNow, IsDue, TimeOfDay, Date, Wall
    <3>2. \E d \in digests' : d.slot = s /\ d.date = Date
      BY <1>1, <2>1, <3>1, EnqueuedGrows
    <3>3. Key(s)' = [slot |-> s, date |-> Date]
      BY <3>1 DEF Key
    <3> QED
      BY <3>2, <3>3 DEF Keyed
  <2> QED
    BY <2>2, <2>3, <2>4 DEF DigestsInv, NothingIsDue
<1>4. CASE AttendInPart
  <2>1. PICK some \in SUBSET DueNow : Enqueued(some)
    BY <1>4 DEF AttendInPart
  <2>2. /\ turnings' \in 0..MaxTurnings /\ serving' \in BOOLEAN /\ ~attended'
        /\ UNCHANGED <<turn, zone, season, slots, quiet, matchesOn, attended, passed>>
    BY <1>1, <1>4, DigestsAssumption DEF AttendInPart, Turning, DigestsTypeOK
  <2>3. /\ \A d \in digests' : d.slot \in Slots /\ d.date \in Nat /\ d.at \in 0..turn
        /\ ClockInv' /\ DigestIsOfItsDay'
    BY <2>1, <2>2, SentIsOfItsDay
  <2>4. DigestsTypeOK'
    BY <1>1, <2>2, <2>3 DEF DigestsTypeOK
  <2> QED
    BY <2>2, <2>3, <2>4 DEF DigestsInv, NothingIsDue
<1>5. CASE Restarted
  <2>1. /\ UNCHANGED <<turn, zone, season, slots, quiet, matchesOn, digests, passed, turnings>>
        /\ serving' = TRUE /\ attended' = FALSE
    BY <1>5 DEF Restarted
  <2>2. DigestsTypeOK'
    BY <1>1, <2>1 DEF DigestsTypeOK
  <2> QED
    BY <1>2, <2>1, <2>2 DEF DigestsInv, NothingIsDue
<1>6. CASE Stopped
  <2>1. /\ UNCHANGED <<turn, zone, season, slots, quiet, matchesOn, attended, digests, passed>>
        /\ serving' = FALSE /\ turnings' \in 0..MaxTurnings
    BY <1>1, <1>6, DigestsAssumption DEF Stopped, Turning, DigestsTypeOK
  <2>2. DigestsTypeOK'
    BY <1>1, <2>1 DEF DigestsTypeOK
  <2>3. NothingIsDue'
    BY <1>1, <2>1 DEF NothingIsDue, DueNow, IsDue, TimeOfDay, Date, Wall, Key, Keyed
  <2> QED
    BY <1>2, <2>1, <2>2, <2>3 DEF DigestsInv
<1>7. CASE Toggle
  <2>1. /\ UNCHANGED <<turn, zone, season, serving, digests, passed>> /\ attended' = FALSE
        /\ turnings' \in 0..MaxTurnings
    BY <1>1, <1>7, DigestsAssumption DEF Toggle, Turning, DigestsTypeOK
  <2>2. slots' \subseteq Slots
    BY <1>1, <1>7 DEF Toggle, DigestsTypeOK
  <2>3. quiet' \in BOOLEAN /\ matchesOn' \in BOOLEAN
    <3>1. quiet \in BOOLEAN /\ matchesOn \in BOOLEAN
      BY <1>1 DEF DigestsTypeOK
    <3> QED
      BY <1>7, <3>1, Zenon DEF Toggle
  <2>4. DigestsTypeOK'
    BY <1>1, <2>1, <2>2, <2>3 DEF DigestsTypeOK
  <2> QED
    BY <1>2, <2>1, <2>4 DEF DigestsInv, NothingIsDue
<1>8. CASE ClockJumps
  <2>1. /\ UNCHANGED <<turn, slots, quiet, matchesOn, serving, digests>>
        /\ passed' = [s \in Slots |-> NotPassed] /\ attended' = FALSE
        /\ turnings' \in 0..MaxTurnings
        /\ zone' \in Zones /\ season' \in {0, Season}
    BY <1>1, <1>8, DigestsAssumption DEF ClockJumps, Turning, DigestsTypeOK
  <2>2. DigestsTypeOK'
    BY <1>1, <2>1 DEF DigestsTypeOK
  <2>3. \A s \in Slots : passed'[s] = NotPassed
    BY <2>1
  <2>4. \A d \in digests' : d.slot \in Slots
    BY <2>2 DEF DigestsTypeOK
  <2> QED
    BY <2>1, <2>2, <2>3, <2>4 DEF DigestsInv, ClockInv, DigestIsOfItsDay, NothingIsDue
<1>9. CASE TurnPasses
  <2>1. /\ turn < LastTurn /\ turn' = turn + 1 /\ attended' = FALSE
        /\ passed' = [s \in Slots |-> IF Wall(turn + 1) % DayLength = s THEN turn + 1 ELSE passed[s]]
        /\ UNCHANGED <<zone, season, slots, quiet, matchesOn, serving, digests, turnings>>
    BY <1>9 DEF TurnPasses
  <2>2. turn \in 0..LastTurn /\ LastTurn \in Nat /\ turn' \in 0..LastTurn /\ turn + 1 \in 0..LastTurn
    BY <1>1, <2>1, DigestsAssumption DEF DigestsTypeOK
  <2>3. passed' \in [Slots -> 0..LastTurn \union {NotPassed}]
    BY <1>1, <2>1, <2>2 DEF DigestsTypeOK
  <2>4. \A d \in digests' : d.slot \in Slots /\ d.date \in Nat /\ d.at \in 0..turn'
    BY <1>1, <2>1, <2>2 DEF DigestsTypeOK
  <2>5. DigestsTypeOK'
    BY <1>1, <2>1, <2>2, <2>3, <2>4 DEF DigestsTypeOK
  <2> QED
    BY <1>9, <2>1, <2>5, TurnPassesClock DEF DigestsInv, NothingIsDue
<1>10. CASE UNCHANGED digestsVars
  <2>1. UNCHANGED <<turn, zone, season, slots, quiet, matchesOn, serving, attended, digests, passed,
                    turnings>>
    BY <1>10 DEF digestsVars
  <2>2. DigestsTypeOK'
    BY <1>1, <2>1 DEF DigestsTypeOK
  <2>3. NothingIsDue'
    BY <1>1, <2>1 DEF NothingIsDue, DueNow, IsDue, TimeOfDay, Date, Wall, Key, Keyed
  <2> QED
    BY <1>2, <2>1, <2>2, <2>3 DEF DigestsInv
<1> QED
  BY <1>3, <1>4, <1>5, <1>6, <1>7, <1>8, <1>9, <1>10 DEF DigestsNext

\* What a step sends is new, on time and of a day of its own, and what is due has come
\* before time moves on.
LEMMA DigestsStep ==
  ASSUME DigestsInv, [DigestsNext]_digestsVars
  PROVE  /\ \A d \in digests' \ digests :
              /\ \A e \in digests' \ {d} : e.slot = d.slot =>
                   e.date # Date /\ (passed[d.slot] # NotPassed => e.at < passed[d.slot])
              /\ passed[d.slot] # NotPassed => JustPassed(d.slot)
         /\ attended /\ turn' # turn /\ serving =>
              \A s \in slots : JustPassed(s) /\ matchesOn /\ ~quiet =>
                \E d \in digests : d.slot = s /\ d.date = Date
<1>1. /\ DigestsTypeOK /\ ClockInv /\ DigestIsOfItsDay /\ NothingIsDue
      /\ slots \subseteq Slots /\ turn \in Nat
  BY ClockShows DEF DigestsInv, DigestsTypeOK
<1>2. ASSUME NEW some \in SUBSET DueNow, Enqueued(some), NEW d \in digests' \ digests
      PROVE  /\ \A e \in digests' \ {d} : e.slot = d.slot =>
                  e.date # Date /\ (passed[d.slot] # NotPassed => e.at < passed[d.slot])
             /\ passed[d.slot] # NotPassed => JustPassed(d.slot)
  <2>1. /\ d.slot \in Slots /\ IsDue(d.slot) /\ Key(d.slot) \notin Keyed
        /\ d.date = Date /\ d.at = turn
    BY <1>1, <1>2, EnqueuedGrows DEF DueNow
  <2>2. passed[d.slot] # NotPassed => JustPassed(d.slot) /\ Date = PassedOn(d.slot)
                                      /\ passed[d.slot] \in 0..turn
    BY <1>1, <2>1, DueIsJustPassed DEF ClockInv
  <2>3. ASSUME NEW e \in digests' \ {d}, e.slot = d.slot PROVE e \in digests /\ e.date # Date
    <3>1. CASE e \in digests
      BY <2>1, <2>3, <3>1, KeyedIsSent
    <3>2. CASE e \notin digests
      BY <1>1, <1>2, <2>3, <3>2, SameDigest
    <3> QED
      BY <3>1, <3>2
  <2>4. ASSUME NEW e \in digests' \ {d}, e.slot = d.slot, passed[d.slot] # NotPassed
        PROVE  e.at < passed[d.slot]
    <3>1. e \in digests /\ e.date # Date /\ e.at \in Int /\ passed[d.slot] \in Int
      BY <1>1, <2>2, <2>3, <2>4 DEF DigestsTypeOK
    <3>2. ~(e.at >= passed[d.slot])
      BY <1>1, <2>2, <2>4, <3>1 DEF DigestIsOfItsDay
    <3> QED
      BY <3>1, <3>2
  <2> QED
    BY <2>2, <2>3, <2>4
<1>3. ASSUME NEW d \in digests', d \notin digests
      PROVE  \E some \in SUBSET DueNow : Enqueued(some)
  <2>1. CASE Attend
    BY <2>1 DEF Attend
  <2>2. CASE AttendInPart
    BY <2>2 DEF AttendInPart
  <2>3. CASE digests' = digests
    BY <1>3, <2>3
  <2> QED
    BY <2>1, <2>2, <2>3
    DEF DigestsNext, Restarted, Stopped, Toggle, ClockJumps, TurnPasses, digestsVars
<1>4. ASSUME attended, turn' # turn, NEW s \in slots, JustPassed(s), matchesOn, ~quiet
      PROVE  \E d \in digests : d.slot = s /\ d.date = Date
  <2>1. s \in DueNow
    BY <1>1, <1>4, DueIsJustPassed DEF DueNow, JustPassed
  <2> QED
    BY <1>1, <1>4, <2>1, KeyedIsSent DEF NothingIsDue
<1> QED
  BY <1>2, <1>3, <1>4

\* Whatever the zone, the season, the hours asked for and the faults: one digest for an
\* hour of the reader's day, on time, and none is left out (DigestScheduler).
THEOREM DigestsHold == DigestsSpec => DigestComesOnce
<1>1. DigestsInv /\ [DigestsNext]_digestsVars => DigestsInv'
  BY DigestsNextInv
<1>2. DigestsInv /\ [DigestsNext]_digestsVars =>
        [/\ \A d \in digests' \ digests :
              /\ \A e \in digests' \ {d} : e.slot = d.slot =>
                   e.date # Date /\ (passed[d.slot] # NotPassed => e.at < passed[d.slot])
              /\ passed[d.slot] # NotPassed => JustPassed(d.slot)
         /\ attended /\ turn' # turn /\ serving =>
              \A s \in slots : JustPassed(s) /\ matchesOn /\ ~quiet =>
                \E d \in digests : d.slot = s /\ d.date = Date]_digestsVars
  BY DigestsStep
<1> QED
  BY <1>1, <1>2, DigestsInitInv, PTL DEF DigestsSpec, DigestComesOnce

\* The variables keep their types.
THEOREM DigestsTypeCorrect == DigestsSpec => []DigestsTypeOK
<1>1. DigestsInv => DigestsTypeOK
  BY DEF DigestsInv
<1>2. DigestsInv /\ [DigestsNext]_digestsVars => DigestsInv'
  BY DigestsNextInv
<1> QED
  BY <1>1, <1>2, DigestsInitInv, PTL DEF DigestsSpec
----------------------------------------------------------------------------
\* Watchdog: types.

\* What is journalled has its type.
LEMMA RecordTyped ==
  ASSUME WatchdogTypeOK, UNCHANGED minute,
         NEW e \in [kind : {"down", "up"}, since : 0..minute, at : 0..minute], Record(e)
  PROVE  /\ heard' \subseteq [kind : {"down", "up"}, since : 0..minute', at : 0..minute']
         /\ queue' \subseteq 0..minute' /\ killed' \in 0..MaxKills
<1>1. minute \in 0..minute /\ MaxKills \in Nat
  BY WatchdogAssumption DEF WatchdogTypeOK
<1>2. CASE /\ heard' = IF \E d \in heard : SameAlarm(d, e) THEN heard ELSE heard \union {e}
           /\ queue' = IF heard' # heard THEN queue \union {minute} ELSE queue
           /\ UNCHANGED killed
  <2>1. heard' = heard \/ heard' = heard \union {e}
    BY <1>2
  <2>2. queue' = queue \/ queue' = queue \union {minute}
    BY <1>2
  <2> QED
    BY <1>1, <1>2, <2>1, <2>2 DEF WatchdogTypeOK
<1>3. CASE killed < MaxKills /\ killed' = killed + 1 /\ UNCHANGED <<heard, queue>>
  BY <1>1, <1>3 DEF WatchdogTypeOK
<1> QED
  BY <1>2, <1>3 DEF Record

\* A success and a failure leave the tables and the watchdog's fields with their types.
LEMMA ReportsTyped ==
  ASSUME WatchdogTypeOK, UNCHANGED <<subsystem, minute, match, accepting>>,
         NEW start \in 0..minute \union {Never}, ReportSuccess \/ ReportFailure(start),
         lastCheck' \in 0..minute \union {Never}
  PROVE  WatchdogTypeOK'
<1>1. minute \in Nat /\ minute \in 0..minute /\ since \in 0..minute \union {Never}
      /\ outage \in 0..minute \union {Never}
  BY WatchdogAssumption DEF WatchdogTypeOK
<1>2. CASE ReportSuccess
  <2>1. /\ outage' = Never /\ checks' = "ok" /\ since' \in {since, Never}
    BY <1>2 DEF ReportSuccess, ClearFailure
  <2>2. alerted' \in BOOLEAN
    BY <1>2, Zenon DEF ReportSuccess, ClearFailure, WatchdogTypeOK
  <2>3. /\ heard' \subseteq [kind : {"down", "up"}, since : 0..minute', at : 0..minute']
        /\ queue' \subseteq 0..minute' /\ killed' \in 0..MaxKills
    <3>1. CASE Silent
      BY <3>1 DEF Silent, WatchdogTypeOK
    <3>2. CASE since # Never /\ Record(Up(since))
      <4>1. Up(since) \in [kind : {"down", "up"}, since : 0..minute, at : 0..minute]
        BY <1>1, <3>2 DEF Up
      <4> QED
        BY <3>2, <4>1, RecordTyped
    <3> QED
      BY <1>2, <3>1, <3>2 DEF ReportSuccess
  <2> QED
    BY <1>1, <2>1, <2>2, <2>3 DEF WatchdogTypeOK
<1>3. CASE ReportFailure(start)
  <2> DEFINE from == IF since # Never THEN since ELSE IF start # Never THEN start ELSE minute
             due == ~(since = Never /\ start = Never) /\ minute - from >= Delay
  <2>1. /\ since' = from /\ (alerted' = (alerted \/ due))
        /\ outage' = IF start # Never THEN start ELSE IF outage = Never THEN minute ELSE outage
        /\ IF due THEN Record(Down(from)) ELSE Silent
        /\ checks' = IF killed' # killed THEN "killed" ELSE "failed"
    BY <1>3 DEF ReportFailure
  <2>2. from \in 0..minute
    BY <1>1
  <2> HIDE DEF from, due
  <2>3. alerted' \in BOOLEAN
    BY <2>1, Zenon
  <2>4. /\ heard' \subseteq [kind : {"down", "up"}, since : 0..minute', at : 0..minute']
        /\ queue' \subseteq 0..minute' /\ killed' \in 0..MaxKills
    <3>1. CASE Silent
      BY <3>1 DEF Silent, WatchdogTypeOK
    <3>2. CASE Record(Down(from))
      <4>1. Down(from) \in [kind : {"down", "up"}, since : 0..minute, at : 0..minute]
        BY <1>1, <2>2 DEF Down
      <4> QED
        BY <3>2, <4>1, RecordTyped
    <3> QED
      BY <2>1, <3>1, <3>2
  <2>5. outage' \in 0..minute' \union {Never} /\ checks' \in {"failed", "killed"}
    BY <1>1, <2>1
  <2> QED
    BY <1>1, <2>1, <2>2, <2>3, <2>4, <2>5 DEF WatchdogTypeOK
<1> QED
  BY <1>2, <1>3

\* The queue has an oldest message.
LEMMA OldestIsQueued ==
  ASSUME WatchdogTypeOK, queue # {} PROVE Oldest \in queue
<1>1. queue \subseteq Nat
  BY DEF WatchdogTypeOK
<1>2. \E created \in queue : \A other \in queue : created <= other
  BY <1>1, LowestIsLeast
<1> QED
  BY <1>2 DEF Oldest

\* The types hold initially, and each step keeps them.
LEMMA WatchdogInitTyped == WatchdogInit => WatchdogTypeOK
<1> SUFFICES ASSUME WatchdogInit PROVE WatchdogTypeOK
  OBVIOUS
<1>1. alerted \in BOOLEAN /\ accepting \in BOOLEAN
  BY Zenon DEF WatchdogInit
<1>2. match \in [state : {"SCHEDULED", "LIVE", "FINISHED"}, score : Scores \union {<<0, 0>>}]
  BY DEF WatchdogInit
<1> QED
  BY <1>1, <1>2, WatchdogAssumption DEF WatchdogInit, WatchdogTypeOK

LEMMA WatchdogNextTyped ==
  ASSUME WatchdogTypeOK, [WatchdogNext]_watchdogVars
  PROVE  WatchdogTypeOK'
<1>1. CASE MatchGoesOn
  <2>1. match' \in [state : {"SCHEDULED", "LIVE", "FINISHED"}, score : Scores \union {<<0, 0>>}]
    BY <1>1 DEF MatchGoesOn, WatchdogTypeOK
  <2> QED
    BY <1>1, <2>1 DEF MatchGoesOn, WatchdogTypeOK
<1>2. CASE CheckPages \/ CheckLiveFeed
  <2>1. /\ UNCHANGED <<subsystem, minute, match, accepting, lastCheck>>
        /\ ReportSuccess \/ ReportFailure(Never)
    BY <1>2 DEF CheckPages, CheckLiveFeed
  <2>2. lastCheck' \in 0..minute \union {Never}
    BY <2>1 DEF WatchdogTypeOK
  <2> QED
    BY <2>1, <2>2, ReportsTyped
<1>3. CASE CheckOutbox
  <2>1. /\ UNCHANGED <<subsystem, minute, match, accepting>>
        /\ lastCheck' \in 0..minute \union {Never} /\ minute \in 0..minute
    BY <1>3, WatchdogAssumption DEF CheckOutbox, WatchdogTypeOK
  <2>2. CASE ReportSuccess
    <3>1. Never \in 0..minute \union {Never}
      OBVIOUS
    <3> QED
      BY <2>1, <2>2, <3>1, ReportsTyped
  <2>3. CASE queue # {} /\ ReportFailure(Oldest)
    <3>1. Oldest \in 0..minute \union {Never}
      BY <2>3, OldestIsQueued DEF WatchdogTypeOK
    <3> QED
      BY <2>1, <2>3, <3>1, ReportsTyped
  <2>4. CASE Silent /\ checks' = "none" /\ UNCHANGED <<since, alerted, outage>>
    BY <2>1, <2>4 DEF Silent, WatchdogTypeOK
  <2> QED
    BY <1>3, <2>2, <2>3, <2>4 DEF CheckOutbox
<1>4. CASE Enqueue \/ Deliver \/ TelegramTurns
  <2>1. /\ UNCHANGED <<subsystem, minute, match, since, alerted, heard, lastCheck, outage, killed>>
        /\ checks' = "none"
    BY <1>4 DEF Enqueue, Deliver, TelegramTurns
  <2>2. queue' \subseteq 0..minute
    <3>1. minute \in 0..minute
      BY WatchdogAssumption DEF WatchdogTypeOK
    <3> QED
      BY <1>4, <3>1 DEF Enqueue, Deliver, TelegramTurns, WatchdogTypeOK
  <2>3. accepting' \in BOOLEAN
    BY <1>4, Zenon DEF Enqueue, Deliver, TelegramTurns, WatchdogTypeOK
  <2> QED
    BY <2>1, <2>2, <2>3 DEF WatchdogTypeOK
<1>5. CASE MinutePasses
  <2>1. /\ minute < LastMinute /\ minute' = minute + 1 /\ checks' = "none"
        /\ UNCHANGED <<subsystem, match, since, alerted, heard, queue, accepting, lastCheck,
                       outage, killed>>
    BY <1>5 DEF MinutePasses
  <2>2. minute' \in 0..LastMinute /\ 0..minute \subseteq 0..minute'
    BY <2>1, WatchdogAssumption DEF WatchdogTypeOK
  <2>3. heard' \subseteq [kind : {"down", "up"}, since : 0..minute', at : 0..minute']
    BY <2>1, <2>2 DEF WatchdogTypeOK
  <2> HIDE DEF MinutePasses
  <2> QED
    BY <2>1, <2>2, <2>3 DEF WatchdogTypeOK
<1>6. CASE UNCHANGED watchdogVars
  BY <1>6 DEF watchdogVars, WatchdogTypeOK
<1> QED
  BY <1>1, <1>2, <1>3, <1>4, <1>5, <1>6 DEF WatchdogNext

\* The variables keep their types.
THEOREM WatchdogTypeCorrect == WatchdogSpec => []WatchdogTypeOK
  BY WatchdogInitTyped, WatchdogNextTyped, PTL DEF WatchdogSpec
----------------------------------------------------------------------------
\* The run.

\* In the run each component behaves as its own specification allows, so that what is
\* shown of one there is shown of that specification.
THEOREM ServiceIsItsParts ==
  ServiceSpec => /\ Spec /\ WatchdogSpec /\ HighlightsSpec
                 /\ SubscribersSpec /\ StallSpec /\ DigestsSpec
<1>1. ServiceInit => /\ Init /\ WatchdogInit /\ HighlightsInit
                     /\ SubscribersInit /\ StallInit /\ DigestsInit
  BY DEF ServiceInit
<1>2. [ServiceNext]_serviceVars =>
        /\ [Next]_vars /\ [WatchdogNext]_watchdogVars
        /\ [HighlightsNext]_highlightsVars
        /\ [SubscribersNext]_subscribersVars /\ [StallNext]_stallVars
        /\ [DigestsNext]_digestsVars
  BY DEF ServiceNext, serviceVars
<1> QED
  BY <1>1, <1>2, PTL
  DEF ServiceSpec, Spec, WatchdogSpec, HighlightsSpec, SubscribersSpec,
      StallSpec, DigestsSpec

\* The variables of all of them keep their types.
THEOREM ServiceTypeCorrect == ServiceSpec => []ServiceTypeOK
  BY ServiceIsItsParts, MapScoreTypeCorrect, WatchdogTypeCorrect,
     HighlightsTypeCorrect, SubscribersTypeCorrect, StallTypeCorrect,
     DigestsTypeCorrect, PTL DEF ServiceTypeOK
=============================================================================
