------------------------------- MODULE Stall -------------------------------
(***************************************************************************)
(* "The match has stalled": the match page says LIVE, nothing on it moves, *)
(* and there is no feed to see the match by.                               *)
(*   state/match_machine.py   _check_stall, at the end of every apply      *)
(*   match_poller.py          when the page of a running match is read     *)
(* One match, which the page shows LIVE until it ends.  The intervals are  *)
(* counted in minutes and their jitter is left out.                        *)
(***************************************************************************)
EXTENDS Integers

CONSTANTS
  Stale,           \* STALE_MINUTES
  BreakFactor,     \* BREAK_THRESHOLD_MULTIPLIER
  LiveEvery,       \* interval_for("live")
  FeedEvery,       \* interval_for("live_with_feed")
  LastMinuteSeen,  \* bound
  MaxScore,        \* bound: rounds
  MaxFailures      \* bound: pages that could not be read

ASSUME StallAssumption ==
  /\ {Stale, BreakFactor, LiveEvery, FeedEvery} \subseteq Nat \ {0}
  /\ {LastMinuteSeen, MaxScore, MaxFailures} \subseteq Nat

NotYet == -1

\* The loop sleeps no longer than this, whichever of the two is set to more.
LongestWait == IF LiveEvery > FeedEvery THEN LiveEvery ELSE FeedEvery

VARIABLES
  minuteOfMatch,
  shownPage,      \* the page: its score, whether a map is on, whether it says LIVE
  connected,      \* the worker of the match
  pageDue,        \* when the match-page loop wakes
  progress,       \* match_state.progress_hash and progress_since_utc
  alarms,         \* table sent_events: E8 of this match
  \* History, for the properties only.
  moved,          \* when the page changed last
  turned,         \* when the feed last came or went
  fed,            \* when it was last up, of the times it was up longer than a wait
  failures

stallVars ==
  <<minuteOfMatch, shownPage, connected, pageDue, progress, alarms, moved, turned, fed,
    failures>>
----------------------------------------------------------------------------
StallInit ==
  /\ minuteOfMatch = 0
  /\ shownPage = [score |-> 0, between |-> TRUE, live |-> TRUE]
  /\ connected = FALSE
  /\ pageDue = 0
  /\ progress = [score |-> NotYet, since |-> NotYet]
  /\ alarms = {}
  /\ moved = 0 /\ turned = NotYet /\ fed = NotYet /\ failures = 0

\* A round is on the page; the statistics of a map that is over; the end.
PageMoves ==
  /\ shownPage.live
  /\ \/ /\ shownPage.score < MaxScore
        /\ shownPage' = [shownPage EXCEPT !.score = @ + 1, !.between = FALSE]
        /\ moved' = minuteOfMatch
     \/ /\ ~shownPage.between /\ shownPage' = [shownPage EXCEPT !.between = TRUE]
        /\ UNCHANGED moved
     \/ shownPage' = [shownPage EXCEPT !.live = FALSE] /\ UNCHANGED moved
  /\ UNCHANGED <<minuteOfMatch, connected, pageDue, progress, alarms, turned, fed, failures>>

\* The feed of a match that is followed comes and goes.
FeedTurns ==
  /\ progress.since # NotYet
  /\ connected' = ~connected /\ turned' = minuteOfMatch
  /\ UNCHANGED <<minuteOfMatch, shownPage, pageDue, progress, alarms, moved, fed, failures>>

\* The threshold is stretched between maps.
Patience == IF shownPage.between THEN BreakFactor * Stale ELSE Stale

\* Mutant: while there is a feed nothing is looked at.
LeftAlone == UNCHANGED progress
\* The timer does not accumulate while there is a feed.
StartsAfresh == progress' = [score |-> shownPage.score, since |-> minuteOfMatch]

\* _check_stall; the key has the page's signature.
CheckStall ==
  IF ~shownPage.live THEN UNCHANGED <<progress, alarms>>
  ELSE IF connected THEN StartsAfresh /\ UNCHANGED alarms
  ELSE IF progress.score # shownPage.score \/ progress.since = NotYet
    THEN /\ progress' = [score |-> shownPage.score, since |-> minuteOfMatch]
         /\ UNCHANGED alarms
  ELSE /\ alarms' = IF minuteOfMatch - progress.since >= Patience
                      THEN alarms \union {shownPage.score} ELSE alarms
       /\ UNCHANGED progress

\* A round of the match-page loop, and the wait that its mode asks for.
ReadPage ==
  /\ minuteOfMatch >= pageDue
  /\ pageDue' = minuteOfMatch + (IF connected THEN FeedEvery ELSE LiveEvery)
  /\ \/ CheckStall /\ UNCHANGED failures
     \/ failures < MaxFailures /\ failures' = failures + 1 /\ UNCHANGED <<progress, alarms>>
  /\ UNCHANGED <<minuteOfMatch, shownPage, connected, moved, turned, fed>>

MatchMinute ==
  /\ minuteOfMatch < LastMinuteSeen /\ minuteOfMatch < pageDue
  /\ minuteOfMatch' = minuteOfMatch + 1
  /\ fed' = IF connected /\ minuteOfMatch' - turned > LongestWait THEN minuteOfMatch' ELSE fed
  /\ UNCHANGED <<shownPage, connected, pageDue, progress, alarms, moved, turned, failures>>

StallNext == PageMoves \/ FeedTurns \/ ReadPage \/ MatchMinute

StallSpec == StallInit /\ [][StallNext]_stallVars
----------------------------------------------------------------------------
StallTypeOK ==
  /\ minuteOfMatch \in 0..LastMinuteSeen
  /\ shownPage \in [score : 0..MaxScore, between : BOOLEAN, live : BOOLEAN]
  /\ connected \in BOOLEAN
  /\ pageDue \in 0..(LastMinuteSeen + LiveEvery + FeedEvery)
  /\ progress \in [score : 0..MaxScore \union {NotYet},
                   since : 0..minuteOfMatch \union {NotYet}]
  /\ alarms \subseteq 0..MaxScore
  /\ moved \in 0..minuteOfMatch /\ {turned, fed} \subseteq 0..minuteOfMatch \union {NotYet}
  /\ failures \in 0..MaxFailures

Blind(since, atLeast) == minuteOfMatch - since >= atLeast

\* Blindness, and nothing else, is told.  An alarm comes when the page has not moved
\* for as long as the moment allows, and the feed has been down nearly as long: the
\* time it worked does not count, but for the age of the last reading ("otherwise the
\* alarm would fire instantly after the feed disconnects, for all the time it worked",
\* match_machine.py:235-236).  And it does come: a score that stands for that long and
\* two readings, with no feed and every page read, has been told of.
StallIsBlindness ==
  [][/\ alarms' # alarms =>
          /\ ~connected /\ shownPage.live /\ Blind(moved, Patience)
          /\ failures = 0 /\ fed # NotYet => Blind(fed, Patience - LongestWait)
     /\ /\ shownPage.live /\ ~connected /\ failures = 0
        /\ Blind(moved, Patience + LongestWait + LiveEvery)
        /\ Blind(turned, Patience + LongestWait + LiveEvery)
        => shownPage.score \in alarms']_stallVars
=============================================================================
