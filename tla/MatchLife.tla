------------------------------ MODULE MatchLife ------------------------------
(***************************************************************************)
(* One match, told by two machines that share their rows:                  *)
(*   state/live_machine.py    apply: the live feed, frame by frame         *)
(*   state/match_machine.py   apply: the match page, poll by poll          *)
(*   live_worker.py, match_poller.py  what they do with the events         *)
(*                                                                         *)
(* A match goes through positions: 0 before it, then four for every map --  *)
(* warmup, first round, later rounds, over.  A frame of the feed is a       *)
(* position behind the game at most; the page is as far behind as it likes. *)
(* A map's score is the side that won it, its name is its true number.     *)
(*                                                                         *)
(* A machine does not await anything, but each of its writes commits by    *)
(* itself and its events are enqueued one by one after it has returned:    *)
(* "done" is how many of these the process lives to do.                    *)
(***************************************************************************)
EXTENDS Scoring, FiniteSets, Sequences

CONSTANTS
  BestOf,       \* maps of the series
  MaxMishaps    \* bound: pages that show a wrong score, processes killed in a machine

ASSUME MatchLifeAssumption == BestOf \in Nat \ {0} /\ MaxMishaps \in Nat

Sides == {"us", "them"}
Other(side) == IF side = "us" THEN "them" ELSE "us"
Maps == 1..BestOf
Positions == 0..(4 * BestOf)

MapAt(p) == (p - 1) \div 4 + 1
PhaseAt(p) ==
  CASE p % 4 = 1 -> "warmup" [] p % 4 = 2 -> "first" [] p % 4 = 3 -> "later" [] OTHER -> "over"
DecidedAt(p) == p \div 4

NoResult == [map |-> 0, won |-> "nobody"]

VARIABLES
  \* The match.
  now,        \* its position
  winners,    \* of the maps played so far
  \* What the sources have shown.
  paged,      \* maps decided on the last page, -1 before the match
  feed,       \* the worker: off, on, or leaving (released, not yet cancelled)
  \* The database.
  state,      \* match_state.state
  pageSeen,   \* match_state.page_seen_utc is set
  knowsFormat,\* match_state.best_of is set
  lineup,     \* the lineup is known
  memo,       \* match_state.live_map_name, 0 for NULL
  warming,    \* match_state.live_round_state is warmup, live_frame_utc is recent
  pending,    \* a start message is put aside
  results,    \* table map_results, by map number
  told,       \* table sent_events: the events ever enqueued
  \* History, for the properties only.
  met,        \* maps decided at the page's first look, -1 before it; all of them, if
              \* the match was never seen live
  misnumbered,\* maps that got another map's number, and the maps it belongs to
  lost,       \* events of a machine that was killed
  misreads, crashes

match == <<now, winners>>
rows == <<state, pageSeen, knowsFormat, lineup, memo, warming, pending, results>>
vars == <<match, paged, feed, rows, told, met, misnumbered, lost, misreads, crashes>>

\* The series as a function from maps to their winners says it.
WinsIn(wonBy, side) == Cardinality({m \in DOMAIN wonBy : wonBy[m] = side})
SeriesOf(wonBy) == <<WinsIn(wonBy, "us"), WinsIn(wonBy, "them")>>
Decides(wonBy) == SeriesDecided(WinsIn(wonBy, "us"), WinsIn(wonBy, "them"), BestOf)

\* The rule itself, whatever the code makes of it: all the maps are played, or so
\* many that the rest cannot matter -- but an even number of them is played out.
Over(played) ==
  \/ Len(played) = BestOf
  \/ BestOf % 2 = 1 /\ \E side \in Sides : 2 * WinsIn(played, side) > BestOf
MatchOver == Over(winners)

\* Events, by what their keys are made of; a map's name is in the text of E6 only.
E4 == [type |-> "E4", number |-> 0, map |-> 0, score |-> <<0, 0>>]
E5(n, m) == [type |-> "E5", number |-> n, map |-> m, score |-> <<0, 0>>]
E6(n, m, side) == [type |-> "E6", number |-> n, map |-> m, score |-> SeriesOf(<<side>>)]
E7(series) == [type |-> "E7", number |-> 0, map |-> 0, score |-> series]

\* Mutant: the score is not in the key.
SameMoment(d, e) == d.type = e.type /\ d.number = e.number

SameKey(d, e) ==
  /\ d.type = e.type /\ d.number = e.number /\ d.score = e.score
  /\ d.type = "E5" => d.map = e.map

\* The events of a machine, in their order: at each place one event or none.
If(condition, event) == IF condition THEN {event} ELSE {}
AllOf(events) == UNION {events[i] : i \in DOMAIN events}
----------------------------------------------------------------------------
Init ==
  /\ now = 0 /\ winners = <<>>
  /\ paged = -1
  /\ feed = "off"
  /\ state = "SCHEDULED"
  /\ pageSeen = FALSE /\ knowsFormat = FALSE /\ lineup = FALSE
  /\ memo = 0 /\ warming = FALSE /\ pending = FALSE
  /\ results = [n \in Maps |-> NoResult]
  /\ told = {}
  /\ met = -1 /\ misnumbered = {} /\ lost = {}
  /\ misreads = 0 /\ crashes = 0

----------------------------------------------------------------------------
\* The match is played; the first map is ours (the sides are alike otherwise).
Play(side) ==
  /\ ~MatchOver
  /\ now' = now + 1
  /\ winners' = IF PhaseAt(now + 1) = "over" THEN Append(winners, side) ELSE winners
  /\ side = "us" \/ (PhaseAt(now + 1) = "over" /\ winners # <<>>)
  /\ UNCHANGED <<paged, feed, rows, told, met, misnumbered, lost, misreads, crashes>>

----------------------------------------------------------------------------
\* How much of a machine's writes and its caller's events is done.
Lives(total) == IF misreads' + crashes < MaxMishaps THEN 0..total ELSE {total}

\* What the caller does with the events, after so many writes.
Tell(writes, events, done) ==
  LET reached == UNION {events[i] : i \in 1..(done - writes)} IN
  /\ told' = told \union {e \in reached : \A t \in told : ~SameKey(t, e)}
  /\ IF done = writes + Len(events)
       THEN UNCHANGED <<lost, crashes>>
       ELSE /\ crashes' = crashes + 1
            /\ lost' = lost \union (AllOf(events) \ reached)

\* The i-th write, if the process lives to do it.
Write(i, done, new, old) == IF done >= i THEN new ELSE old

----------------------------------------------------------------------------
\* The live machine.

Recorded(m) == \E n \in Maps : results[n].map = m

\* Mutant: the map being played is not counted.
CountedFromZero(m) == IF lineup THEN m ELSE Cardinality({n \in Maps : results[n].map # 0})

\* The number of a map: its place in the lineup, or else a count.
NumberOf(m) ==
  IF lineup THEN m ELSE Cardinality({n \in Maps : results[n].map # 0}) + 1

\* E4, put aside by the page, is let go by the first round played.
Releases(p) == PhaseAt(p) # "warmup" /\ pending /\ E4 \notin told

\* A map met in the middle has no start to tell, if it is the first one seen.
IsNewMap(p) ==
  /\ PhaseAt(p) # "warmup"
  /\ IF memo = 0 THEN PhaseAt(p) = "first" ELSE memo # MapAt(p)

CurrentFrame(p) == feed # "off" /\ p \in {now - 1, now} /\ p >= 1

\* A frame of a map that is not recorded yet: of others the machine takes no notice.
\* The start of a map is enqueued last, once the card has had its chance to carry it.
Frame(p) ==
  LET m == MapAt(p)
      n == NumberOf(m)
      completed == PhaseAt(p) = "over"
      after == IF completed THEN [results EXCEPT ![n] = [map |-> m, won |-> winners[m]]]
                            ELSE results
      wonBy == [i \in Maps |-> after[i].won]
      events ==
        <<If(Releases(p), E4),
          If(completed, E6(n, m, winners[m])),
          If(completed /\ knowsFormat /\ Decides(wonBy), E7(SeriesOf(wonBy))),
          If(IsNewMap(p), E5(n, m))>>
      writes == 5 IN
  /\ CurrentFrame(p)
  /\ ~Recorded(m)
  /\ UNCHANGED <<match, paged, pageSeen, knowsFormat, lineup, met, misreads>>
  /\ \E done \in Lives(writes + Len(events)) :
       /\ Tell(writes, events, done)
       /\ pending' = Write(1, done, pending /\ ~Releases(p), pending)
       /\ results' = Write(2, done, after, results)
       /\ state' = Write(3, done, "LIVE", state)
       /\ warming' = Write(4, done, PhaseAt(p) = "warmup", warming)
       /\ memo' = Write(5, done, IF PhaseAt(p) = "warmup" THEN memo ELSE m, memo)
       /\ feed' = IF done < writes + Len(events) THEN "off" ELSE feed
  /\ misnumbered' = misnumbered \union (IF n # m THEN {m, n} ELSE {})

----------------------------------------------------------------------------
\* The match page.

FeedSaysWarmup == feed = "on" /\ warming

\* Mutant: the first look at a match announces nothing, like a map's result.
AsksOnTransition(target) == target = "LIVE" /\ pageSeen /\ (state # "LIVE" \/ pending)

\* The start, from a page that shows the match live: on the first one, and for as
\* long as it is put aside.  The feed may have told it already, or may say that it
\* is a warmup: then it is put aside.
AsksStart(target) == target = "LIVE" /\ (~pageSeen \/ state # "LIVE" \/ pending)

TellsStart(target) == AsksStart(target) /\ E4 \notin told /\ ~FeedSaysWarmup
HoldsStart(target) == AsksStart(target) /\ E4 \notin told /\ FeedSaysWarmup

\* Mutant: the page also leaves the results to a feed that is up.
SilentBesideTheFeed(target) ==
  ~pageSeen \/ feed # "off" \/ (target = "FINISHED" /\ state # "LIVE")

\* What was played before the first look, or is over before it was seen live, is not news.
Silent(target) == ~pageSeen \/ (target = "FINISHED" /\ state # "LIVE")

\* Mutant: the key is left to find out what is known.
AllDecided(d, target) == IF Silent(target) THEN {} ELSE 1..d

\* The decided maps that are news.
News(d, target) == IF Silent(target) THEN {} ELSE {m \in 1..d : results[m].map = 0}

\* A page shows the match with d maps decided, or as upcoming (-1): their scores,
\* those in bad wrong, and the names of the maps with the format, or neither yet.
Page(d, bad, named) ==
  LET count == High(d, 0)
      decided == 1..count
      won == [m \in decided |-> IF m \in bad THEN Other(winners[m]) ELSE winners[m]]
      target == IF d = -1 THEN "SCHEDULED"
                ELSE IF Over(SubSeq(winners, 1, d)) THEN "FINISHED" ELSE "LIVE"
      events ==
        <<If(TellsStart(target), E4)>>
        \o [m \in decided |-> If(m \in News(d, target), E6(m, m, won[m]))]
        \o <<If(target = "FINISHED", E7(SeriesOf(won)))>>
      writes == 5 + count IN
  /\ state # "FINISHED"
  /\ d >= 0 => now > 0
  /\ bad \subseteq decided
  /\ IF bad = {} THEN UNCHANGED misreads ELSE misreads + crashes < MaxMishaps /\ misreads' = misreads + 1
  /\ lineup \/ decided # {} => named
  /\ paged' = d
  /\ \E done \in Lives(writes + Len(events)) :
       /\ Tell(writes, events, done)
       /\ state' = Write(1, done, target, state)
       /\ results' = [m \in Maps |->
            IF m \in decided THEN Write(1 + m, done, [map |-> m, won |-> won[m]], results[m])
                             ELSE results[m]]
       /\ knowsFormat' = Write(writes - 3, done, knowsFormat \/ named, knowsFormat)
       /\ pageSeen' = Write(writes - 2, done, TRUE, pageSeen)
       /\ lineup' = Write(writes - 1, done, lineup \/ named, lineup)
       /\ pending' = Write(writes, done, IF AsksStart(target) THEN HoldsStart(target) ELSE pending, pending)
       /\ feed' = IF done < writes + Len(events) THEN "off"
                  ELSE IF feed = "on" /\ target # "LIVE" THEN "leaving" ELSE feed
  /\ met' = IF target = "FINISHED" /\ state # "LIVE" THEN BestOf
             ELSE IF met = -1 /\ pageSeen' THEN count ELSE met
  /\ UNCHANGED <<match, memo, warming, misnumbered>>

----------------------------------------------------------------------------
\* The worker and the clock.

\* reconcile brings a worker up for a live match, and it connects.
BringUp ==
  /\ feed = "off" /\ state = "LIVE"
  /\ feed' = "on"
  /\ UNCHANGED <<match, paged, rows, told, met, misnumbered, lost, misreads, crashes>>

\* The connection drops, the grace of a released worker ends, or the process does
\* between two of its steps: nothing here is kept in memory.
Disconnect ==
  /\ feed # "off"
  /\ feed' = "off"
  /\ UNCHANGED <<match, paged, rows, told, met, misnumbered, lost, misreads, crashes>>

\* No frame for FEED_PHASE_FRESH_SECONDS of a warmup.
Silence ==
  /\ warming
  /\ warming' = FALSE
  /\ UNCHANGED <<match, paged, feed, state, pageSeen, knowsFormat, lineup, memo,
                 pending, results, told, met, misnumbered, lost, misreads, crashes>>

Next ==
  \/ \E side \in Sides : Play(side)
  \/ \E p \in Positions : Frame(p)
  \/ \E d \in paged..DecidedAt(now), named \in BOOLEAN :
       \E bad \in SUBSET (1..d) : Page(d, bad, named)
  \/ BringUp \/ Disconnect \/ Silence

Spec == Init /\ [][Next]_vars
----------------------------------------------------------------------------
(* Properties *)

TypeOK ==
  /\ now \in Positions /\ paged \in -1..DecidedAt(now)
  /\ Len(winners) = DecidedAt(now) /\ \A m \in DOMAIN winners : winners[m] \in Sides
  /\ feed \in {"off", "on", "leaving"}
  /\ state \in {"SCHEDULED", "LIVE", "FINISHED"}
  /\ pageSeen \in BOOLEAN /\ knowsFormat \in BOOLEAN /\ lineup \in BOOLEAN
  /\ memo \in 0..BestOf /\ warming \in BOOLEAN /\ pending \in BOOLEAN
  /\ results \in [Maps -> {NoResult} \union [map : Maps, won : Sides]]
  /\ \A m, n \in Maps : results[m].map = results[n].map /\ results[m].map # 0 => m = n
  /\ \A e \in told : e.type \in {"E5", "E6"} => e.number \in Maps /\ e.map \in Maps
  /\ met \in -1..BestOf /\ misnumbered \subseteq Maps
  /\ misreads + crashes \in 0..MaxMishaps

\* A map's result is told once, by one machine or the other -- also when the page
\* and the feed disagree about the score.  The exception is a map the feed had to
\* number without a lineup.
OneResultPerMap ==
  \A d, e \in told :
    d.type = "E6" /\ e.type = "E6" /\ d.map = e.map /\ d.map \notin misnumbered => d = e

\* Every map that is decided after the page's first look at a match that was seen
\* live has its result told by the end, whichever machine saw it: only a process
\* killed with the event in its hands, or a wrong number, takes it away.
ResultsAreTold ==
  state = "FINISHED" /\ met >= 0 =>
    \A m \in (met + 1)..Len(winners) :
      m \in misnumbered \/ \E e \in told \union lost : e.type = "E6" /\ e.map = m

\* The end is never told early: the feed may have missed maps, and then tells a
\* score that is too low, but it does not close a series that is still played.
EndIsNotEarly == \A e \in told : e.type = "E7" /\ misreads = 0 => MatchOver

\* The start comes before everything the feed tells about the match.
StartIsToldFirst ==
  \A e \in told : e.type \in {"E5", "E6"} => E4 \in told \/ E4 \in lost

\* A match that is closed has been told to have ended, with the score it ended
\* with: the page corrects a feed that has missed a map.
EndIsTold ==
  state = "FINISHED" /\ misreads = 0 => E7(SeriesOf(winners)) \in told \union lost

\* When a match starts: "Not when the match page says LIVE"
\* (docs/architecture.md:404), unless there is no feed to ask.  Before the page has
\* made the match LIVE nobody has asked for one, so what it tells in the warmup
\* can only be a match that was LIVE already.
StartWaitsForTheFeed ==
  [][(E4 \in told' \ told /\ PhaseAt(now) = "warmup") => state = "LIVE"]_vars
=============================================================================
