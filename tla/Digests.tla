------------------------------ MODULE Digests ------------------------------
(***************************************************************************)
(* The digest of one reader: "what is on", at hours of the reader's day.   *)
(*   digest.py       DigestScheduler: due, _event, run                     *)
(*   state/db.py     digest_times, the reader's zone                       *)
(*   bot.py          the button that adds or removes an hour, and /tz      *)
(* Time moves in steps of some minutes, a day is as long as the model      *)
(* needs, and the loop, which turns twice a minute, looks at everything    *)
(* that happens before time moves on.  The reader's clock is the world's,  *)
(* shifted by a zone and by a season; what is on is a Boolean.             *)
(***************************************************************************)
EXTENDS Integers

CONSTANTS
  DayLength,    \* a day
  CatchUp,      \* CATCH_UP_MINUTES
  Slots,        \* hours a digest may be asked for
  Zones,        \* offsets a reader may choose
  Season,       \* what daylight saving moves the clock by
  LastTurn,     \* bound
  MaxTurnings   \* bound: settings, seasons, stops, failures

ASSUME DigestsAssumption ==
  /\ {DayLength, CatchUp} \subseteq Nat \ {0} /\ CatchUp < DayLength
  /\ Slots \subseteq 0..(DayLength - 1)
  /\ Zones \subseteq Nat /\ Zones # {} /\ {Season, LastTurn, MaxTurnings} \subseteq Nat

NotPassed == -1

VARIABLES
  turn, zone, season,   \* the world's time, the reader's zone, the clock's shift
  slots,                \* table digest_times
  quiet,                \* the reader is paused
  matchesOn,            \* matches_within and visible_match_ids leave something
  serving, attended,    \* the process runs; its loop has looked
  digests,              \* table sent_events: E14 of this reader, and when
  passed,               \* history: when the reader's clock last passed a slot
  turnings

digestsVars ==
  <<turn, zone, season, slots, quiet, matchesOn, serving, attended, digests, passed, turnings>>

\* The reader's own clock, and the world's.
Wall(t) == DayLength + t + zone + season
Date == Wall(turn) \div DayLength
TimeOfDay == Wall(turn) % DayLength
----------------------------------------------------------------------------
DigestsInit ==
  /\ turn = 0 /\ zone \in Zones /\ season = 0
  /\ slots \in SUBSET Slots
  /\ quiet = FALSE /\ matchesOn \in BOOLEAN
  /\ serving = TRUE /\ attended = FALSE
  /\ digests = {}
  /\ passed = [s \in Slots |-> NotPassed]
  /\ turnings = 0

\* Within the hour after the slot, on the reader's date.
IsDue(slot) == slot <= TimeOfDay /\ TimeOfDay < slot + CatchUp

\* Mutant: the date of the key is the world's.
KeyInUtc(slot) == [slot |-> slot, date |-> (DayLength + turn) \div DayLength]
Key(slot) == [slot |-> slot, date |-> Date]

Keyed == {[slot |-> d.slot, date |-> d.date] : d \in digests}
DueNow == {s \in slots : matchesOn /\ IsDue(s)}

\* Written to the journal, unless it is there already; a reader who is paused is
\* no recipient, and nothing is written.
Enqueued(some) ==
  digests' = IF quiet THEN digests ELSE
    digests \union {[slot |-> Key(s).slot, date |-> Key(s).date, at |-> turn] :
                      s \in {s \in some : Key(s) \notin Keyed}}

\* A turn of the loop.
Attend ==
  /\ serving /\ ~attended /\ attended' = TRUE
  /\ Enqueued(DueNow)
  /\ UNCHANGED <<turn, zone, season, slots, quiet, matchesOn, serving, passed, turnings>>

Turning == turnings < MaxTurnings /\ turnings' = turnings + 1

\* The turn fails, or the process dies, after some of them.
AttendInPart ==
  /\ Turning /\ serving /\ ~attended
  /\ \E some \in SUBSET DueNow : some # DueNow /\ Enqueued(some)
  /\ serving' \in BOOLEAN
  /\ UNCHANGED <<turn, zone, season, slots, quiet, matchesOn, attended, passed>>

Restarted ==
  /\ ~serving /\ serving' = TRUE /\ attended' = FALSE
  /\ UNCHANGED <<turn, zone, season, slots, quiet, matchesOn, digests, passed, turnings>>

Stopped ==
  /\ Turning /\ serving /\ serving' = FALSE
  /\ UNCHANGED <<turn, zone, season, slots, quiet, matchesOn, attended, digests, passed>>

\* A button of the digest's screen; /pause and /start; the schedule.
Toggle ==
  /\ Turning
  /\ \/ /\ \E s \in Slots : slots' = IF s \in slots THEN slots \ {s} ELSE slots \union {s}
        /\ UNCHANGED <<quiet, matchesOn>>
     \/ quiet' = ~quiet /\ UNCHANGED <<slots, matchesOn>>
     \/ matchesOn' = ~matchesOn /\ UNCHANGED <<slots, quiet>>
  /\ attended' = FALSE
  /\ UNCHANGED <<turn, zone, season, serving, digests, passed>>

\* /tz, and the nights the clock is moved: the reader's clock jumps.
ClockJumps ==
  /\ Turning
  /\ \/ zone' \in Zones \ {zone} /\ UNCHANGED season
     \/ season' \in {0, Season} \ {season} /\ UNCHANGED zone
  /\ passed' = [s \in Slots |-> NotPassed] /\ attended' = FALSE
  /\ UNCHANGED <<turn, slots, quiet, matchesOn, serving, digests>>

TurnPasses ==
  /\ turn < LastTurn /\ (serving => attended)
  /\ turn' = turn + 1 /\ attended' = FALSE
  /\ passed' = [s \in Slots |-> IF Wall(turn + 1) % DayLength = s THEN turn + 1 ELSE passed[s]]
  /\ UNCHANGED <<zone, season, slots, quiet, matchesOn, serving, digests, turnings>>

DigestsNext ==
  Attend \/ AttendInPart \/ Restarted \/ Stopped \/ Toggle \/ ClockJumps \/ TurnPasses

DigestsSpec == DigestsInit /\ [][DigestsNext]_digestsVars
----------------------------------------------------------------------------
DigestsTypeOK ==
  /\ turn \in 0..LastTurn /\ zone \in Zones /\ season \in {0, Season}
  /\ slots \subseteq Slots /\ {quiet, matchesOn, serving, attended} \subseteq BOOLEAN
  /\ \A d \in digests : d.slot \in Slots /\ d.date \in Nat /\ d.at \in 0..turn
  /\ passed \in [Slots -> 0..LastTurn \union {NotPassed}]
  /\ turnings \in 0..MaxTurnings

\* The clock of the reader passed this slot less than an hour ago, today.
JustPassed(slot) ==
  /\ passed[slot] # NotPassed /\ turn - passed[slot] < CatchUp
  /\ Wall(passed[slot]) \div DayLength = Date

\* One digest for an hour of a reader's day, whatever the service did meanwhile: two
\* digests of one slot are of different local dates, and none follows one that came
\* since the clock last showed that hour, unless the clock itself was moved.  A digest
\* comes within an hour of its slot and not later, unless the clock was moved; and the
\* first turn that the loop completes within that hour brings it, after a restart too,
\* if there is anything to tell and nobody said to be silent.  The hour does not reach
\* past midnight (known-limitations.md:436).
DigestComesOnce ==
  [][/\ \A d \in digests' \ digests :
          /\ \A e \in digests' \ {d} : e.slot = d.slot =>
               e.date # Date /\ (passed[d.slot] # NotPassed => e.at < passed[d.slot])
          /\ passed[d.slot] # NotPassed => JustPassed(d.slot)
     /\ attended /\ turn' # turn /\ serving =>
          \A s \in slots : JustPassed(s) /\ matchesOn /\ ~quiet =>
            \E d \in digests : d.slot = s /\ d.date = Date]_digestsVars
=============================================================================
