------------------------------- MODULE Scoring -------------------------------
(***************************************************************************)
(* The rules of scoring.py: what a score says about a map, and what maps   *)
(* won say about a series.  A half has `regulation` rounds, a half of an   *)
(* overtime `overtime` rounds; both come from the source.                  *)
(***************************************************************************)
EXTENDS Integers

High(a, b) == IF a > b THEN a ELSE b
Low(a, b) == IF a < b THEN a ELSE b

\* The overtime being played, judged by the trailing side's score.
OvertimeNumber(low, regulation, overtime) ==
  IF low < regulation THEN 0 ELSE (low - regulation) \div overtime + 1

\* The score that wins the map.
Target(low, regulation, overtime) ==
  regulation + OvertimeNumber(low, regulation, overtime) * overtime + 1

\* Mutant: one round ahead is enough in overtime.
CompletedByOne(a, b, regulation, overtime) ==
  /\ regulation >= 1 /\ overtime >= 1
  /\ High(a, b) >= regulation + 1
  /\ \/ Low(a, b) < regulation
     \/ LET target == Target(Low(a, b), regulation, overtime) IN High(a, b) >= target - 1

\* map_completed: a format with a zero in it is one the source did not send.
MapCompleted(a, b, regulation, overtime) ==
  /\ regulation >= 1 /\ overtime >= 1
  /\ High(a, b) >= regulation + 1
  /\ \/ Low(a, b) < regulation
     \/ LET target == Target(Low(a, b), regulation, overtime) IN
          High(a, b) >= target /\ Low(a, b) <= target - 2

\* Mutant: the target stays where regulation put it.
NeedsInRegulation(a, b, regulation, overtime) ==
  IF regulation < 1 \/ overtime < 1 THEN 0
  ELSE High(0, regulation + 1 - High(a, b))

\* rounds_to_win, of the leader.
RoundsToWin(a, b, regulation, overtime) ==
  IF regulation < 1 \/ overtime < 1 THEN 0
  ELSE High(0, Target(Low(a, b), regulation, overtime) - High(a, b))

\* Mutant: half of the maps are enough.
DecidedByHalf(winsA, winsB, bestOf) == bestOf >= 1 /\ High(winsA, winsB) >= bestOf \div 2

\* series_decided; 0 is a format nobody has read yet.  An even number of maps
\* is played out: the series can be drawn.
SeriesDecided(winsA, winsB, bestOf) ==
  /\ bestOf >= 1
  /\ IF bestOf % 2 = 0 THEN winsA + winsB >= bestOf
                       ELSE High(winsA, winsB) >= bestOf \div 2 + 1
=============================================================================
