------------------------------ MODULE MapScore ------------------------------
(***************************************************************************)
(* What the live feed makes of the score of one map:                       *)
(*   scoring.py               the rules                                    *)
(*   state/live_machine.py    apply: E6 or E12, E13 and E11                *)
(*                                                                         *)
(* The map itself is played round by round next to it: a section of the    *)
(* map is its regulation time or one overtime, two halves long, won by who *)
(* takes more than a half of it; a level section is followed by another.   *)
(***************************************************************************)
EXTENDS Scoring, FiniteSets

CONSTANTS
  Formats,       \* pairs: rounds in a half, rounds in a half of an overtime
  MaxSections,   \* bound: overtimes played
  MaxChanges     \* bound: settings changed and restarts

ASSUME MapScoreAssumption ==
  /\ Formats \subseteq (Nat \ {0}) \X (Nat \ {0})
  /\ MaxSections \in Nat /\ MaxChanges \in Nat

VARIABLES
  format,      \* the format of this map
  section,     \* 0 in regulation time, n in the n-th overtime
  took,        \* rounds each side has taken of the section
  over,        \* somebody has won the map
  score,       \* the score the frames carry
  wants,       \* who of E12, E13 anybody has switched on
  announced,   \* LiveMachine._announced
  recorded,    \* the map is in map_results
  told,        \* table sent_events: the keys
  meant,       \* history: which moment of the map each message was about
  noticed,     \* history: map points a frame has shown
  changes      \* settings changed and restarts so far

game == <<format, section, took, over, score>>
vars == <<game, wants, announced, recorded, told, meant, noticed, changes>>

Sides == {"us", "them"}
Other(side) == IF side = "us" THEN "them" ELSE "us"
Regulation == format[1]
Overtime == format[2]

----------------------------------------------------------------------------
Init ==
  /\ format \in Formats
  /\ section = 0
  /\ took = [s \in Sides |-> 0]
  /\ over = FALSE
  /\ score = [s \in Sides |-> 0]
  /\ wants \in SUBSET {"E12", "E13"}
  /\ announced = {}
  /\ recorded = FALSE
  /\ told = {}
  /\ meant = {}
  /\ noticed = {}
  /\ changes = 0

----------------------------------------------------------------------------
\* The game.

Half == IF section = 0 THEN Regulation ELSE Overtime

\* With this round the side has won the map.
Wins(side) == took[side] + 1 > Half

\* With this round the section is level and over.
Levels(side) == took[side] + 1 = Half /\ took[Other(side)] = Half

Round(side) ==
  /\ ~over
  /\ Levels(side) => section < MaxSections
  /\ score' = [score EXCEPT ![side] = @ + 1]
  /\ over' = Wins(side)
  /\ IF Levels(side)
       THEN section' = section + 1 /\ took' = [s \in Sides |-> 0]
       ELSE took' = [took EXCEPT ![side] = @ + 1] /\ UNCHANGED section
  /\ UNCHANGED <<format, wants, announced, recorded, told, meant, noticed, changes>>

\* The side takes the map with its next round.
AtPoint(side) == ~over /\ Wins(side)

Played == took["us"] + took["them"]

----------------------------------------------------------------------------
\* The live machine on a frame past the warmup.

Ours == score["us"]
Theirs == score["them"]
Leader == IF Ours > Theirs THEN "us" ELSE "them"

Completed == MapCompleted(Ours, Theirs, Regulation, Overtime)

\* The half, when as many rounds have been played as it has.
HalfKeys == IF Ours + Theirs = Regulation /\ "E12" \in wants THEN {<<"E12", "", 0>>} ELSE {}

\* Mutant: any level score past regulation time starts an overtime.
OvertimeAtAnyTie ==
  IF /\ Ours + Theirs # Regulation
     /\ Ours = Theirs /\ Ours >= Regulation
     /\ "E13" \in wants
    THEN {<<"E13", "", (Ours - Regulation) \div Overtime + 1>>} ELSE {}

\* Mutant: nobody asks whether regulation time is over.
OvertimeEarly ==
  IF /\ Ours + Theirs # Regulation
     /\ Ours = Theirs /\ (Ours - Regulation) % Overtime = 0
     /\ "E13" \in wants
    THEN {<<"E13", "", (Ours - Regulation) \div Overtime + 1>>} ELSE {}

\* An overtime, when the one before it, or regulation time, has ended level.
OvertimeKeys ==
  IF /\ Ours + Theirs # Regulation
     /\ Ours = Theirs /\ Ours >= Regulation /\ (Ours - Regulation) % Overtime = 0
     /\ "E13" \in wants
    THEN {<<"E13", "", (Ours - Regulation) \div Overtime + 1>>} ELSE {}

\* Mutant: the target is not in the key.
PointsOfTheMap ==
  IF Ours # Theirs /\ RoundsToWin(Ours, Theirs, Regulation, Overtime) = 1
    THEN {<<"E11", Leader, 0>>} ELSE {}

\* Map point: one round away.  The key has the side and the score it plays for.
PointKeys ==
  IF Ours # Theirs /\ RoundsToWin(Ours, Theirs, Regulation, Overtime) = 1
    THEN {<<"E11", Leader, High(Ours, Theirs) + 1>>} ELSE {}

Keys == HalfKeys \union OvertimeKeys \union PointKeys

\* The overtime a message says it is about.
Said(key) ==
  IF key[1] = "E11"
    THEN High(0, (High(Ours, Theirs) - Regulation + Overtime - 1) \div Overtime)
    ELSE key[3]

\* The moments the game itself is at: their type, whose they are, and the overtime.
Turns ==
  (IF section = 0 /\ Played = Half THEN {<<"E12", "", 0>>} ELSE {})
    \union (IF section > 0 /\ Played = 0 THEN {<<"E13", "", section>>} ELSE {})
Points == {<<"E11", side, section>> : side \in {s \in Sides : AtPoint(s)}}
Moments == Points \union {turn \in Turns : turn[1] \in wants}

\* A frame with the score as it is.  After the one that ends the map the live
\* machine looks at no other.
Frame ==
  /\ ~recorded
  /\ IF Completed
       THEN recorded' = TRUE /\ UNCHANGED <<announced, told, meant, noticed>>
       ELSE LET fresh == Keys \ announced IN
            /\ announced' = announced \union fresh
            /\ told' = told \union fresh
            /\ meant' = meant \union
                 {[key |-> k, moment |-> <<k[1], k[2], section>>, overtime |-> Said(k)] : k \in fresh}
            /\ noticed' = noticed \union Moments
            /\ UNCHANGED recorded
  /\ UNCHANGED <<game, wants, changes>>

\* Somebody switches the half or the overtimes on or off.
Change(type) ==
  /\ changes < MaxChanges /\ changes' = changes + 1
  /\ wants' = IF type \in wants THEN wants \ {type} ELSE wants \union {type}
  /\ UNCHANGED <<game, announced, recorded, told, meant, noticed>>

\* The process or its worker starts again: the journal is all that is left.
Restart ==
  /\ changes < MaxChanges /\ changes' = changes + 1
  /\ announced' = {}
  /\ UNCHANGED <<game, wants, recorded, told, meant, noticed>>

Next ==
  \/ \E side \in Sides : Round(side)
  \/ Frame
  \/ \E type \in {"E12", "E13"} : Change(type)
  \/ Restart

Spec == Init /\ [][Next]_vars
----------------------------------------------------------------------------
(* Properties *)

TypeOK ==
  /\ format \in Formats /\ section \in 0..MaxSections
  /\ took \in [Sides -> Nat] /\ score \in [Sides -> Nat]
  /\ over \in BOOLEAN /\ recorded \in BOOLEAN
  /\ wants \subseteq {"E12", "E13"}
  /\ announced \subseteq told
  /\ \A k \in told : k[1] \in {"E11", "E12", "E13"} /\ k[2] \in Sides \union {""} /\ k[3] \in Nat
  /\ changes \in 0..MaxChanges

\* The score alone says what the rounds say: whether the map is over, and in which
\* overtime it was taken -- at 12:12, at 15:15, and in any format.
VerdictIsRight ==
  /\ Completed <=> over
  /\ over => OvertimeNumber(Low(Ours, Theirs), Regulation, Overtime) = section

\* rounds_to_win counts the rounds the leader has still to take: it is 0 when the
\* map is over, and cannot drift apart from the verdict.
RoundsToWinIsRight ==
  RoundsToWin(Ours, Theirs, Regulation, Overtime) = Half + 1 - High(took["us"], took["them"])

\* The score alone says all there is to say of a map in progress.
ScoreTellsAll == VerdictIsRight /\ RoundsToWinIsRight

\* Every half, overtime and map point that a frame has shown to somebody who
\* wants it is told, whatever was switched or restarted in between.
MomentsAreTold == \A moment \in noticed : \E m \in meant : m.moment = moment

\* One message per moment and one moment per message: each overtime has its map
\* points of its own, none is swallowed by the key of another, and each message
\* names the overtime it belongs to.
OneMessagePerMoment ==
  /\ \A m \in meant : m.moment \in noticed /\ m.overtime = m.moment[3]
  /\ \A m, n \in meant : m.key = n.key <=> m.moment = n.moment

\* What is told of a map are its moments, all of them and once each.
MessagesAreRight == MomentsAreTold /\ OneMessagePerMoment
=============================================================================
