--------------------------- MODULE MapScoreProofs ---------------------------
(***************************************************************************)
(* What MapScore shows for a handful of formats and two overtimes, for all  *)
(* formats and any number of overtimes.                                     *)
(***************************************************************************)
EXTENDS MapScore, TLAPS

----------------------------------------------------------------------------
\* Arithmetic.

\* A whole number of overtimes and some rounds of the next: so many have been ended.
LEMMA Quotient ==
  ASSUME NEW q \in Nat, NEW n \in Nat \ {0}, NEW r \in 0..(n - 1)
  PROVE  (q * n + r) \div n = q /\ (q * n + r) % n = r
OBVIOUS

LEMMA NextMultiple ==
  ASSUME NEW q \in Nat \ {0}, NEW n \in Nat
  PROVE  (q - 1) * n \in Nat /\ q * n \in Nat /\ q * n = (q - 1) * n + n
OBVIOUS

\* Overtimes have different targets.
LEMMA TargetsDiffer ==
  ASSUME NEW p \in Nat, NEW q \in Nat, NEW n \in Nat \ {0}, p * n = q * n
  PROVE  p = q
OBVIOUS

----------------------------------------------------------------------------
\* The invariant of the game: the score is what the sections before brought, the
\* same for both, and the rounds of this one, which nobody has won while it is played.

Base == IF section = 0 THEN 0 ELSE Regulation + (section - 1) * Overtime

GameTypeOK ==
  /\ format \in (Nat \ {0}) \X (Nat \ {0})
  /\ section \in 0..MaxSections
  /\ took \in [Sides -> Nat]
  /\ score \in [Sides -> Nat]
  /\ over \in BOOLEAN

ScoreIsBasePlusTook == \A s \in Sides : score[s] = Base + took[s]

SectionIsOpen ==
  /\ over => \E s \in Sides : took[s] = Half + 1 /\ took[Other(s)] < Half
  /\ ~over => \E s \in Sides : took[s] < Half /\ took[Other(s)] <= Half

GameInv == GameTypeOK /\ ScoreIsBasePlusTook /\ SectionIsOpen

LEMMA FormatIsPositive ==
  ASSUME GameTypeOK
  PROVE  Regulation \in Nat \ {0} /\ Overtime \in Nat \ {0}
BY DEF GameTypeOK, Regulation, Overtime

LEMMA BaseAndHalf ==
  ASSUME GameTypeOK
  PROVE  /\ Base \in Nat /\ Half \in Nat \ {0}
         /\ Base + Half = Regulation + section * Overtime
         /\ section # 0 => /\ Base = Regulation + (section - 1) * Overtime
                           /\ (section - 1) * Overtime \in Nat
                           /\ Half = Overtime
         /\ section = 0 => Base = 0 /\ Half = Regulation
<1>1. section \in Nat /\ Regulation \in Nat \ {0} /\ Overtime \in Nat \ {0}
  BY FormatIsPositive, MapScoreAssumption DEF GameTypeOK
<1>2. CASE section = 0
  <2>1. Base = 0 /\ Half = Regulation
    BY <1>2 DEF Base, Half
  <2>2. section * Overtime = 0
    BY <1>1, <1>2
  <2>3. QED
    BY <1>1, <1>2, <2>1, <2>2
<1>3. CASE section # 0
  <2>1. /\ (section - 1) * Overtime \in Nat
        /\ section * Overtime = (section - 1) * Overtime + Overtime
    BY <1>1, <1>3, NextMultiple
  <2>2. Base = Regulation + (section - 1) * Overtime /\ Half = Overtime
    BY <1>3 DEF Base, Half
  <2>3. QED
    BY <1>1, <1>3, <2>1, <2>2
<1>4. QED
  BY <1>2, <1>3

LEMMA InitGame == Init => GameInv
<1> SUFFICES ASSUME Init PROVE GameInv
  OBVIOUS
<1>1. GameTypeOK
  <2>1. /\ format \in (Nat \ {0}) \X (Nat \ {0})
        /\ section \in 0..MaxSections
        /\ over \in BOOLEAN
    <3>1. format \in Formats /\ section = 0 /\ over = FALSE
      BY DEF Init
    <3>2. Formats \subseteq (Nat \ {0}) \X (Nat \ {0}) /\ MaxSections \in Nat
      BY MapScoreAssumption
    <3>3. format \in (Nat \ {0}) \X (Nat \ {0}) /\ over \in BOOLEAN
      BY <3>1, <3>2, Zenon
    <3>4. section \in 0..MaxSections
      BY <3>1, <3>2
    <3>5. QED
      BY <3>3, <3>4
  <2>2. took \in [Sides -> Nat] /\ score \in [Sides -> Nat]
    BY DEF Init
  <2>3. QED
    BY <2>1, <2>2 DEF GameTypeOK
<1>2. Base = 0 /\ Half = Regulation /\ Regulation \in Nat \ {0}
  BY <1>1, FormatIsPositive DEF Init, Base, Half
<1>3. ScoreIsBasePlusTook
  BY <1>2 DEF Init, ScoreIsBasePlusTook
<1>4. took["us"] = 0 /\ took["them"] = 0 /\ Other("us") = "them" /\ "us" \in Sides
  BY DEF Init, Sides, Other
<1>5. SectionIsOpen
  BY <1>2, <1>4 DEF Init, SectionIsOpen
<1>6. QED
  BY <1>1, <1>3, <1>5 DEF GameInv

LEMMA RoundGame ==
  ASSUME GameInv, NEW side \in Sides, Round(side)
  PROVE  GameInv'
<1> USE DEF GameInv
<1>1. Regulation \in Nat \ {0} /\ Overtime \in Nat \ {0} /\ section \in Nat
  BY FormatIsPositive, MapScoreAssumption DEF GameTypeOK
<1>2. format' = format /\ Regulation' = Regulation /\ Overtime' = Overtime
  BY DEF Round, Regulation, Overtime
<1>3. /\ Other(side) \in Sides /\ Other(side) # side /\ Other(Other(side)) = side
      /\ Sides = {side, Other(side)}
  BY DEF Sides, Other
<1>4. Base \in Nat /\ Half \in Nat \ {0}
  BY BaseAndHalf
<1>5. score' = [score EXCEPT ![side] = @ + 1] /\ over' = Wins(side) /\ ~over
  BY DEF Round
<1>6. took[side] <= Half /\ took[Other(side)] <= Half
      /\ (took[side] < Half \/ took[Other(side)] < Half)
  BY <1>3, <1>4, <1>5 DEF SectionIsOpen, GameTypeOK
<1>7. CASE Levels(side)
  <2>1. section' = section + 1 /\ took' = [s \in Sides |-> 0] /\ section < MaxSections
    BY <1>7 DEF Round
  <2>2. GameTypeOK'
    BY <1>1, <1>2, <1>5, <2>1, MapScoreAssumption DEF GameTypeOK, Wins
  <2>3. Base' = Base + Half /\ Half' = Overtime
    <3>1. Base' = Regulation + section * Overtime /\ Half' = Overtime
      BY <1>1, <1>2, <2>1 DEF Base, Half
    <3>2. QED
      BY <3>1, BaseAndHalf
  <2>4. ScoreIsBasePlusTook'
    <3>1. score[side] + 1 = Base + Half /\ score[Other(side)] = Base + Half
      BY <1>3, <1>4, <1>7 DEF Levels, ScoreIsBasePlusTook, GameTypeOK
    <3>2. QED
      BY <1>3, <1>4, <1>5, <2>1, <2>3, <3>1 DEF ScoreIsBasePlusTook, GameTypeOK
  <2>5. ~over'
    BY <1>4, <1>5, <1>7 DEF Levels, Wins, GameTypeOK
  <2>6. SectionIsOpen'
    BY <1>1, <1>3, <2>1, <2>3, <2>5 DEF SectionIsOpen
  <2>7. QED
    BY <2>2, <2>4, <2>6
<1>8. CASE ~Levels(side)
  <2>1. section' = section /\ took' = [took EXCEPT ![side] = @ + 1]
    BY <1>8 DEF Round
  <2>2. GameTypeOK'
    BY <1>2, <1>5, <2>1 DEF GameTypeOK, Wins
  <2>3. Base' = Base /\ Half' = Half
    BY <1>2, <2>1 DEF Base, Half
  <2>4. ScoreIsBasePlusTook'
    BY <1>3, <1>4, <1>5, <2>1, <2>3 DEF ScoreIsBasePlusTook, GameTypeOK
  <2>5. took'[side] = took[side] + 1 /\ took'[Other(side)] = took[Other(side)]
    BY <1>3, <2>1 DEF GameTypeOK
  <2>6. CASE Wins(side)
    <3>1. took'[side] = Half + 1 /\ took'[Other(side)] < Half
      BY <1>3, <1>4, <1>6, <2>5, <2>6 DEF Wins, GameTypeOK
    <3>2. QED
      BY <1>5, <2>2, <2>3, <2>4, <2>6, <3>1 DEF SectionIsOpen
  <2>7. CASE ~Wins(side)
    <3>1. /\ took'[side] <= Half /\ took'[Other(side)] <= Half
          /\ took'[side] < Half \/ took'[Other(side)] < Half
      BY <1>3, <1>4, <1>6, <1>8, <2>5, <2>7 DEF Wins, Levels, GameTypeOK
    <3>2. QED
      BY <1>3, <1>5, <2>2, <2>3, <2>4, <2>7, <3>1 DEF SectionIsOpen
  <2>8. QED
    BY <2>6, <2>7
<1>9. QED
  BY <1>7, <1>8

\* The other steps leave the game alone.
LEMMA GameUnchanged ==
  ASSUME GameInv, UNCHANGED game
  PROVE  GameInv'
BY DEF GameInv, GameTypeOK, ScoreIsBasePlusTook, SectionIsOpen, Base, Half, Regulation, Overtime, game

LEMMA NextGame ==
  ASSUME GameInv, [Next]_vars
  PROVE  GameInv'
<1>1. CASE \E side \in Sides : Round(side)
  BY <1>1, RoundGame
<1>2. CASE UNCHANGED game
  BY <1>2, GameUnchanged
<1>3. QED
  BY <1>1, <1>2 DEF Next, Frame, Change, Restart, vars

----------------------------------------------------------------------------
\* What the machine reads off the score.

\* The trailing side is short of the section's half.
LEMMA LowAndHigh ==
  ASSUME GameInv
  PROVE  /\ Low(Ours, Theirs) = Base + Low(took["us"], took["them"])
         /\ High(Ours, Theirs) = Base + High(took["us"], took["them"])
         /\ Low(took["us"], took["them"]) \in 0..(Half - 1)
         /\ High(took["us"], took["them"]) \in Nat
         /\ over => High(took["us"], took["them"]) = Half + 1
         /\ ~over => High(took["us"], took["them"]) <= Half
<1> USE DEF GameInv
<1>1. Base \in Nat /\ Half \in Nat \ {0}
  BY BaseAndHalf
<1>2. /\ Ours = Base + took["us"] /\ Theirs = Base + took["them"]
      /\ took["us"] \in Nat /\ took["them"] \in Nat
  BY DEF ScoreIsBasePlusTook, GameTypeOK, Ours, Theirs, Sides
<1>3. \/ /\ over
         /\ \/ took["us"] = Half + 1 /\ took["them"] < Half
            \/ took["them"] = Half + 1 /\ took["us"] < Half
      \/ /\ ~over
         /\ took["us"] <= Half /\ took["them"] <= Half
         /\ took["us"] < Half \/ took["them"] < Half
  <2>1. "us" \in Sides /\ "them" \in Sides /\ Other("us") = "them" /\ Other("them") = "us"
        /\ \A s \in Sides : s = "us" \/ s = "them"
    BY DEF Sides, Other
  <2>2. CASE over
    <3>1. PICK s \in Sides : took[s] = Half + 1 /\ took[Other(s)] < Half
      BY <2>2 DEF SectionIsOpen
    <3>2. s = "us" \/ s = "them"
      BY <2>1
    <3>3. QED
      BY <2>1, <2>2, <3>1, <3>2
  <2>3. CASE ~over
    <3>1. PICK s \in Sides : took[s] < Half /\ took[Other(s)] <= Half
      BY <2>3 DEF SectionIsOpen
    <3>2. s = "us" \/ s = "them"
      BY <2>1
    <3>3. QED
      BY <1>1, <1>2, <2>1, <2>3, <3>1, <3>2
  <2>4. QED
    BY <2>2, <2>3
<1>4. QED
  BY <1>1, <1>2, <1>3 DEF Low, High

\* The score knows the section.
LEMMA OvertimeIsSection ==
  ASSUME GameInv
  PROVE  /\ OvertimeNumber(Low(Ours, Theirs), Regulation, Overtime) = section
         /\ Target(Low(Ours, Theirs), Regulation, Overtime) = Base + Half + 1
<1> USE DEF GameInv
<1> DEFINE low == Low(Ours, Theirs)
           r == Low(took["us"], took["them"])
<1>1. Regulation \in Nat \ {0} /\ Overtime \in Nat \ {0} /\ section \in Nat
  BY FormatIsPositive, MapScoreAssumption DEF GameTypeOK
<1>2. low = Base + r /\ r \in 0..(Half - 1)
  BY LowAndHigh
<1>3. OvertimeNumber(low, Regulation, Overtime) = section
  <2>1. CASE section = 0
    <3>1. low < Regulation
      BY <1>1, <1>2, <2>1, BaseAndHalf
    <3>2. QED
      BY <2>1, <3>1 DEF OvertimeNumber
  <2>2. CASE section # 0
    <3>1. /\ Base = Regulation + (section - 1) * Overtime
          /\ (section - 1) * Overtime \in Nat /\ Half = Overtime
      BY <2>2, BaseAndHalf
    <3>2. low - Regulation = (section - 1) * Overtime + r /\ ~(low < Regulation)
      BY <1>1, <1>2, <3>1
    <3>3. section - 1 \in Nat /\ r \in 0..(Overtime - 1)
      BY <1>1, <1>2, <2>2, <3>1
    <3>4. (low - Regulation) \div Overtime = section - 1
      BY <1>1, <3>2, <3>3, Quotient
    <3>5. QED
      BY <1>1, <3>2, <3>4 DEF OvertimeNumber
  <2>3. QED
    BY <2>1, <2>2
<1>4. Target(low, Regulation, Overtime) = Regulation + section * Overtime + 1
  BY <1>3 DEF Target
<1>5. QED
  BY <1>3, <1>4, BaseAndHalf

LEMMA CompletedIsOver ==
  ASSUME GameInv
  PROVE  Completed <=> over
<1> USE DEF GameInv
<1> DEFINE low == Low(Ours, Theirs)
           high == High(Ours, Theirs)
<1>1. Regulation \in Nat \ {0} /\ Overtime \in Nat \ {0}
  BY FormatIsPositive
<1>2. /\ Base \in Nat /\ Half \in Nat \ {0}
      /\ section # 0 => Base \in Nat /\ Base >= Regulation
      /\ section = 0 => Base = 0 /\ Half = Regulation
  BY <1>1, BaseAndHalf
<1>3. /\ low \in Base..(Base + Half - 1) /\ high \in Nat
      /\ over => high = Base + Half + 1
      /\ ~over => high <= Base + Half
  BY <1>2, LowAndHigh
<1>4. Target(low, Regulation, Overtime) = Base + Half + 1
  BY OvertimeIsSection
<1>5. Completed <=> /\ high >= Regulation + 1
                    /\ \/ low < Regulation
                       \/ high >= Base + Half + 1 /\ low <= Base + Half - 1
  BY <1>1, <1>2, <1>3, <1>4 DEF Completed, MapCompleted
<1>6. over \in BOOLEAN
  BY DEF GameTypeOK
<1>7. CASE over
  BY <1>1, <1>2, <1>3, <1>5, <1>7
<1>8. CASE ~over
  <2>1. ~(high >= Base + Half + 1)
    BY <1>2, <1>3, <1>8
  <2>2. low < Regulation => section = 0
    BY <1>1, <1>2, <1>3
  <2>3. section = 0 => ~(high >= Regulation + 1)
    BY <1>1, <1>2, <1>3, <1>8
  <2>4. ~Completed
    BY <1>5, <2>1, <2>2, <2>3
  <2>5. QED
    BY <1>8, <2>4
<1>9. QED
  BY <1>6, <1>7, <1>8

LEMMA VerdictHolds ==
  ASSUME GameInv
  PROVE  VerdictIsRight /\ RoundsToWinIsRight
<1> USE DEF GameInv
<1>1. VerdictIsRight
  BY CompletedIsOver, OvertimeIsSection DEF VerdictIsRight
<1>2. RoundsToWinIsRight
  <2> DEFINE high == High(Ours, Theirs)
             most == High(took["us"], took["them"])
  <2>1. Regulation \in Nat \ {0} /\ Overtime \in Nat \ {0}
    BY FormatIsPositive
  <2>2. Base \in Nat /\ Half \in Nat \ {0} /\ over \in BOOLEAN
    BY BaseAndHalf DEF GameTypeOK
  <2>3. high = Base + most /\ most \in Nat /\ most <= Half + 1
    BY <2>2, LowAndHigh
  <2>4. Target(Low(Ours, Theirs), Regulation, Overtime) = Base + Half + 1
    BY OvertimeIsSection
  <2>5. RoundsToWin(Ours, Theirs, Regulation, Overtime) = High(0, (Base + Half + 1) - high)
    <3>1. ~(Regulation < 1 \/ Overtime < 1)
      BY <2>1
    <3>2. RoundsToWin(Ours, Theirs, Regulation, Overtime)
            = High(0, Target(Low(Ours, Theirs), Regulation, Overtime) - high)
      BY <3>1, Zenon DEF RoundsToWin
    <3>3. QED
      BY <2>4, <3>2
  <2>6. High(0, (Base + Half + 1) - high) = Half + 1 - most
    BY <2>2, <2>3 DEF High
  <2>7. QED
    BY <2>5, <2>6 DEF RoundsToWinIsRight
<1>3. QED
  BY <1>1, <1>2

\* Whatever the format and however many overtimes are played, the score alone says
\* when the map is over, in which overtime it was taken (scoring.map_completed), and
\* how many rounds the leader has still to take (scoring.rounds_to_win).
THEOREM VerdictCorrect == Spec => []ScoreTellsAll
<1>1. Init => GameInv
  BY InitGame
<1>2. GameInv /\ [Next]_vars => GameInv'
  BY NextGame
<1>3. GameInv => ScoreTellsAll
  BY VerdictHolds DEF ScoreTellsAll
<1>4. QED
  BY <1>1, <1>2, <1>3, PTL DEF Spec

----------------------------------------------------------------------------
\* What the machine tells.

\* Both sides' rounds of an open section, and what the score adds to them.
LEMMA OpenSection ==
  ASSUME GameInv, ~over
  PROVE  /\ took["us"] \in 0..Half /\ took["them"] \in 0..Half
         /\ took["us"] < Half \/ took["them"] < Half
         /\ Ours = Base + took["us"] /\ Theirs = Base + took["them"]
         /\ Regulation \in Nat \ {0} /\ Overtime \in Nat \ {0} /\ section \in Nat
         /\ Base \in Nat /\ Half \in Nat \ {0}
<1> USE DEF GameInv
<1>1. Regulation \in Nat \ {0} /\ Overtime \in Nat \ {0} /\ section \in Nat
  BY FormatIsPositive, MapScoreAssumption DEF GameTypeOK
<1>2. Base \in Nat /\ Half \in Nat \ {0}
  BY BaseAndHalf
<1>3. /\ Ours = Base + took["us"] /\ Theirs = Base + took["them"]
      /\ took["us"] \in Nat /\ took["them"] \in Nat
  BY DEF ScoreIsBasePlusTook, GameTypeOK, Ours, Theirs, Sides
<1>4. \E s \in Sides : took[s] < Half /\ took[Other(s)] <= Half
  BY DEF SectionIsOpen
<1>5. \/ took["us"] < Half /\ took["them"] <= Half
      \/ took["them"] < Half /\ took["us"] <= Half
  BY <1>4 DEF Sides, Other
<1>6. QED
  BY <1>1, <1>2, <1>3, <1>5

LEMMA HalfIsATurn ==
  ASSUME GameInv, ~over
  PROVE  Ours + Theirs = Regulation <=> section = 0 /\ Played = Half
<1>1. CASE section = 0
  <2>1. Base = 0 /\ Half = Regulation
    BY <1>1, BaseAndHalf DEF GameInv
  <2>2. QED
    BY <1>1, <2>1, OpenSection DEF Played
<1>2. CASE section # 0
  <2>1. Base = Regulation + (section - 1) * Overtime /\ (section - 1) * Overtime \in Nat
    BY <1>2, BaseAndHalf DEF GameInv
  <2>2. Base >= Regulation
    BY <2>1, OpenSection
  <2>3. Ours >= Base /\ Theirs >= Base /\ Ours \in Nat /\ Theirs \in Nat
    BY OpenSection
  <2>4. Base \in Nat /\ Regulation \in Nat \ {0}
    BY OpenSection
  <2>5. Ours + Theirs # Regulation
    BY <2>2, <2>3, <2>4
  <2>6. QED
    BY <1>2, <2>5
<1>3. QED
  BY <1>1, <1>2

LEMMA OvertimeIsATurn ==
  ASSUME GameInv, ~over
  PROVE  /\ (/\ Ours + Theirs # Regulation
             /\ Ours = Theirs /\ Ours >= Regulation /\ (Ours - Regulation) % Overtime = 0)
           <=> section > 0 /\ Played = 0
         /\ section > 0 /\ Played = 0 => (Ours - Regulation) \div Overtime + 1 = section
<1>1. CASE section = 0
  <2>1. Base = 0 /\ Half = Regulation
    BY <1>1, BaseAndHalf DEF GameInv
  <2>2. ~(Ours = Theirs /\ Ours >= Regulation)
    BY <2>1, OpenSection
  <2>3. QED
    BY <1>1, <2>2
<1>2. CASE section # 0
  <2> DEFINE ended == (section - 1) * Overtime
  <2>1. Base = Regulation + ended /\ ended \in Nat /\ Half = Overtime
    BY <1>2, BaseAndHalf DEF GameInv
  <2>2. section > 0 /\ section - 1 \in Nat
    BY <1>2, OpenSection
  <2>3. Ours - Regulation = ended + took["us"] /\ Ours >= Regulation
    BY <2>1, OpenSection
  <2>4. CASE Ours = Theirs
    <3>1. took["us"] \in 0..(Overtime - 1) /\ took["them"] = took["us"]
      BY <2>1, <2>4, OpenSection
    <3>2. /\ (Ours - Regulation) \div Overtime = section - 1
          /\ (Ours - Regulation) % Overtime = took["us"]
      <4>1. Overtime \in Nat \ {0}
        BY OpenSection
      <4>2. /\ (ended + took["us"]) \div Overtime = section - 1
            /\ (ended + took["us"]) % Overtime = took["us"]
        BY <2>2, <3>1, <4>1, Quotient
      <4>3. QED
        BY <2>3, <4>2
    <3>3. Ours + Theirs # Regulation
      <4>1. Regulation \in Nat \ {0} /\ Ours = Base + took["us"] /\ Ours = Theirs
        BY <2>4, OpenSection
      <4>2. QED
        BY <2>1, <3>1, <4>1
    <3>4. Played = 0 <=> took["us"] = 0
      BY <3>1, OpenSection DEF Played
    <3>5. (Ours - Regulation) \div Overtime + 1 = section
      BY <3>2, OpenSection
    <3>6. QED
      BY <2>2, <2>3, <2>4, <3>2, <3>3, <3>4, <3>5
  <2>5. CASE Ours # Theirs
    <3>1. Played # 0
      BY <2>5, OpenSection DEF Played
    <3>2. QED
      BY <2>5, <3>1
  <2>6. QED
    BY <2>4, <2>5
<1>3. QED
  BY <1>1, <1>2

LEMMA PointIsAPoint ==
  ASSUME GameInv, ~over
  PROVE  /\ (Ours # Theirs /\ RoundsToWin(Ours, Theirs, Regulation, Overtime) = 1)
           <=> AtPoint(Leader)
         /\ \A side \in Sides : AtPoint(side) => side = Leader
         /\ Leader \in Sides
         /\ AtPoint(Leader) => /\ High(Ours, Theirs) + 1 = Regulation + section * Overtime + 1
                               /\ Said(<<"E11", Leader, High(Ours, Theirs) + 1>>) = section
<1> DEFINE most == High(took["us"], took["them"])
<1>1. RoundsToWin(Ours, Theirs, Regulation, Overtime) = (Half + 1) - most
  BY VerdictHolds, LowAndHigh, OpenSection DEF RoundsToWinIsRight
<1>2. most \in Nat /\ High(Ours, Theirs) = Base + most
  BY LowAndHigh
<1>3. /\ Leader = "us" \/ Leader = "them"
      /\ Leader \in Sides
      /\ Ours # Theirs => took[Leader] = most
      /\ \A side \in Sides : took[side] <= most /\ (took[side] = most => side = Leader \/ Ours = Theirs)
  BY OpenSection DEF Leader, High, Sides
<1>4. \A side \in Sides : AtPoint(side) <=> took[side] = Half
  BY OpenSection DEF AtPoint, Wins, Sides
<1>5. Ours = Theirs => most < Half
  BY OpenSection DEF High
<1>6. \A side \in Sides : AtPoint(side) => side = Leader /\ most = Half
  BY <1>2, <1>3, <1>4, <1>5, OpenSection, LowAndHigh
<1>7. (Ours # Theirs /\ RoundsToWin(Ours, Theirs, Regulation, Overtime) = 1) <=> AtPoint(Leader)
  BY <1>1, <1>2, <1>3, <1>4, <1>5, <1>6, OpenSection
<1>8. ASSUME AtPoint(Leader)
      PROVE  /\ High(Ours, Theirs) + 1 = Regulation + section * Overtime + 1
             /\ Said(<<"E11", Leader, High(Ours, Theirs) + 1>>) = section
  <2>1. most = Half
    BY <1>3, <1>6, <1>8
  <2>2. High(Ours, Theirs) = Regulation + section * Overtime
    BY <1>2, <2>1, BaseAndHalf DEF GameInv
  <2>3. section * Overtime \in Nat
    BY OpenSection
  <2>4. ((High(Ours, Theirs) - Regulation) + Overtime) - 1 = section * Overtime + (Overtime - 1)
    BY <2>2, <2>3, OpenSection
  <2>5. (section * Overtime + (Overtime - 1)) \div Overtime = section
    <3>1. section \in Nat /\ Overtime \in Nat \ {0} /\ Overtime - 1 \in 0..(Overtime - 1)
      BY OpenSection
    <3>2. QED
      BY <3>1, Quotient
  <2>6. High(0, section) = section
    BY OpenSection DEF High
  <2>7. Said(<<"E11", Leader, High(Ours, Theirs) + 1>>)
          = High(0, (High(Ours, Theirs) - Regulation + Overtime - 1) \div Overtime)
    BY DEF Said
  <2>8. High(Ours, Theirs) - Regulation + Overtime - 1 = section * Overtime + (Overtime - 1)
    BY <2>2, <2>3, OpenSection
  <2>9. QED
    BY <2>2, <2>5, <2>6, <2>7, <2>8
<1>9. QED
  BY <1>3, <1>6, <1>7, <1>8

----------------------------------------------------------------------------
\* Messages and moments.

IsMoment(x) ==
  \/ x = <<"E12", "", 0>>
  \/ \E n \in Nat : x = <<"E13", "", n>>
  \/ \E side \in Sides, n \in Nat : x = <<"E11", side, n>>

\* The key a moment has: a map point is known by the score it plays for.
KeyOf(x) ==
  IF x[1] = "E11" THEN <<"E11", x[2], Regulation + x[3] * Overtime + 1>> ELSE x

MomentOf(k) == <<k[1], k[2], section>>

\* Each message has been told of a moment that was there, under that moment's key
\* and with its overtime; what is announced has been told.
MessageInv ==
  /\ \A m \in meant : /\ IsMoment(m.moment) /\ m.moment \in noticed
                      /\ m.key = KeyOf(m.moment) /\ m.overtime = m.moment[3]
  /\ \A k \in announced : \E m \in meant : m.key = k

LEMMA KeyOfIsInjective ==
  ASSUME GameTypeOK, NEW x, NEW y, IsMoment(x), IsMoment(y), KeyOf(x) = KeyOf(y)
  PROVE  x = y
<1>1. Regulation \in Nat \ {0} /\ Overtime \in Nat \ {0}
  BY FormatIsPositive
<1>2. ASSUME NEW z, IsMoment(z)
      PROVE  \/ z[1] # "E11" /\ KeyOf(z) = z
             \/ \E side \in Sides, n \in Nat :
                  z = <<"E11", side, n>> /\ KeyOf(z) = <<"E11", side, Regulation + n * Overtime + 1>>
  <2>1. CASE z = <<"E12", "", 0>>
    <3>1. z[1] = "E12"
      BY <2>1
    <3>2. QED
      BY <3>1 DEF KeyOf
  <2>2. CASE \E n \in Nat : z = <<"E13", "", n>>
    <3>1. PICK n \in Nat : z = <<"E13", "", n>>
      BY <2>2
    <3>2. z[1] = "E13"
      BY <3>1
    <3>3. QED
      BY <3>2 DEF KeyOf
  <2>3. CASE \E side \in Sides, n \in Nat : z = <<"E11", side, n>>
    <3>1. PICK side \in Sides, n \in Nat : z = <<"E11", side, n>>
      BY <2>3
    <3>2. z[1] = "E11" /\ z[2] = side /\ z[3] = n
      BY <3>1
    <3>3. KeyOf(z) = <<"E11", side, Regulation + n * Overtime + 1>>
      BY <3>2, Zenon DEF KeyOf
    <3>4. QED
      BY <3>1, <3>3
  <2>4. QED
    BY <1>2, <2>1, <2>2, <2>3 DEF IsMoment
<1>3. CASE x[1] # "E11" /\ KeyOf(x) = x
  <2>1. ~\E side \in Sides, n \in Nat :
           y = <<"E11", side, n>> /\ KeyOf(y) = <<"E11", side, Regulation + n * Overtime + 1>>
    BY <1>3
  <2>2. KeyOf(y) = y
    BY <1>2, <2>1
  <2>3. QED
    BY <1>3, <2>2
<1>4. CASE \E side \in Sides, n \in Nat :
             x = <<"E11", side, n>> /\ KeyOf(x) = <<"E11", side, Regulation + n * Overtime + 1>>
  <2>1. PICK s \in Sides, n \in Nat :
           x = <<"E11", s, n>> /\ KeyOf(x) = <<"E11", s, Regulation + n * Overtime + 1>>
    BY <1>4
  <2>2. ~(y[1] # "E11" /\ KeyOf(y) = y)
    BY <2>1
  <2>3. PICK t \in Sides, p \in Nat :
           y = <<"E11", t, p>> /\ KeyOf(y) = <<"E11", t, Regulation + p * Overtime + 1>>
    BY <1>2, <2>2
  <2>4. s = t /\ Regulation + n * Overtime + 1 = Regulation + p * Overtime + 1
    BY <2>1, <2>3
  <2>5. n * Overtime \in Nat /\ p * Overtime \in Nat
    BY <1>1
  <2>6. n * Overtime = p * Overtime
    BY <1>1, <2>4, <2>5
  <2>7. n = p
    BY <1>1, <2>6, TargetsDiffer
  <2>8. QED
    BY <2>1, <2>3, <2>4, <2>7
<1>5. QED
  BY <1>2, <1>3, <1>4

\* The keys of a frame are the keys of the moments the game is at.
LEMMA KeysAreOfMoments ==
  ASSUME GameInv, ~over, NEW k \in Keys
  PROVE  /\ MomentOf(k) \in Moments /\ KeyOf(MomentOf(k)) = k
         /\ Said(k) = MomentOf(k)[3]
<1>1. CASE k \in HalfKeys
  <2>1. k = <<"E12", "", 0>> /\ "E12" \in wants /\ Ours + Theirs = Regulation
    BY <1>1 DEF HalfKeys
  <2>2. section = 0 /\ Played = Half
    BY <2>1, HalfIsATurn
  <2>3. MomentOf(k) = k /\ KeyOf(k) = k /\ Said(k) = 0
    BY <2>1, <2>2 DEF MomentOf, KeyOf, Said
  <2>4. k \in Turns /\ k[1] \in wants
    BY <2>1, <2>2 DEF Turns
  <2>5. MomentOf(k)[3] = 0
    BY <2>2 DEF MomentOf
  <2>6. k \in Moments
    BY <2>4 DEF Moments
  <2>7. QED
    BY <2>3, <2>5, <2>6
<1>2. CASE k \in OvertimeKeys
  <2>1. /\ Ours + Theirs # Regulation
        /\ Ours = Theirs /\ Ours >= Regulation /\ (Ours - Regulation) % Overtime = 0
        /\ "E13" \in wants
        /\ k = <<"E13", "", (Ours - Regulation) \div Overtime + 1>>
    BY <1>2 DEF OvertimeKeys
  <2>2. section > 0 /\ Played = 0 /\ k = <<"E13", "", section>>
    BY <2>1, OvertimeIsATurn
  <2>3. MomentOf(k) = k /\ KeyOf(k) = k /\ Said(k) = section
    BY <2>2 DEF MomentOf, KeyOf, Said
  <2>4. k \in Turns /\ k[1] \in wants
    <3>1. k \in Turns
      BY <2>2 DEF Turns
    <3>2. k[1] = "E13"
      BY <2>2
    <3>3. QED
      BY <2>1, <3>1, <3>2
  <2>5. MomentOf(k)[3] = section
    BY DEF MomentOf
  <2>6. k \in Moments
    BY <2>4 DEF Moments
  <2>7. QED
    BY <2>3, <2>5, <2>6
<1>3. CASE k \in PointKeys
  <2>1. /\ Ours # Theirs /\ RoundsToWin(Ours, Theirs, Regulation, Overtime) = 1
        /\ k = <<"E11", Leader, High(Ours, Theirs) + 1>>
    BY <1>3 DEF PointKeys
  <2>2. AtPoint(Leader) /\ Leader \in Sides
    BY <2>1, PointIsAPoint
  <2>3. MomentOf(k) = <<"E11", Leader, section>>
    BY <2>1 DEF MomentOf
  <2>4. KeyOf(MomentOf(k)) = k
    BY <2>1, <2>2, <2>3, PointIsAPoint DEF KeyOf
  <2>5. Said(k) = section
    BY <2>1, <2>2, PointIsAPoint
  <2>6. MomentOf(k) \in Points
    BY <2>2, <2>3 DEF Points
  <2>7. QED
    BY <2>3, <2>4, <2>5, <2>6 DEF Moments
<1>4. QED
  BY <1>1, <1>2, <1>3 DEF Keys

\* And every moment the game is at has its key among them.
LEMMA MomentsHaveKeys ==
  ASSUME GameInv, ~over, NEW x \in Moments
  PROVE  IsMoment(x) /\ KeyOf(x) \in Keys /\ MomentOf(KeyOf(x)) = x
<1>1. CASE x \in Points
  <2>1. PICK side \in Sides : AtPoint(side) /\ x = <<"E11", side, section>>
    BY <1>1 DEF Points
  <2>2. side = Leader /\ AtPoint(Leader)
    BY <2>1, PointIsAPoint
  <2>3. KeyOf(x) = <<"E11", Leader, High(Ours, Theirs) + 1>>
    BY <2>1, <2>2, PointIsAPoint DEF KeyOf
  <2>4. KeyOf(x) \in PointKeys
    BY <2>2, <2>3, PointIsAPoint DEF PointKeys
  <2>5. MomentOf(KeyOf(x)) = x
    BY <2>1, <2>2, <2>3 DEF MomentOf
  <2>6. IsMoment(x)
    BY <2>1, OpenSection DEF IsMoment
  <2>7. QED
    BY <2>4, <2>5, <2>6 DEF Keys
<1>2. CASE x \in Turns /\ x[1] \in wants
  <2>1. CASE section = 0 /\ Played = Half /\ x = <<"E12", "", 0>>
    <3>1. x \in HalfKeys
      BY <1>2, <2>1, HalfIsATurn DEF HalfKeys
    <3>2. KeyOf(x) = x /\ MomentOf(x) = x /\ IsMoment(x)
      BY <2>1 DEF KeyOf, MomentOf, IsMoment
    <3>3. QED
      BY <3>1, <3>2 DEF Keys
  <2>2. CASE section > 0 /\ Played = 0 /\ x = <<"E13", "", section>>
    <3>1. "E13" \in wants
      BY <1>2, <2>2
    <3>2. x \in OvertimeKeys
      BY <2>2, <3>1, OvertimeIsATurn DEF OvertimeKeys
    <3>3. KeyOf(x) = x /\ MomentOf(x) = x /\ IsMoment(x)
      BY <2>2, OpenSection DEF KeyOf, MomentOf, IsMoment
    <3>4. QED
      BY <3>2, <3>3 DEF Keys
  <2>3. QED
    BY <1>2, <2>1, <2>2 DEF Turns
<1>3. QED
  BY <1>1, <1>2 DEF Moments

LEMMA InitMessages == Init => MessageInv /\ MomentsAreTold
BY DEF Init, MessageInv, MomentsAreTold

LEMMA NextMessages ==
  ASSUME GameInv, MessageInv, MomentsAreTold, [Next]_vars
  PROVE  MessageInv' /\ MomentsAreTold'
<1> USE DEF GameInv
<1>1. \A x : KeyOf(x)' = KeyOf(x)
  BY DEF Next, Round, Frame, Change, Restart, vars, game, KeyOf, Regulation, Overtime
<1>2. CASE UNCHANGED <<meant, noticed>> /\ announced' \subseteq announced
  <2>1. MessageInv'
    BY <1>1, <1>2 DEF MessageInv, IsMoment, Sides
  <2>2. MomentsAreTold'
    BY <1>2 DEF MomentsAreTold
  <2>3. QED
    BY <2>1, <2>2
<1>3. CASE Frame /\ ~Completed
  <2> DEFINE new == Keys \ announced
             report(k) == [key |-> k, moment |-> <<k[1], k[2], section>>, overtime |-> Said(k)]
  <2>1. /\ announced' = announced \union new
        /\ meant' = meant \union {report(k) : k \in new}
        /\ noticed' = noticed \union Moments
    BY <1>3 DEF Frame
  <2>2. ~over
    BY <1>3, CompletedIsOver
  <2>3. ASSUME NEW k \in new
        PROVE  /\ report(k).moment = MomentOf(k) /\ report(k).key = k
               /\ report(k).moment \in Moments /\ IsMoment(report(k).moment)
               /\ report(k).key = KeyOf(report(k).moment)
               /\ report(k).overtime = report(k).moment[3]
    <3>1. report(k).moment = MomentOf(k) /\ report(k).key = k /\ report(k).overtime = Said(k)
      BY DEF MomentOf
    <3>2. QED
      BY <2>2, <3>1, KeysAreOfMoments, MomentsHaveKeys
  <2>4. MessageInv'
    <3>1. ASSUME NEW m \in meant'
          PROVE  IsMoment(m.moment) /\ m.moment \in noticed'
                 /\ m.key = KeyOf(m.moment) /\ m.overtime = m.moment[3]
      <4>1. CASE m \in meant
        BY <2>1, <4>1 DEF MessageInv
      <4>2. CASE \E k \in new : m = report(k)
        BY <2>1, <2>3, <4>2
      <4>3. QED
        BY <2>1, <4>1, <4>2
    <3>2. ASSUME NEW k \in announced'
          PROVE  \E m \in meant' : m.key = k
      <4>1. CASE k \in announced
        BY <2>1, <4>1 DEF MessageInv
      <4>2. CASE k \in new
        BY <2>1, <2>3, <4>2
      <4>3. QED
        BY <2>1, <4>1, <4>2
    <3>3. \A x : IsMoment(x)' <=> IsMoment(x)
      BY DEF IsMoment, Sides
    <3>4. QED
      BY <1>1, <3>1, <3>2, <3>3 DEF MessageInv
  <2>5. ASSUME NEW x \in noticed'
        PROVE  \E m \in meant' : m.moment = x
    <3>1. CASE x \in noticed
      BY <2>1, <3>1 DEF MomentsAreTold
    <3>2. CASE x \in Moments /\ KeyOf(x) \in new
      <4>1. MomentOf(KeyOf(x)) = x
        BY <2>2, <3>2, MomentsHaveKeys
      <4>2. report(KeyOf(x)) \in meant' /\ report(KeyOf(x)).moment = MomentOf(KeyOf(x))
        BY <2>1, <2>3, <3>2
      <4>3. QED
        BY <4>1, <4>2
    <3>3. CASE x \in Moments /\ KeyOf(x) \in announced
      <4>1. PICK m \in meant : m.key = KeyOf(x) /\ IsMoment(m.moment) /\ m.key = KeyOf(m.moment)
        BY <3>3 DEF MessageInv
      <4>2. IsMoment(x)
        BY <2>2, <3>3, MomentsHaveKeys
      <4>3. m.moment = x
        BY <4>1, <4>2, KeyOfIsInjective
      <4>4. QED
        BY <2>1, <4>3
    <3>4. KeyOf(x) \in Keys \/ x \notin Moments
      BY <2>2, MomentsHaveKeys
    <3>5. QED
      BY <2>1, <3>1, <3>2, <3>3, <3>4
  <2>6. MomentsAreTold'
    BY <2>5 DEF MomentsAreTold
  <2>7. QED
    BY <2>4, <2>6
<1>4. CASE Frame /\ Completed
  BY <1>2, <1>4 DEF Frame
<1>5. CASE Restart
  BY <1>2, <1>5 DEF Restart
<1>6. QED
  BY <1>2, <1>3, <1>4, <1>5 DEF Next, Round, Change, vars

\* Whatever the format and however many overtimes are played: every half, overtime
\* and map point somebody wants and a frame has shown is told (E12, E13, E11), and
\* the idempotency keys tell the moments apart -- one message for each, which
\* names the overtime it belongs to.
THEOREM MessagesCorrect == Spec => []MessagesAreRight
<1>1. Init => GameInv /\ MessageInv /\ MomentsAreTold
  BY InitGame, InitMessages
<1>2. GameInv /\ MessageInv /\ MomentsAreTold /\ [Next]_vars
        => (GameInv /\ MessageInv /\ MomentsAreTold)'
  BY NextGame, NextMessages
<1>3. GameInv /\ MessageInv => OneMessagePerMoment
  <2> SUFFICES ASSUME GameInv, MessageInv PROVE OneMessagePerMoment
    OBVIOUS
  <2>1. \A m \in meant : m.moment \in noticed /\ m.overtime = m.moment[3]
    BY DEF MessageInv
  <2>2. ASSUME NEW m \in meant, NEW n \in meant
        PROVE  m.key = n.key <=> m.moment = n.moment
    <3>1. /\ IsMoment(m.moment) /\ m.key = KeyOf(m.moment)
          /\ IsMoment(n.moment) /\ n.key = KeyOf(n.moment)
      BY DEF MessageInv
    <3>2. QED
      BY <3>1, KeyOfIsInjective DEF GameInv
  <2>3. QED
    BY <2>1, <2>2 DEF OneMessagePerMoment
<1>4. MomentsAreTold /\ OneMessagePerMoment => MessagesAreRight
  BY DEF MessagesAreRight
<1>5. QED
  BY <1>1, <1>2, <1>3, <1>4, PTL DEF Spec

----------------------------------------------------------------------------
\* Type correctness.

LEMMA KeysTyped ==
  ASSUME GameInv, ~over, NEW k \in Keys
  PROVE  k[1] \in {"E11", "E12", "E13"} /\ k[2] \in Sides \union {""} /\ k[3] \in Nat
<1>1. CASE k \in HalfKeys
  <2>1. k = <<"E12", "", 0>>
    BY <1>1 DEF HalfKeys
  <2>2. QED
    BY <2>1
<1>2. CASE k \in OvertimeKeys
  <2>1. k = <<"E13", "", section>>
    BY <1>2, OvertimeIsATurn DEF OvertimeKeys
  <2>2. QED
    BY <2>1, OpenSection
<1>3. CASE k \in PointKeys
  <2>1. k = <<"E11", Leader, High(Ours, Theirs) + 1>> /\ Leader \in Sides
    BY <1>3, PointIsAPoint DEF PointKeys
  <2>2. High(Ours, Theirs) + 1 \in Nat
    BY OpenSection DEF High
  <2>3. QED
    BY <2>1, <2>2
<1>4. QED
  BY <1>1, <1>2, <1>3 DEF Keys

JournalTypeOK ==
  /\ announced \subseteq told
  /\ \A k \in told : k[1] \in {"E11", "E12", "E13"} /\ k[2] \in Sides \union {""} /\ k[3] \in Nat

SettingsTypeOK ==
  format \in Formats /\ recorded \in BOOLEAN /\ wants \subseteq {"E12", "E13"}

LEMMA NextJournal ==
  ASSUME GameInv, JournalTypeOK, [Next]_vars
  PROVE  JournalTypeOK'
<1>1. CASE UNCHANGED told /\ announced' \subseteq announced
  BY <1>1 DEF JournalTypeOK, Sides
<1>2. CASE Frame /\ ~Completed
  <2>1. ~over
    BY <1>2, CompletedIsOver
  <2>2. /\ announced' = announced \union (Keys \ announced)
        /\ told' = told \union (Keys \ announced)
    BY <1>2 DEF Frame
  <2>3. announced' \subseteq told'
    BY <2>2 DEF JournalTypeOK
  <2>4. ASSUME NEW k \in told'
        PROVE  k[1] \in {"E11", "E12", "E13"} /\ k[2] \in Sides \union {""} /\ k[3] \in Nat
    <3>1. k \in told \/ k \in Keys
      BY <2>2
    <3>2. QED
      BY <2>1, <3>1, KeysTyped DEF JournalTypeOK
  <2>5. QED
    BY <2>3, <2>4 DEF JournalTypeOK, Sides
<1>3. CASE Frame /\ Completed
  BY <1>1, <1>3 DEF Frame
<1>4. CASE Restart
  BY <1>1, <1>4 DEF Restart
<1>5. CASE UNCHANGED <<announced, told>>
  BY <1>1, <1>5
<1>6. QED
  BY <1>2, <1>3, <1>4, <1>5 DEF Next, Round, Change, vars

LEMMA NextSettings ==
  ASSUME SettingsTypeOK, [Next]_vars
  PROVE  SettingsTypeOK'
<1>1. format' = format
  BY DEF Next, Round, Frame, Change, Restart, vars, game
<1>2. recorded' = recorded \/ recorded' = TRUE
  BY DEF Next, Round, Frame, Change, Restart, vars
<1>3. wants' \subseteq {"E12", "E13"}
  BY DEF Next, Round, Frame, Change, Restart, vars, SettingsTypeOK
<1>4. recorded' \in BOOLEAN
  BY <1>2 DEF SettingsTypeOK
<1>5. QED
  BY <1>1, <1>3, <1>4 DEF SettingsTypeOK

LEMMA NextChanges ==
  ASSUME changes \in 0..MaxChanges, [Next]_vars
  PROVE  changes' \in 0..MaxChanges
<1>1. changes' = changes \/ (changes < MaxChanges /\ changes' = changes + 1)
  BY DEF Next, Round, Frame, Change, Restart, vars
<1>2. QED
  BY <1>1, MapScoreAssumption

\* The types of MapScore hold in every run: among them, that what a worker
\* remembers having announced is in the journal.
THEOREM MapScoreTypeCorrect == Spec => []TypeOK
<1> DEFINE Inv == GameInv /\ JournalTypeOK /\ SettingsTypeOK /\ changes \in 0..MaxChanges
<1>1. Init => Inv
  <2> SUFFICES ASSUME Init PROVE Inv
    OBVIOUS
  <2>1. GameInv
    BY InitGame
  <2>2. JournalTypeOK
    BY DEF Init, JournalTypeOK
  <2>3. SettingsTypeOK
    BY DEF Init, SettingsTypeOK
  <2>4. changes \in 0..MaxChanges
    BY MapScoreAssumption DEF Init
  <2>5. QED
    BY <2>1, <2>2, <2>3, <2>4
<1>2. Inv /\ [Next]_vars => Inv'
  BY NextGame, NextJournal, NextSettings, NextChanges
<1>3. Inv => TypeOK
  BY DEF GameInv, GameTypeOK, JournalTypeOK, SettingsTypeOK, TypeOK
<1>4. QED
  BY <1>1, <1>2, <1>3, PTL DEF Spec
=============================================================================
