--------------------------- MODULE RoundsProofs ---------------------------
(***************************************************************************)
(* What Highlights and Story do for all teams, bars and numbers of rounds, *)
(* whatever frames are missing and however often a worker is replaced.     *)
(***************************************************************************)
EXTENDS Highlights, Story, FiniteSetTheorems, TLAPS

----------------------------------------------------------------------------
\* The game.

ScorePairs == Int \X Int
Truths == [kills : Nat, faced : Nat, clutch : BOOLEAN]

GameTyped ==
  /\ round \in 1..LastRound /\ state \in RoundStates
  /\ kills \in [Players -> Nat] /\ credits \in [Players -> Nat]
  /\ alive \subseteq Players /\ facing \in 0..Opponents
  /\ path \in Seq(ScorePairs)
  /\ real \in [1..LastRound -> [Players -> Truths]]

\* The clutches of a player in the first n rounds.
ClutchRounds(p, n) == {r \in 1..n : real[r][p].clutch}

\* The score tells the round, nobody is credited with a round that he has not won
\* alone, and whoever is alone has been seen facing all who are left.
MatchInv ==
  /\ Len(path) = IF state \in {"warmup", "started"} THEN round ELSE round + 1
  /\ \A i \in 1..Len(path) : Total(path[i]) = i - 1
  /\ \A r \in 1..LastRound, p \in Players :
       /\ real[r][p].clutch => real[r][p].faced > 0
       /\ Players = {p} => real[r][p].faced = 0
  /\ \A p \in Players :
       /\ state = "started" /\ alive = {p} /\ Players # {p} => facing <= real[round][p].faced
       /\ Cardinality(ClutchRounds(p, round - 1)) <= credits[p]
       /\ credits[p] <= Cardinality(ClutchRounds(p, round))
       /\ state = "freezePeriod" => Cardinality(ClutchRounds(p, round)) <= credits[p]

\* He can do no more in this round.
Over(p) == state \in {"ended", "freezePeriod"} \/ (state = "started" /\ p \notin alive)

\* What a step of the game may do to what a tracker has seen of it.
TruthGrows ==
  \A r \in 1..LastRound, p \in Players :
    /\ real[r][p].kills <= real'[r][p].kills /\ real[r][p].faced <= real'[r][p].faced
    /\ real[r][p].clutch => real'[r][p].clutch
    /\ r # round => real'[r][p].clutch = real[r][p].clutch
PathGrows == Len(path) <= Len(path') /\ \A i \in 1..Len(path) : path'[i] = path[i]
PlayerMoves(p) ==
  /\ state = "warmup" => state' = "warmup" \/ kills'[p] = 0
  /\ state # "warmup" =>
       state' # "warmup" /\ kills'[p] - real'[round][p].kills <= kills[p] - real[round][p].kills
  /\ Over(p) => Over(p)' /\ kills'[p] <= kills[p]
GameMoves ==
  /\ round <= round' /\ TruthGrows /\ PathGrows
  /\ round' = round => \A p \in Players : PlayerMoves(p)
  /\ UNCHANGED <<tracker, reports>>

\* More clutches are not fewer.
LEMMA MoreClutches ==
  ASSUME NEW n \in Nat, NEW A, NEW B, A \subseteq B, B \subseteq 1..n
  PROVE  Cardinality(A) \in Nat /\ Cardinality(B) \in Nat /\ Cardinality(A) <= Cardinality(B)
<1>1. IsFiniteSet(1..n)
  BY FS_Interval
<1>2. IsFiniteSet(B)
  BY <1>1, FS_Subset
<1> QED
  BY <1>2, FS_Subset, FS_CardinalityType

\* The game as it begins.
LEMMA GameInitInv == HighlightsInit => GameTyped /\ MatchInv
<1> SUFFICES ASSUME HighlightsInit PROVE GameTyped /\ MatchInv
  OBVIOUS
<1> USE HighlightsAssumption
<1>1. GameTyped
  <2>1. path \in Seq(ScorePairs) /\ Len(path) = 1 /\ path[1] = <<0, 0>>
    BY DEF HighlightsInit, ScorePairs
  <2>2. /\ round \in 1..LastRound /\ state \in RoundStates
        /\ kills \in [Players -> Nat] /\ credits \in [Players -> Nat]
        /\ alive \subseteq Players /\ facing \in 0..Opponents
    BY DEF HighlightsInit, RoundStates, Nothing
  <2>3. real \in [1..LastRound -> [Players -> Truths]]
    BY DEF HighlightsInit, Truths
  <2> QED
    BY <2>1, <2>2, <2>3 DEF GameTyped
<1>2. /\ \A r \in 1..LastRound, p \in Players : real[r][p] = [kills |-> 0, faced |-> 0, clutch |-> FALSE]
  BY DEF HighlightsInit
<1>3. ASSUME NEW p \in Players, NEW n \in 0..1 PROVE Cardinality(ClutchRounds(p, n)) = 0
  <2>1. \A r \in 1..n : ~real[r][p].clutch
    BY <1>2
  <2>2. ClutchRounds(p, n) = {}
    BY <2>1 DEF ClutchRounds
  <2> QED
    BY <2>2, FS_EmptySet
<1>4. round = 1 /\ state = "warmup" /\ Len(path) = 1 /\ path[1] = <<0, 0>> /\ credits = Nothing
  BY DEF HighlightsInit
<1>5. ASSUME NEW p \in Players
      PROVE  /\ Cardinality(ClutchRounds(p, round - 1)) <= credits[p]
             /\ credits[p] <= Cardinality(ClutchRounds(p, round))
  <2>1. Cardinality(ClutchRounds(p, 0)) = 0 /\ Cardinality(ClutchRounds(p, 1)) = 0
    BY <1>3
  <2>2. credits[p] = 0 /\ round - 1 = 0 /\ round = 1
    BY <1>4 DEF Nothing
  <2> QED
    BY <2>1, <2>2
<1> QED
  BY <1>1, <1>2, <1>4, <1>5 DEF MatchInv, Total

\* A step that changes no truth.
LEMMA TruthStays ==
  ASSUME GameTyped, real' = real PROVE TruthGrows
<1>1. ASSUME NEW r \in 1..LastRound, NEW p \in Players
      PROVE  real[r][p].kills \in Nat /\ real[r][p].faced \in Nat
  BY DEF GameTyped, Truths
<1> QED
  BY <1>1 DEF TruthGrows

\* A step that changes no score.
LEMMA PathStays ==
  ASSUME GameTyped, path' = path PROVE PathGrows
<1>1. Len(path) \in Nat
  BY DEF GameTyped
<1> QED
  BY <1>1 DEF PathGrows

\* ClutchRounds of rounds whose truth stays.
LEMMA SameClutches ==
  ASSUME NEW p \in Players, NEW n \in Int, n <= LastRound,
         \A r \in 1..LastRound, k \in Players : r <= n => real'[r][k].clutch = real[r][k].clutch
  PROVE  {r \in 1..n : real'[r][p].clutch} = {r \in 1..n : real[r][p].clutch}
<1>1. \A r \in 1..n : r \in 1..LastRound /\ r <= n
  BY HighlightsAssumption
<1> QED
  BY <1>1

\* Numbers.
LEMMA PlayerTyped ==
  ASSUME GameTyped, NEW p \in Players
  PROVE  /\ kills[p] \in Nat /\ credits[p] \in Nat /\ round \in Nat /\ facing \in Nat
         /\ real[round] \in [Players -> Truths] /\ real[round][p] \in Truths
         /\ real[round][p].kills \in Nat /\ real[round][p].faced \in Nat
         /\ real[round][p].clutch \in BOOLEAN
<1>1. real[round] \in [Players -> Truths] /\ real[round][p] \in Truths
  BY DEF GameTyped
<1> QED
  BY <1>1, HighlightsAssumption DEF GameTyped, Truths

\* Steps that leave the score, the credits and what is true of the rounds alone.
LEMMA WarmupKillMoves ==
  ASSUME GameTyped, MatchInv, NEW q \in Players, WarmupKill(q)
  PROVE  GameTyped' /\ MatchInv' /\ GameMoves
<1>1. GameTyped'
  BY DEF WarmupKill, GameTyped
<1>2. MatchInv'
  BY DEF WarmupKill, MatchInv, ClutchRounds
<1>3. GameMoves
  <2>1. UNCHANGED <<round, real, path, tracker, reports>>
    BY DEF WarmupKill
  <2>2. ASSUME NEW p \in Players PROVE PlayerMoves(p)
    <3>1. kills[p] \in Nat /\ real[round][p].kills \in Nat
      BY PlayerTyped
    <3> QED
      BY <2>1, <3>1 DEF WarmupKill, PlayerMoves, Over, GameTyped
  <2>3. round <= round'
    BY <2>1 DEF GameTyped
  <2> QED
    BY <2>1, <2>2, <2>3, TruthStays, PathStays DEF GameMoves
<1> QED
  BY <1>1, <1>2, <1>3

\* One lemma for each move of the game; what a tracker has seen stays true under each.
LEMMA SwapSidesMoves ==
  ASSUME GameTyped, MatchInv, NEW q \in Players, SwapSides(q)
  PROVE  GameTyped' /\ MatchInv' /\ GameMoves
<1>1. GameTyped'
  BY HighlightsAssumption DEF SwapSides, GameTyped
<1>2. MatchInv'
  BY DEF SwapSides, MatchInv, ClutchRounds
<1>3. GameMoves
  <2>1. UNCHANGED <<round, real, path, tracker, reports>>
    BY DEF SwapSides
  <2>2. ASSUME NEW p \in Players PROVE PlayerMoves(p)
    <3>1. kills[p] \in Nat /\ real[round][p].kills \in Nat
      BY PlayerTyped
    <3> QED
      BY <2>1, <3>1 DEF SwapSides, PlayerMoves, Over, GameTyped
  <2>3. round <= round'
    BY <2>1 DEF GameTyped
  <2> QED
    BY <2>1, <2>2, <2>3, TruthStays, PathStays DEF GameMoves
<1> QED
  BY <1>1, <1>2, <1>3

\* The next round may only begin when everybody has been credited.
LEMMA FreezeMoves ==
  ASSUME GameTyped, MatchInv, Freeze
  PROVE  GameTyped' /\ MatchInv' /\ GameMoves
<1>1. GameTyped'
  BY HighlightsAssumption DEF Freeze, GameTyped, RoundStates
<1>2. ASSUME NEW p \in Players PROVE Cardinality(ClutchRounds(p, round)) <= credits[p]
  <2>1. ~(credits[p] < Cardinality(ClutchRounds(p, round)))
    BY DEF Freeze, Owed, ClutchRounds
  <2>2. Cardinality(ClutchRounds(p, round)) \in Nat /\ credits[p] \in Nat
    BY MoreClutches DEF ClutchRounds, GameTyped
  <2> QED
    BY <2>1, <2>2
<1>3. MatchInv'
  BY <1>2 DEF Freeze, MatchInv, ClutchRounds
<1>4. GameMoves
  <2>1. UNCHANGED <<round, real, path, tracker, reports>>
    BY DEF Freeze
  <2>2. ASSUME NEW p \in Players PROVE PlayerMoves(p)
    <3>1. kills[p] \in Nat /\ real[round][p].kills \in Nat
      BY PlayerTyped
    <3> QED
      BY <2>1, <3>1 DEF Freeze, PlayerMoves, Over, GameTyped
  <2>3. round <= round'
    BY <2>1 DEF GameTyped
  <2> QED
    BY <2>1, <2>2, <2>3, TruthStays, PathStays DEF GameMoves
<1> QED
  BY <1>1, <1>3, <1>4

\* Whoever was credited in a round that is over was credited with a clutch of it.
LEMMA BeginRoundMoves ==
  ASSUME GameTyped, MatchInv, BeginRound
  PROVE  GameTyped' /\ MatchInv' /\ GameMoves
<1>1. GameTyped'
  BY HighlightsAssumption DEF BeginRound, GameTyped, RoundStates, Nothing
<1>2. ASSUME NEW p \in Players
      PROVE  /\ Cardinality(ClutchRounds(p, round' - 1)) <= credits[p]
             /\ credits[p] <= Cardinality(ClutchRounds(p, round'))
  <2>1. CASE round' = round
    BY <2>1 DEF MatchInv
  <2>2. CASE round' # round
    <3>1. round' = round + 1 /\ state = "freezePeriod" /\ round' - 1 = round /\ round + 1 \in Nat
      BY <2>2 DEF BeginRound, GameTyped
    <3>2. Cardinality(ClutchRounds(p, round)) <= credits[p] /\ credits[p] <= Cardinality(ClutchRounds(p, round))
      BY <3>1 DEF MatchInv
    <3>3. ClutchRounds(p, round) \subseteq ClutchRounds(p, round + 1) /\ ClutchRounds(p, round + 1) \subseteq 1..(round + 1)
      BY DEF ClutchRounds, GameTyped
    <3>4. /\ Cardinality(ClutchRounds(p, round)) \in Nat /\ Cardinality(ClutchRounds(p, round + 1)) \in Nat
          /\ Cardinality(ClutchRounds(p, round)) <= Cardinality(ClutchRounds(p, round + 1))
      BY <3>1, <3>3, MoreClutches
    <3>5. credits[p] \in Nat
      BY DEF GameTyped
    <3> QED
      BY <3>1, <3>2, <3>4, <3>5
  <2> QED
    BY <2>1, <2>2
<1>3. MatchInv'
  <2>1. UNCHANGED <<credits, path, real>> /\ state' = "started" /\ alive' = Players
    BY DEF BeginRound
  <2>2. Len(path) = round'
    BY DEF BeginRound, MatchInv
  <2>3. \A p \in Players, n \in {round', round' - 1} : ClutchRounds(p, n)' = ClutchRounds(p, n)
    BY <2>1 DEF ClutchRounds
  <2> QED
    BY <1>2, <2>1, <2>2 DEF MatchInv, ClutchRounds
<1>4. GameMoves
  <2>1. UNCHANGED <<real, path, tracker, reports>> /\ round <= round' /\ state' = "started"
    BY DEF BeginRound, GameTyped
  <2>2. ASSUME NEW p \in Players, round' = round PROVE PlayerMoves(p)
    <3>1. state = "warmup" /\ kills'[p] = 0
      BY <2>2 DEF BeginRound, GameTyped, Nothing
    <3> QED
      BY <3>1 DEF PlayerMoves, Over
  <2> QED
    BY <2>1, <2>2, TruthStays, PathStays DEF GameMoves
<1> QED
  BY <1>1, <1>3, <1>4

\* Steps that change what is true of this round, but nobody's clutches.
LEMMA KillMoves ==
  ASSUME GameTyped, MatchInv, NEW q \in Players, Kill(q)
  PROVE  GameTyped' /\ MatchInv' /\ GameMoves
<1> DEFINE old == real[round][q]
           new == [old EXCEPT !.kills = @ + 1]
<1>1. /\ real' \in [1..LastRound -> [Players -> Truths]]
      /\ \A r \in 1..LastRound, p \in Players :
           real'[r][p] = IF r = round /\ p = q THEN new ELSE real[r][p]
  <2>1. new \in Truths
    BY PlayerTyped DEF Truths
  <2> HIDE DEF new
  <2>2. real' = [real EXCEPT ![round] = [real[round] EXCEPT ![q] = new]]
    BY DEF Kill, new
  <2> QED
    BY <2>1, <2>2 DEF GameTyped
<1>2. /\ new.kills = old.kills + 1 /\ new.faced = old.faced /\ new.clutch = old.clutch
      /\ old.kills \in Nat /\ old.faced \in Nat
  BY PlayerTyped DEF Truths
<1> HIDE DEF new
<1>3. \A r \in 1..LastRound, p \in Players :
        real'[r][p].faced = real[r][p].faced /\ real'[r][p].clutch = real[r][p].clutch
  BY <1>1, <1>2
<1>4. UNCHANGED <<round, state, credits, alive, path, tracker, reports>>
      /\ facing' = facing - 1 /\ facing > 0 /\ state = "started" /\ q \in alive
      /\ kills' = [kills EXCEPT ![q] = @ + 1]
  BY DEF Kill
<1>5. round \in 1..LastRound /\ round - 1 \in Int /\ round - 1 <= LastRound /\ facing \in Nat
  BY PlayerTyped, HighlightsAssumption DEF GameTyped
<1>6. GameTyped'
  <2>1. kills' \in [Players -> Nat] /\ facing' \in 0..Opponents
    BY <1>4, <1>5, HighlightsAssumption DEF GameTyped
  <2> QED
    BY <1>1, <1>4, <2>1 DEF GameTyped
<1>7. \A p \in Players : /\ ClutchRounds(p, round - 1)' = ClutchRounds(p, round - 1)
                         /\ ClutchRounds(p, round)' = ClutchRounds(p, round)
  BY <1>3, <1>4, <1>5, SameClutches DEF ClutchRounds
<1>8. MatchInv'
  <2>1. \A p \in Players : real[round][p].faced \in Nat
    BY PlayerTyped
  <2>2. ASSUME NEW p \in Players, alive = {p}, Players # {p}
        PROVE  facing' <= real'[round][p].faced
    <3>1. facing <= real[round][p].faced /\ real'[round][p].faced = real[round][p].faced
      BY <1>3, <1>4, <1>5, <2>2 DEF MatchInv
    <3> QED
      BY <1>4, <1>5, <2>1, <3>1
  <2> QED
    BY <1>3, <1>4, <1>7, <2>2 DEF MatchInv
<1>9. TruthGrows
  <2>1. \A r \in 1..LastRound, p \in Players : real[r][p].kills \in Nat /\ real[r][p].faced \in Nat
    BY DEF GameTyped, Truths
  <2>2. \A r \in 1..LastRound, p \in Players : real[r][p].kills <= real'[r][p].kills
    BY <1>1, <1>2, <2>1
  <2> QED
    BY <1>3, <2>1, <2>2 DEF TruthGrows
<1>10. ASSUME NEW p \in Players PROVE PlayerMoves(p)
  <2>1. kills[p] \in Nat /\ real[round][p].kills \in Nat
    BY PlayerTyped
  <2>2. CASE p = q
    <3>1. kills'[p] = kills[p] + 1 /\ real'[round][p].kills = real[round][p].kills + 1 /\ ~Over(p)
      BY <1>1, <1>2, <1>4, <1>5, <2>2 DEF GameTyped, Over
    <3> QED
      BY <1>4, <2>1, <3>1 DEF PlayerMoves
  <2>3. CASE p # q
    <3>1. kills'[p] = kills[p] /\ real'[round][p] = real[round][p] /\ (Over(p)' <=> Over(p))
      BY <1>1, <1>4, <1>5, <2>3 DEF GameTyped, Over
    <3> QED
      BY <1>4, <2>1, <3>1 DEF PlayerMoves
  <2> QED
    BY <2>2, <2>3
<1> QED
  BY <1>4, <1>5, <1>6, <1>8, <1>9, <1>10, PathStays DEF GameMoves, GameTyped

\* The one who is left faces all who stand against him.
LEMMA DieMoves ==
  ASSUME GameTyped, MatchInv, NEW q \in Players, Die(q)
  PROVE  GameTyped' /\ MatchInv' /\ GameMoves
<1> DEFINE faced(p) == IF alive' = {p} THEN Bigger(real[round][p].faced, facing)
                       ELSE real[round][p].faced
<1>1. UNCHANGED <<round, state, kills, credits, facing, path, tracker, reports>>
      /\ facing > 0 /\ state = "started" /\ q \in alive /\ alive' = alive \ {q}
  BY DEF Die
<1>2. round \in 1..LastRound /\ round - 1 \in Int /\ round - 1 <= LastRound /\ facing \in Nat
  BY PlayerTyped, HighlightsAssumption DEF GameTyped
<1>3. ASSUME NEW p \in Players
      PROVE  faced(p) \in Nat /\ real[round][p].faced <= faced(p)
             /\ (alive' = {p} => facing <= faced(p))
  <2>1. real[round][p].faced \in Nat
    BY PlayerTyped
  <2> QED
    BY <1>2, <2>1 DEF Bigger
<1>4. real' = [real EXCEPT ![round] = [p \in Players |-> [real[round][p] EXCEPT !.faced = faced(p)]]]
  BY <1>1 DEF Die, Facing
<1> HIDE DEF faced
<1>5. real' \in [1..LastRound -> [Players -> Truths]]
  <2>1. \A p \in Players : [real[round][p] EXCEPT !.faced = faced(p)] \in Truths
    BY <1>3, PlayerTyped DEF Truths
  <2> QED
    BY <1>4, <2>1 DEF GameTyped
<1>6. \A r \in 1..LastRound, p \in Players : r # round => real'[r][p] = real[r][p]
  BY <1>4 DEF GameTyped
<1>7. ASSUME NEW p \in Players
      PROVE  /\ real'[round][p].kills = real[round][p].kills
             /\ real'[round][p].clutch = real[round][p].clutch
             /\ real'[round][p].faced = faced(p)
  <2>1. real'[round][p] = [real[round][p] EXCEPT !.faced = faced(p)]
    BY <1>2, <1>4 DEF GameTyped
  <2> QED
    BY <2>1, PlayerTyped DEF Truths
<1>8. GameTyped'
  BY <1>1, <1>5 DEF GameTyped
<1>9. \A p \in Players : /\ ClutchRounds(p, round - 1)' = ClutchRounds(p, round - 1)
                         /\ ClutchRounds(p, round)' = ClutchRounds(p, round)
  BY <1>1, <1>2, <1>6, <1>7, SameClutches DEF ClutchRounds
<1>10. MatchInv'
  <2>1. ASSUME NEW r \in 1..LastRound, NEW p \in Players
        PROVE  /\ real'[r][p].clutch => real'[r][p].faced > 0
               /\ Players = {p} => real'[r][p].faced = 0
    <3>1. CASE r # round
      BY <1>6, <2>1, <3>1 DEF MatchInv
    <3>2. CASE r = round
      <4>1. /\ real[r][p].clutch => real[r][p].faced > 0
            /\ Players = {p} => real[r][p].faced = 0
        BY DEF MatchInv
      <4>2. real[r][p].faced \in Nat
        BY <3>2, PlayerTyped
      <4>3. Players = {p} => alive' # {p}
        BY <1>1 DEF GameTyped
      <4> QED
        BY <1>3, <1>7, <3>2, <4>1, <4>2, <4>3 DEF faced
    <3> QED
      BY <3>1, <3>2
  <2>2. \A p \in Players : alive' = {p} => facing' <= real'[round][p].faced
    BY <1>1, <1>3, <1>7
  <2> QED
    BY <1>1, <1>9, <2>1, <2>2 DEF MatchInv
<1>11. TruthGrows
  <2>1. \A r \in 1..LastRound, p \in Players : real[r][p].kills \in Nat /\ real[r][p].faced \in Nat
    BY DEF GameTyped, Truths
  <2> QED
    BY <1>3, <1>6, <1>7, <2>1 DEF TruthGrows
<1>12. ASSUME NEW p \in Players PROVE PlayerMoves(p)
  <2>1. kills[p] \in Nat /\ real[round][p].kills \in Nat
    BY PlayerTyped
  <2> QED
    BY <1>1, <1>7, <2>1 DEF PlayerMoves, Over
<1> QED
  BY <1>1, <1>2, <1>8, <1>10, <1>11, <1>12, PathStays DEF GameMoves, GameTyped

\* A round that was won alone is one more clutch, which nobody is credited with yet.
LEMMA FinishRoundMoves ==
  ASSUME GameTyped, MatchInv, FinishRound
  PROVE  GameTyped' /\ MatchInv' /\ GameMoves
<1>1. UNCHANGED <<round, kills, credits, alive, facing, tracker, reports>>
      /\ state = "started" /\ state' = "ended" /\ Len(path) = round
  BY DEF FinishRound, MatchInv
<1>2. round \in 1..LastRound /\ round - 1 \in Int /\ round - 1 <= LastRound /\ round \in Nat
  BY HighlightsAssumption DEF GameTyped
<1>3. PICK s \in ScorePairs : path' = Append(path, s) /\ Total(s) = round
  <2>1. path[Len(path)] \in ScorePairs /\ Total(path[Len(path)]) = round - 1
    BY <1>1, <1>2 DEF GameTyped, MatchInv
  <2> DEFINE ours == <<scoreNow[1] + 1, scoreNow[2]>>
             theirs == <<scoreNow[1], scoreNow[2] + 1>>
  <2>2. \A s \in {ours, theirs} : s \in ScorePairs /\ Total(s) = round
    BY <1>2, <2>1 DEF ScorePairs, Total, scoreNow
  <2>3. path' = Append(path, ours) \/ path' = Append(path, theirs)
    BY DEF FinishRound
  <2> HIDE DEF ours, theirs
  <2> QED
    BY <2>2, <2>3
<1>4. /\ path' \in Seq(ScorePairs) /\ Len(path') = round + 1 /\ path'[round + 1] = s
      /\ \A i \in 1..round : path'[i] = path[i]
  BY <1>1, <1>2, <1>3 DEF GameTyped
<1>5. /\ real' \in [1..LastRound -> [Players -> Truths]]
      /\ \A r \in 1..LastRound, p \in Players :
           /\ real'[r][p].kills = real[r][p].kills /\ real'[r][p].faced = real[r][p].faced
           /\ r # round => real'[r][p].clutch = real[r][p].clutch
           /\ real'[r][p].clutch => real[r][p].faced > 0
           /\ real[r][p].clutch => real'[r][p].clutch
  <2>1. CASE real' = real
    BY <2>1 DEF GameTyped, MatchInv
  <2>2. CASE real' = [real EXCEPT ![round] = WonAlone(@)]
    <3> DEFINE won(p) == real[round][p].faced > 0
    <3>1. real' = [real EXCEPT ![round] = [p \in Players |-> [real[round][p] EXCEPT !.clutch = won(p)]]]
      BY <2>2 DEF WonAlone
    <3>2. ASSUME NEW p \in Players
          PROVE  /\ [real[round][p] EXCEPT !.clutch = won(p)] \in Truths
                 /\ [real[round][p] EXCEPT !.clutch = won(p)].kills = real[round][p].kills
                 /\ [real[round][p] EXCEPT !.clutch = won(p)].faced = real[round][p].faced
                 /\ [real[round][p] EXCEPT !.clutch = won(p)].clutch = won(p)
      <4>1. won(p) \in BOOLEAN
        BY PlayerTyped
      <4> HIDE DEF won
      <4> QED
        BY <4>1, PlayerTyped DEF Truths
    <3>3. \A r \in 1..LastRound, p \in Players :
            real'[r][p] = IF r = round THEN [real[round][p] EXCEPT !.clutch = won(p)] ELSE real[r][p]
      BY <1>2, <3>1 DEF GameTyped
    <3>4. real' \in [1..LastRound -> [Players -> Truths]]
      <4> HIDE DEF won
      <4> QED
        BY <3>1, <3>2 DEF GameTyped
    <3>5. \A r \in 1..LastRound, p \in Players : real[r][p].clutch => real[r][p].faced > 0
      BY DEF MatchInv
    <3> QED
      BY <3>2, <3>3, <3>4, <3>5, ZenonT(30)
  <2> QED
    BY <2>1, <2>2 DEF FinishRound
<1>6. GameTyped'
  BY <1>1, <1>4, <1>5 DEF GameTyped, RoundStates
<1>7. ASSUME NEW p \in Players
      PROVE  /\ Cardinality(ClutchRounds(p, round - 1)') <= credits[p]
             /\ credits[p] <= Cardinality(ClutchRounds(p, round)')
  <2>1. ClutchRounds(p, round - 1)' = ClutchRounds(p, round - 1)
    BY <1>1, <1>2, <1>5, SameClutches DEF ClutchRounds
  <2>2. ClutchRounds(p, round) \subseteq ClutchRounds(p, round)' /\ ClutchRounds(p, round)' \subseteq 1..round
    <3>1. \A r \in 1..round : r \in 1..LastRound
      BY <1>2, HighlightsAssumption
    <3> QED
      BY <1>1, <1>5, <3>1 DEF ClutchRounds
  <2>3. /\ Cardinality(ClutchRounds(p, round)) \in Nat /\ Cardinality(ClutchRounds(p, round)') \in Nat
        /\ Cardinality(ClutchRounds(p, round)) <= Cardinality(ClutchRounds(p, round)')
    BY <1>2, <2>2, MoreClutches
  <2>4. credits[p] \in Nat /\ Cardinality(ClutchRounds(p, round - 1)) <= credits[p]
        /\ credits[p] <= Cardinality(ClutchRounds(p, round))
    BY DEF GameTyped, MatchInv
  <2> QED
    BY <2>1, <2>3, <2>4
<1>8. MatchInv'
  <2>1. \A i \in 1..(round + 1) : Total(path'[i]) = i - 1
    BY <1>1, <1>2, <1>3, <1>4 DEF MatchInv
  <2>2. \A r \in 1..LastRound, p \in Players : Players = {p} => real'[r][p].faced = 0
    BY <1>5 DEF MatchInv
  <2>3. \A p \in Players : /\ Cardinality(ClutchRounds(p, round - 1)') <= credits'[p]
                           /\ credits'[p] <= Cardinality(ClutchRounds(p, round)')
    BY <1>1, <1>7
  <2> QED
    BY <1>1, <1>4, <1>5, <2>1, <2>2, <2>3 DEF MatchInv
<1>9. TruthGrows /\ PathGrows
  <2>1. \A r \in 1..LastRound, p \in Players : real[r][p].kills \in Nat /\ real[r][p].faced \in Nat
    BY DEF GameTyped, Truths
  <2> QED
    BY <1>1, <1>2, <1>4, <1>5, <2>1 DEF TruthGrows, PathGrows
<1>10. ASSUME NEW p \in Players PROVE PlayerMoves(p)
  <2>1. kills[p] \in Nat /\ real[round][p].kills \in Nat
    BY PlayerTyped
  <2> QED
    BY <1>1, <1>2, <1>5, <2>1 DEF PlayerMoves, Over
<1> QED
  BY <1>1, <1>2, <1>6, <1>8, <1>9, <1>10 DEF GameMoves

\* A credit is given for a clutch that is owed.
LEMMA CreditMoves ==
  ASSUME GameTyped, MatchInv, NEW q \in Players, Credit(q)
  PROVE  GameTyped' /\ MatchInv' /\ GameMoves
<1>1. UNCHANGED <<round, state, kills, alive, facing, path, real, tracker, reports>>
      /\ state = "ended" /\ credits' = [credits EXCEPT ![q] = @ + 1]
      /\ credits[q] < Cardinality(ClutchRounds(q, round))
  BY DEF Credit, Owed, ClutchRounds
<1>2. \A p \in Players : ClutchRounds(p, round - 1)' = ClutchRounds(p, round - 1)
                         /\ ClutchRounds(p, round)' = ClutchRounds(p, round)
  BY <1>1 DEF ClutchRounds
<1>3. GameTyped'
  BY <1>1 DEF GameTyped
<1>4. ASSUME NEW p \in Players
      PROVE  /\ Cardinality(ClutchRounds(p, round - 1)) <= credits'[p]
             /\ credits'[p] <= Cardinality(ClutchRounds(p, round))
  <2>1. /\ credits[p] \in Nat /\ Cardinality(ClutchRounds(p, round - 1)) <= credits[p]
        /\ credits[p] <= Cardinality(ClutchRounds(p, round))
    BY DEF GameTyped, MatchInv
  <2>2. /\ round - 1 \in Nat /\ round \in Nat
    BY HighlightsAssumption DEF GameTyped
  <2>3. Cardinality(ClutchRounds(p, round)) \in Nat /\ Cardinality(ClutchRounds(p, round - 1)) \in Nat
    BY <2>2, MoreClutches DEF ClutchRounds
  <2>4. credits'[p] = IF p = q THEN credits[p] + 1 ELSE credits[p]
    BY <1>1 DEF GameTyped
  <2> QED
    BY <1>1, <2>1, <2>3, <2>4
<1>5. MatchInv'
  BY <1>1, <1>2, <1>4 DEF MatchInv
<1>6. ASSUME NEW p \in Players PROVE PlayerMoves(p)
  <2>1. kills[p] \in Nat /\ real[round][p].kills \in Nat
    BY PlayerTyped
  <2> QED
    BY <1>1, <2>1 DEF PlayerMoves, Over
<1>7. round <= round'
  BY <1>1 DEF GameTyped
<1> QED
  BY <1>1, <1>3, <1>5, <1>6, <1>7, TruthStays, PathStays DEF GameMoves
----------------------------------------------------------------------------
\* The tracker.

Trackers ==
  [key : 0..LastRound, base : [Players -> Nat \union {NotSeen}], credited : [Players -> Nat],
   peak : [Players -> Nat], won : SUBSET Players, situation : [Players -> Nat],
   reported : SUBSET Players, before : ScorePairs, after : ScorePairs]

\* It counts no kills that were not made in its round, however late it came: whoever
\* it sees starts from no less than he had before the round.
Counted(t, p) ==
  t.base[p] # NotSeen =>
    /\ t.peak[p] - t.base[p] <= real[t.key][p].kills
    /\ t.key = round /\ state # "warmup" => kills[p] - real[round][p].kills <= t.base[p]

\* A credit that it sees arrive is for its round, and it has seen nobody face more
\* than he faced.
Credible(t, p) ==
  /\ p \in t.won => real[t.key][p].clutch
  /\ t.key = round => Cardinality(ClutchRounds(p, round - 1)) <= t.credited[p]
  /\ t.situation[p] <= real[t.key][p].faced \/ Players = {p}

\* The scores it has are those before and after its round.
Placed(t) ==
  /\ t.before \in {NoScore, path[t.key]}
  /\ t.after # NoScore => t.key + 1 <= Len(path) /\ t.after = path[t.key + 1]

TrackerTrue(t) ==
  t.key # 0 =>
    /\ t.key <= round /\ Placed(t)
    /\ \A p \in Players : Counted(t, p) /\ Credible(t, p)

\* It has nothing to tell of a player: it told it already, or it took over after him.
Exhausted(t, p) ==
  \/ p \in t.reported
  \/ /\ t.situation[p] = 0
     /\ t.base[p] # NotSeen => t.peak[p] = t.base[p] /\ (t.key = round => kills[p] <= t.base[p])

\* Whoever has been told of in its round.
TrackerQuiet(t) ==
  t.key # 0 => \A h \in reports : h.round = t.key => Exhausted(t, h.player)

FrameOf(players) == [round |-> round, state |-> state, score |-> scoreNow, players |-> players]

\* A tracker that has seen nothing.
LEMMA NewTrackerTyped ==
  /\ NewTracker \in Trackers /\ NewTracker.key = 0
  /\ NewTracker.won = {} /\ NewTracker.situation = Nothing /\ NewTracker.reported = {}
  /\ NewTracker.before = NoScore /\ NewTracker.after = NoScore
<1>1. Nothing \in [Players -> Nat] /\ NoScore \in ScorePairs
  BY DEF Nothing, NoScore, ScorePairs
<1>2. [p \in Players |-> NotSeen] \in [Players -> Nat \union {NotSeen}]
  OBVIOUS
<1> QED
  BY <1>1, <1>2, HighlightsAssumption DEF NewTracker, Trackers

\* A tracker that has read a score knows two places of the path.
LEMMA TrackScoreTrue ==
  ASSUME GameTyped, MatchInv, NEW t \in Trackers, t.key \in 1..round, Placed(t),
         NEW u, u = TrackScore(t, scoreNow)
  PROVE  /\ u \in Trackers /\ Placed(u)
         /\ u.key = t.key /\ u.base = t.base /\ u.credited = t.credited /\ u.peak = t.peak
         /\ u.won = t.won /\ u.situation = t.situation /\ u.reported = t.reported
<1>1. Len(path) \in Nat /\ Len(path) >= 1 /\ scoreNow = path[Len(path)] /\ round \in Nat
  BY DEF GameTyped, MatchInv, scoreNow
<1>2. scoreNow \in ScorePairs /\ Total(scoreNow) = Len(path) - 1
  BY <1>1 DEF GameTyped, MatchInv
<1>3. CASE u = t
  BY <1>3
<1>4. CASE u = [t EXCEPT !.before = scoreNow] /\ Total(scoreNow) = t.key - 1
  <2>1. /\ u \in Trackers /\ u.before = scoreNow /\ u.after = t.after
        /\ u.key = t.key /\ u.base = t.base /\ u.credited = t.credited /\ u.peak = t.peak
        /\ u.won = t.won /\ u.situation = t.situation /\ u.reported = t.reported
    BY <1>2, <1>4 DEF Trackers
  <2>2. t.key = Len(path)
    BY <1>1, <1>2, <1>4
  <2> QED
    BY <1>1, <2>1, <2>2 DEF Placed
<1>5. CASE u = [t EXCEPT !.after = scoreNow] /\ Total(scoreNow) = t.key
  <2>1. /\ u \in Trackers /\ u.after = scoreNow /\ u.before = t.before
        /\ u.key = t.key /\ u.base = t.base /\ u.credited = t.credited /\ u.peak = t.peak
        /\ u.won = t.won /\ u.situation = t.situation /\ u.reported = t.reported
    BY <1>2, <1>5 DEF Trackers
  <2>2. t.key + 1 = Len(path)
    BY <1>1, <1>2, <1>5
  <2> QED
    BY <1>1, <2>1, <2>2 DEF Placed
<1> QED
  BY <1>3, <1>4, <1>5 DEF TrackScore

\* It starts at what it sees.
LEMMA StartTrue ==
  ASSUME GameTyped, MatchInv, NEW players \in SUBSET Players, NEW u, u = StartOf(FrameOf(players))
  PROVE  /\ u \in Trackers /\ TrackerTrue(u) /\ u.key = round
         /\ \A p \in Players : Exhausted(u, p)
<1> DEFINE base == [p \in Players |-> IF p \in players THEN kills[p] ELSE NotSeen]
           t == [NewTracker EXCEPT !.key = round, !.base = base, !.credited = credits,
                                   !.peak = kills]
<1>1. u = TrackScore(t, scoreNow)
  BY DEF StartOf, FrameOf
<1>2. /\ t.key = round /\ t.base = base /\ t.credited = credits /\ t.peak = kills
      /\ t.won = {} /\ t.situation = Nothing /\ t.reported = {} /\ t.before = NoScore
      /\ t.after = NoScore /\ t \in Trackers
  <2>1. base \in [Players -> Nat \union {NotSeen}]
    BY DEF GameTyped
  <2>2. /\ NewTracker.won = {} /\ NewTracker.situation = Nothing /\ NewTracker.reported = {}
        /\ NewTracker.before = NoScore /\ NewTracker.after = NoScore /\ NewTracker \in Trackers
    BY NewTrackerTyped
  <2>3. /\ round \in 0..LastRound /\ credits \in [Players -> Nat] /\ kills \in [Players -> Nat]
    BY HighlightsAssumption DEF GameTyped
  <2> HIDE DEF base
  <2>4. /\ t.key = round /\ t.base = base /\ t.credited = credits /\ t.peak = kills
        /\ t.won = NewTracker.won /\ t.situation = NewTracker.situation
        /\ t.reported = NewTracker.reported /\ t.before = NewTracker.before
        /\ t.after = NewTracker.after
    BY <2>2 DEF Trackers
  <2>5. t \in Trackers
    BY <2>1, <2>2, <2>3 DEF Trackers
  <2> QED
    BY <2>2, <2>4, <2>5
<1> HIDE DEF t
<1>3. t.key \in 1..round /\ Placed(t)
  BY <1>2 DEF Placed, GameTyped
<1>4. /\ u \in Trackers /\ Placed(u)
      /\ u.key = round /\ u.base = base /\ u.credited = credits /\ u.peak = kills
      /\ u.won = {} /\ u.situation = Nothing /\ u.reported = {}
  BY <1>1, <1>2, <1>3, TrackScoreTrue
<1>5. ASSUME NEW p \in Players PROVE Counted(u, p) /\ Credible(u, p) /\ Exhausted(u, p)
  <2>1. /\ kills[p] \in Nat /\ real[round][p].kills \in Nat /\ real[round][p].faced \in Nat
        /\ u.base[p] = IF p \in players THEN kills[p] ELSE NotSeen
        /\ u.situation[p] = 0
    BY <1>4, PlayerTyped DEF Nothing
  <2>2. Cardinality(ClutchRounds(p, round - 1)) <= credits[p]
    BY DEF MatchInv
  <2> QED
    BY <1>4, <2>1, <2>2 DEF Counted, Credible, Exhausted
<1> QED
  BY <1>4, <1>5 DEF TrackerTrue, GameTyped

\* Bases, peaks and credits of a tracker that has read a frame are of its round.
LEMMA TrackTrue ==
  ASSUME GameTyped, MatchInv, NEW players \in SUBSET Players, state # "warmup",
         NEW t \in Trackers, TrackerTrue(t), t.key = round, NEW u, u = Track(t, FrameOf(players))
  PROVE  /\ u \in Trackers /\ TrackerTrue(u) /\ u.key = round /\ u.reported = t.reported
         /\ u.situation = t.situation
         /\ \A p \in Players : Exhausted(t, p) => Exhausted(u, p)
<1> DEFINE new == {p \in players : t.base[p] = NotSeen}
           old == players \ new
           base == [p \in Players |-> IF p \in new THEN kills[p] ELSE t.base[p]]
           credited == [p \in Players |-> IF p \in new THEN credits[p] ELSE t.credited[p]]
           peak == [p \in Players |-> CASE p \in new -> kills[p]
                                        [] p \in old -> Bigger(t.peak[p], kills[p])
                                        [] OTHER -> t.peak[p]]
           won == t.won \union {p \in old : credits[p] > t.credited[p]}
           v == [t EXCEPT !.base = base, !.credited = credited, !.peak = peak, !.won = won]
<1>1. u = TrackScore(v, scoreNow)
  BY DEF Track, FrameOf
<1>2. ASSUME NEW p \in Players
      PROVE  /\ t.base[p] \in Nat \union {NotSeen} /\ t.credited[p] \in Nat /\ t.peak[p] \in Nat
             /\ kills[p] \in Nat /\ credits[p] \in Nat
             /\ Counted(t, p) /\ Credible(t, p)
  BY PlayerTyped DEF Trackers, TrackerTrue, GameTyped
<1>3. /\ base \in [Players -> Nat \union {NotSeen}] /\ credited \in [Players -> Nat]
      /\ won \in SUBSET Players
  BY <1>2 DEF Trackers
<1>4. peak \in [Players -> Nat]
  BY <1>2 DEF Bigger
<1>5. /\ v.base = base /\ v.credited = credited /\ v.peak = peak /\ v.won = won
      /\ v.key = round /\ v.situation = t.situation /\ v.reported = t.reported
      /\ v.before = t.before /\ v.after = t.after /\ v \in Trackers
  <2> HIDE DEF base, credited, peak, won
  <2> QED
    BY <1>3, <1>4 DEF Trackers
<1> HIDE DEF v
<1>6. Placed(v) /\ v.key \in 1..round
  BY <1>5 DEF TrackerTrue, Placed, GameTyped
<1>7. /\ u \in Trackers /\ Placed(u)
      /\ u.key = round /\ u.base = base /\ u.credited = credited /\ u.peak = peak
      /\ u.won = won /\ u.situation = t.situation /\ u.reported = t.reported
  <2> HIDE DEF base, credited, peak, won
  <2> QED
    BY <1>1, <1>5, <1>6, TrackScoreTrue
<1>8. ASSUME NEW p \in Players
      PROVE  Counted(u, p) /\ Credible(u, p) /\ (Exhausted(t, p) => Exhausted(u, p))
  <2>1. /\ u.base[p] = base[p] /\ u.credited[p] = credited[p] /\ u.peak[p] = peak[p]
        /\ u.situation[p] = t.situation[p]
        /\ real[round][p].kills \in Nat /\ real[round][p].faced \in Nat
    BY <1>7, PlayerTyped
  <2>2. CASE p \in new
    <3>1. u.base[p] = kills[p] /\ u.peak[p] = kills[p] /\ u.credited[p] = credits[p]
      BY <2>1, <2>2
    <3>2. p \in u.won => p \in t.won
      BY <1>7, <2>2
    <3>3. Cardinality(ClutchRounds(p, round - 1)) <= credits[p]
      BY DEF MatchInv
    <3> QED
      BY <1>2, <1>7, <2>1, <3>1, <3>2, <3>3 DEF Counted, Credible, Exhausted
  <2>3. CASE p \in old
    <3>1. /\ u.base[p] = t.base[p] /\ u.credited[p] = t.credited[p]
          /\ u.peak[p] = Bigger(t.peak[p], kills[p]) /\ t.base[p] \in Nat /\ t.base[p] # NotSeen
      BY <1>2, <2>1, <2>3
    <3>2. Counted(u, p)
      BY <1>2, <1>7, <2>1, <3>1 DEF Counted, Bigger
    <3>3. Exhausted(t, p) => Exhausted(u, p)
      BY <1>2, <1>7, <2>1, <3>1 DEF Exhausted, Bigger
    <3>4. ASSUME credits[p] > t.credited[p] PROVE real[round][p].clutch
      <4>1. Cardinality(ClutchRounds(p, round)) # Cardinality(ClutchRounds(p, round - 1))
        <5>1. /\ Cardinality(ClutchRounds(p, round - 1)) <= t.credited[p]
              /\ credits[p] <= Cardinality(ClutchRounds(p, round))
          BY <1>2 DEF Credible, MatchInv
        <5>2. round - 1 \in Nat /\ round \in Nat
          BY HighlightsAssumption DEF GameTyped
        <5>3. Cardinality(ClutchRounds(p, round)) \in Nat /\ Cardinality(ClutchRounds(p, round - 1)) \in Nat
          BY <5>2, MoreClutches DEF ClutchRounds
        <5> QED
          BY <1>2, <3>4, <5>1, <5>3
      <4>2. \A r \in 1..round : r = round \/ r \in 1..(round - 1)
        BY HighlightsAssumption DEF GameTyped
      <4>3. \A r \in 1..(round - 1) : r \in 1..round
        BY HighlightsAssumption DEF GameTyped
      <4> QED
        BY <4>1, <4>2, <4>3 DEF ClutchRounds
    <3>5. Credible(u, p)
      BY <1>2, <1>7, <2>1, <3>1, <3>4 DEF Credible
    <3> QED
      BY <3>2, <3>3, <3>5
  <2>4. CASE p \notin players
    <3>1. /\ u.base[p] = t.base[p] /\ u.credited[p] = t.credited[p] /\ u.peak[p] = t.peak[p]
      BY <2>1, <2>4
    <3>2. p \in u.won => p \in t.won
      BY <1>7, <2>4
    <3> QED
      BY <1>2, <1>7, <2>1, <3>1, <3>2 DEF Counted, Credible, Exhausted
  <2> QED
    BY <2>2, <2>3, <2>4
<1> QED
  BY <1>7, <1>8 DEF TrackerTrue, GameTyped

\* Only those who are dead are missing from a frame.
Complete(players) == players \subseteq Players /\ alive \subseteq players

\* A tracker remembers whom the last player alive was seen to face.
LEMMA WatchTrue ==
  ASSUME GameTyped, MatchInv, NEW players, Complete(players), state = "started",
         NEW t \in Trackers, TrackerTrue(t), t.key = round, NEW u, u = Watch(t, FrameOf(players))
  PROVE  /\ u \in Trackers /\ TrackerTrue(u) /\ u.key = round /\ u.reported = t.reported
         /\ \A p \in Players : Exhausted(t, p) /\ Over(p) => Exhausted(u, p)
<1> DEFINE situation == [p \in Players |->
             IF players \intersect alive = {p} THEN Bigger(t.situation[p], facing)
             ELSE t.situation[p]]
<1>1. u = [t EXCEPT !.situation = situation]
  BY DEF Watch, FrameOf
<1>2. ASSUME NEW p \in Players
      PROVE  /\ t.situation[p] \in Nat /\ facing \in Nat
             /\ Counted(t, p) /\ Credible(t, p)
  BY PlayerTyped DEF Trackers, TrackerTrue, GameTyped
<1>3. situation \in [Players -> Nat]
  BY <1>2 DEF Bigger
<1>4. /\ u.base = t.base /\ u.credited = t.credited /\ u.peak = t.peak /\ u.won = t.won
      /\ u.key = round /\ u.situation = situation /\ u.reported = t.reported
      /\ u.before = t.before /\ u.after = t.after /\ u \in Trackers
  <2> HIDE DEF situation
  <2> QED
    BY <1>1, <1>3 DEF Trackers
<1>5. Placed(u)
  BY <1>4 DEF TrackerTrue, Placed, GameTyped
<1>6. ASSUME NEW p \in Players
      PROVE  Counted(u, p) /\ Credible(u, p) /\ (Exhausted(t, p) /\ Over(p) => Exhausted(u, p))
  <2>1. u.situation[p] = IF alive = {p} THEN Bigger(t.situation[p], facing) ELSE t.situation[p]
    BY <1>4 DEF Complete
  <2>2. alive = {p} /\ Players # {p} => facing <= real[round][p].faced
    BY DEF MatchInv
  <2>3. real[round][p].faced \in Nat
    BY PlayerTyped
  <2>4. Credible(u, p)
    BY <1>2, <1>4, <2>1, <2>2, <2>3 DEF Credible, Bigger
  <2>5. Over(p) => p \notin alive
    BY DEF Over
  <2> QED
    BY <1>2, <1>4, <2>1, <2>4, <2>5 DEF Counted, Exhausted
<1> QED
  BY <1>4, <1>5, <1>6 DEF TrackerTrue, GameTyped
----------------------------------------------------------------------------
\* Reports.

\* What is told is true, and nothing can make it less so.
TrueReport(h) ==
  LET truth == real[h.round][h.player] IN
  /\ h.type \in {"E9", "E15"} /\ h.player \in Players /\ h.round \in 1..round
  /\ h.kills \in Int /\ h.kills <= truth.kills
  /\ h.against \in Nat /\ (h.against > 0 => truth.clutch /\ h.against <= truth.faced)
  /\ h.before \in {NoScore, path[h.round]}
  /\ h.after # NoScore => h.round + 1 <= Len(path) /\ h.after = path[h.round + 1]
  /\ h.round = round => Over(h.player)
OnceEach ==
  \A g, h \in reports : <<g.player, g.round>> = <<h.player, h.round>> => g = h

HighlightInv ==
  /\ GameTyped /\ MatchInv
  /\ tracker \in Trackers /\ TrackerTrue(tracker) /\ TrackerQuiet(tracker)
  /\ \A h \in reports : TrueReport(h)
  /\ OnceEach
  /\ restarts \in 0..MaxRestarts

\* A tracker that is true and quiet reports what is true and new, of those who can do
\* no more in its round.
LEMMA ReportTrue ==
  ASSUME GameTyped, MatchInv, \A h \in reports : TrueReport(h), OnceEach, UNCHANGED playedGame,
         NEW t \in Trackers, TrackerTrue(t), TrackerQuiet(t), t.key # 0,
         NEW who \in SUBSET Players, \A p \in who : t.key = round => Over(p), Report(t, who)
  PROVE  /\ \A h \in reports' : TrueReport(h)'
         /\ OnceEach'
         /\ \A h \in reports' \ reports : h.round = t.key /\ h.player \in Due(t, who)
<1>1. UNCHANGED <<round, state, kills, alive, path, real>>
  BY DEF playedGame
<1>2. \A h \in reports' \ reports : \E p \in Due(t, who) : h = Highlight(t, p)
  BY DEF Report
<1>3. t.key \in 1..round /\ t.key \in 1..LastRound /\ round \in Nat
  BY HighlightsAssumption DEF TrackerTrue, GameTyped, Trackers
<1>4. ASSUME NEW p \in Due(t, who)
      PROVE  /\ TrueReport(Highlight(t, p))
             /\ \A h \in reports : h.round # t.key \/ h.player # p
             /\ Highlight(t, p).round = t.key /\ Highlight(t, p).player = p
  <2> DEFINE h == Highlight(t, p)
  <2>1. p \in Players /\ p \in who /\ t.base[p] # NotSeen /\ p \notin t.reported /\ Worth(t, p)
    BY DEF Due, Seen
  <2>2. /\ t.base[p] \in Nat /\ t.peak[p] \in Nat /\ t.situation[p] \in Nat
        /\ Counted(t, p) /\ Credible(t, p) /\ Placed(t)
    BY <2>1 DEF Trackers, TrackerTrue
  <2>3. /\ real[t.key][p].kills \in Nat /\ real[t.key][p].faced \in Nat
        /\ real[t.key][p].clutch => real[t.key][p].faced > 0
        /\ Players = {p} => real[t.key][p].faced = 0
    <3>1. real[t.key] \in [Players -> Truths]
      BY <1>3 DEF GameTyped
    <3>2. real[t.key][p] \in Truths
      BY <2>1, <3>1
    <3> QED
      BY <1>3, <2>1, <3>2 DEF Truths, MatchInv
  <2>4. /\ h.type \in {"E9", "E15"} /\ h.player = p /\ h.round = t.key
        /\ h.kills = t.peak[p] - t.base[p] /\ h.against = ClutchOf(t, p)
        /\ h.before = t.before /\ h.after = t.after
    BY DEF Highlight
  <2>5. /\ ClutchOf(t, p) \in Nat
        /\ ClutchOf(t, p) > 0 => p \in t.won /\ ClutchOf(t, p) = t.situation[p]
    BY <2>2 DEF ClutchOf
  <2>6. ClutchOf(t, p) > 0 => real[t.key][p].clutch /\ ClutchOf(t, p) <= real[t.key][p].faced
    BY <2>2, <2>3, <2>5 DEF Credible
  <2> HIDE DEF h
  <2>7. TrueReport(h)
    BY <1>3, <2>1, <2>2, <2>3, <2>4, <2>5, <2>6 DEF TrueReport, Counted, Placed
  <2>8. \A g \in reports : g.round # t.key \/ g.player # p
    <3>1. SUFFICES ASSUME Exhausted(t, p) PROVE FALSE
      BY DEF TrackerQuiet
    <3>2. t.situation[p] = 0 /\ t.peak[p] = t.base[p]
      BY <2>1, <3>1 DEF Exhausted
    <3>3. ClutchOf(t, p) = 0
      BY <3>2 DEF ClutchOf
    <3> QED
      BY <2>1, <2>2, <3>2, <3>3, HighlightsAssumption DEF Worth
  <2> QED
    BY <2>4, <2>7, <2>8 DEF h
<1>5. \A h \in reports' : TrueReport(h)
  BY <1>2, <1>4
<1>6. \A h \in reports' : TrueReport(h)'
  BY <1>1, <1>5 DEF TrueReport, Over
<1>7. OnceEach'
  BY <1>2, <1>4 DEF OnceEach
<1>8. \A h \in reports' \ reports : h.round = t.key /\ h.player \in Due(t, who)
  BY <1>2, <1>4
<1> QED
  BY <1>6, <1>7, <1>8

\* A tracker is not less true for a new report.
LEMMA SameGame ==
  ASSUME UNCHANGED playedGame, NEW u, tracker' = u
  PROVE  /\ GameTyped => GameTyped'
         /\ MatchInv => MatchInv'
         /\ u \in Trackers => (tracker \in Trackers)'
         /\ TrackerTrue(u) => TrackerTrue(tracker)'
         /\ \A p \in Players : Exhausted(u, p) => Exhausted(tracker, p)'
<1>1. UNCHANGED <<round, state, kills, credits, alive, facing, path, real>>
  BY DEF playedGame
<1>2. \A p \in Players : Counted(u, p) /\ Credible(u, p) => Counted(tracker, p)' /\ Credible(tracker, p)'
  BY <1>1 DEF Counted, Credible, ClutchRounds
<1>3. Placed(u) => Placed(tracker)'
  BY <1>1 DEF Placed
<1> QED
  BY <1>1, <1>2, <1>3 DEF GameTyped, MatchInv, ClutchRounds, Trackers, TrackerTrue, Exhausted

\* A frame is read, and what it completes is reported.
LEMMA SeeFrameInv ==
  ASSUME HighlightInv, SeeFrame
  PROVE  HighlightInv'
<1>1. PICK players : Complete(players) /\ Observe(FrameOf(players))
  <2>1. PICK players \in {Players} \union {Players \ {p} : p \in Players \ alive} :
          Observe(FrameOf(players))
    BY DEF SeeFrame, FrameOf
  <2>2. Complete(players)
    BY DEF Complete, HighlightInv, GameTyped
  <2> QED
    BY <2>1, <2>2
<1> DEFINE f == FrameOf(players)
           start == StartOf(f)
<1>2. UNCHANGED playedGame /\ UNCHANGED restarts /\ players \in SUBSET Players
  BY <1>1 DEF SeeFrame, Complete
<1>3. /\ GameTyped /\ MatchInv /\ tracker \in Trackers /\ TrackerTrue(tracker)
      /\ TrackerQuiet(tracker) /\ OnceEach /\ (\A h \in reports : TrueReport(h))
      /\ restarts \in 0..MaxRestarts /\ (\A h \in reports : h.player \in Players)
  BY DEF HighlightInv, TrueReport
<1>4. f.round = round /\ f.state = state /\ f.score = scoreNow /\ f.players = players
  BY DEF FrameOf
<1>5. round \in Nat /\ round # 0
  BY <1>3 DEF GameTyped
<1>6. /\ start \in Trackers /\ TrackerTrue(start) /\ start.key = round
      /\ \A p \in Players : Exhausted(start, p)
  BY <1>2, <1>3, StartTrue
<1>7. ASSUME tracker' = start, OnceEach', \A h \in reports' : TrueReport(h)'
      PROVE  HighlightInv'
  <2> HIDE DEF start
  <2>1. \A p \in Players : Exhausted(tracker, p)'
    BY <1>2, <1>6, <1>7, SameGame
  <2>2. TrackerQuiet(tracker)'
    BY <1>7, <2>1 DEF TrackerQuiet, TrueReport
  <2>3. GameTyped' /\ MatchInv' /\ (tracker \in Trackers)' /\ TrackerTrue(tracker)'
    BY <1>2, <1>3, <1>6, <1>7, SameGame
  <2> QED
    BY <1>2, <1>3, <1>7, <2>2, <2>3 DEF HighlightInv
<1>8. ASSUME UNCHANGED reports PROVE OnceEach' /\ \A h \in reports' : TrueReport(h)'
  BY <1>2, <1>3, <1>8 DEF playedGame, OnceEach, TrueReport, Over
<1>9. CASE tracker' = start /\ UNCHANGED reports
  BY <1>7, <1>8, <1>9
<1>10. CASE /\ tracker.key # 0 /\ tracker.key # round
            /\ Report(Leaving(f), Seen(Leaving(f))) /\ tracker' = start
  <2> DEFINE t == Leaving(f)
  <2>1. t = tracker \/ t = TrackScore(tracker, scoreNow)
    BY <1>4 DEF Leaving
  <2>2. tracker.key \in 1..round /\ Placed(tracker)
    BY <1>3, <1>5, <1>10 DEF TrackerTrue, Trackers
  <2>3. /\ t \in Trackers /\ Placed(t)
        /\ t.key = tracker.key /\ t.base = tracker.base /\ t.credited = tracker.credited
        /\ t.peak = tracker.peak /\ t.won = tracker.won /\ t.situation = tracker.situation
        /\ t.reported = tracker.reported
    <3> HIDE DEF t
    <3> QED
      BY <1>3, <2>1, <2>2, TrackScoreTrue
  <2> HIDE DEF t
  <2>4. TrackerTrue(t) /\ TrackerQuiet(t)
    BY <1>3, <1>10, <2>3 DEF TrackerTrue, TrackerQuiet, Counted, Credible, Exhausted
  <2>5. Seen(t) \in SUBSET Players /\ t.key # 0 /\ t.key # round
    BY <1>10, <2>3 DEF Seen
  <2>6. OnceEach' /\ \A h \in reports' : TrueReport(h)'
    <3>1. Report(t, Seen(t))
      BY <1>10 DEF t
    <3> QED
      BY <1>2, <1>3, <2>3, <2>4, <2>5, <3>1, ReportTrue
  <2> QED
    BY <1>7, <1>10, <2>6
<1>11. ASSUME tracker.key = round, state # "warmup",
              NEW t, \/ state = "started" /\ t = Watch(Track(tracker, f), f)
                     \/ state # "started" /\ t = Track(tracker, f),
              NEW who, who = CASE state = "started" -> Settled(t, f)
                               [] state = "ended" -> Seen(t)
                               [] OTHER -> {},
              Report(t, who), tracker' = Reported(t, who)
       PROVE  HighlightInv'
  <2> DEFINE u == Track(tracker, f)
  <2>1. /\ u \in Trackers /\ TrackerTrue(u) /\ u.key = round
        /\ \A p \in Players : Exhausted(tracker, p) => Exhausted(u, p)
    BY <1>2, <1>3, <1>11, TrackTrue
  <2> HIDE DEF u
  <2>2. /\ t \in Trackers /\ TrackerTrue(t) /\ t.key = round
        /\ \A p \in Players : Exhausted(tracker, p) /\ Over(p) => Exhausted(t, p)
    <3>1. CASE state # "started"
      BY <1>11, <2>1, <3>1 DEF u
    <3>2. CASE state = "started"
      <4>1. t = Watch(u, f)
        BY <1>11, <3>2 DEF u
      <4> QED
        BY <1>1, <1>3, <2>1, <3>2, <4>1, WatchTrue
    <3> QED
      BY <3>1, <3>2
  <2>3. TrackerQuiet(t)
    BY <1>3, <1>5, <1>11, <2>2 DEF TrackerQuiet, TrueReport
  <2>4. who \in SUBSET Players /\ \A p \in who : Over(p)
    <3>1. CASE state = "started"
      <4>1. who = Settled(t, f)
        BY <1>11, <3>1
      <4> QED
        BY <1>2, <1>4, <3>1, <4>1 DEF Settled, Over
    <3>2. CASE state = "ended"
      <4>1. who = Seen(t)
        BY <1>11, <3>2
      <4> QED
        BY <3>2, <4>1 DEF Seen, Over
    <3>3. CASE state # "started" /\ state # "ended"
      BY <1>11, <3>3
    <3> QED
      BY <3>1, <3>2, <3>3
  <2>5. /\ OnceEach' /\ (\A h \in reports' : TrueReport(h)')
        /\ \A h \in reports' \ reports : h.round = t.key /\ h.player \in Due(t, who)
    BY <1>2, <1>3, <1>5, <1>11, <2>2, <2>3, <2>4, ReportTrue
  <2> DEFINE v == Reported(t, who)
  <2>6. /\ v \in Trackers /\ v.key = t.key /\ v.base = t.base /\ v.credited = t.credited
        /\ v.peak = t.peak /\ v.won = t.won /\ v.situation = t.situation
        /\ v.before = t.before /\ v.after = t.after
        /\ v.reported = t.reported \union Due(t, who)
    <3>1. t.reported \union Due(t, who) \in SUBSET Players
      BY <2>2, <2>4 DEF Due, Trackers
    <3> DEFINE reported == t.reported \union Due(t, who)
    <3>2. v = [t EXCEPT !.reported = reported]
      BY DEF Reported
    <3> HIDE DEF v, reported
    <3>3. /\ v \in Trackers /\ v.key = t.key /\ v.base = t.base /\ v.credited = t.credited
          /\ v.peak = t.peak /\ v.won = t.won /\ v.situation = t.situation
          /\ v.before = t.before /\ v.after = t.after /\ v.reported = reported
      <4>1. reported \in SUBSET Players
        BY <3>1 DEF reported
      <4> QED
        BY <2>2, <3>2, <4>1 DEF Trackers
    <3> QED
      BY <3>3 DEF reported
  <2>7. tracker' = v
    BY <1>11
  <2> HIDE DEF v
  <2>8. TrackerTrue(v)
    BY <2>2, <2>6 DEF TrackerTrue, Counted, Credible, Placed
  <2>9. ASSUME NEW h \in reports', h.round = v.key PROVE Exhausted(v, h.player)
    <3>1. CASE h \in reports
      <4>1. Exhausted(t, h.player)
        BY <1>5, <2>2, <2>3, <2>6, <2>9, <3>1 DEF TrackerQuiet
      <4> QED
        BY <2>6, <4>1 DEF Exhausted
    <3>2. CASE h \notin reports
      BY <2>5, <2>6, <3>2 DEF Exhausted
    <3> QED
      BY <3>1, <3>2
  <2>10. GameTyped' /\ MatchInv' /\ (tracker \in Trackers)' /\ TrackerTrue(tracker)'
    BY <1>2, <1>3, <2>6, <2>7, <2>8, SameGame
  <2>11. TrackerQuiet(tracker)'
    <3>1. \A p \in Players : Exhausted(v, p) => Exhausted(tracker, p)'
      BY <1>2, <2>7, SameGame
    <3>2. \A h \in reports' : h.player \in Players
      BY <2>5 DEF TrueReport
    <3> QED
      BY <2>7, <2>9, <3>1, <3>2 DEF TrackerQuiet
  <2> QED
    BY <1>2, <1>3, <2>5, <2>10, <2>11 DEF HighlightInv
<1> QED
  <2>1. CASE tracker.key # round
    BY <1>1, <1>4, <1>9, <1>10, <2>1 DEF Observe
  <2>2. CASE tracker.key = round /\ state = "warmup"
    BY <1>1, <1>4, <1>9, <2>2 DEF Observe
  <2>3. CASE tracker.key = round /\ state # "warmup"
    <3> DEFINE t == IF f.state = "started" THEN Watch(Track(tracker, f), f) ELSE Track(tracker, f)
               who == CASE f.state = "started" -> Settled(t, f)
                        [] f.state = "ended" -> Seen(t)
                        [] OTHER -> {}
    <3>1. Report(t, who) /\ tracker' = Reported(t, who)
      <4> HIDE DEF f
      <4> QED
        BY <1>1, <1>4, <2>3 DEF Observe, f
    <3>2. /\ \/ state = "started" /\ t = Watch(Track(tracker, f), f)
             \/ state # "started" /\ t = Track(tracker, f)
          /\ who = CASE state = "started" -> Settled(t, f)
                     [] state = "ended" -> Seen(t)
                     [] OTHER -> {}
      <4> HIDE DEF f
      <4> QED
        BY <1>4
    <3> HIDE DEF t, who, f
    <3> QED
      BY <1>11, <2>3, <3>1, <3>2
  <2> QED
    BY <2>1, <2>2, <2>3

\* What the game does leaves what was seen of it true.
LEMMA GameKeepsTruth ==
  ASSUME HighlightInv, GameTyped', MatchInv', GameMoves, restarts' = restarts
  PROVE  HighlightInv'
<1>1. /\ GameTyped /\ MatchInv /\ tracker \in Trackers /\ TrackerTrue(tracker)
      /\ TrackerQuiet(tracker) /\ OnceEach /\ (\A h \in reports : TrueReport(h))
      /\ UNCHANGED <<tracker, reports>>
  BY DEF HighlightInv, GameMoves
<1>2. /\ round \in Nat /\ round' \in Nat /\ round <= round' /\ round <= LastRound
      /\ LastRound \in Nat /\ Len(path) \in Nat /\ Len(path') \in Nat
      /\ Len(path) <= Len(path') /\ round <= Len(path)
  <2>1. /\ round \in 1..LastRound /\ round' \in 1..LastRound /\ LastRound \in Nat
        /\ Len(path) \in Nat /\ Len(path') \in Nat
    BY <1>1, HighlightsAssumption DEF GameTyped
  <2>2. round <= round' /\ Len(path) <= Len(path')
    BY DEF GameMoves, PathGrows
  <2>3. Len(path) = round \/ Len(path) = round + 1
    BY <1>1 DEF MatchInv
  <2> QED
    BY <2>1, <2>2, <2>3
<1>3. ASSUME NEW r \in 1..LastRound, NEW p \in Players
      PROVE  /\ real[r][p].kills \in Nat /\ real'[r][p].kills \in Nat
             /\ real[r][p].faced \in Nat /\ real'[r][p].faced \in Nat
             /\ real[r][p].kills <= real'[r][p].kills /\ real[r][p].faced <= real'[r][p].faced
             /\ real[r][p].clutch => real'[r][p].clutch
             /\ r # round => real'[r][p].clutch = real[r][p].clutch
  <2>1. real[r][p] \in Truths /\ real'[r][p] \in Truths
    BY <1>1 DEF GameTyped
  <2> QED
    BY <2>1 DEF Truths, GameMoves, TruthGrows
<1>4. \A i \in 1..Len(path) : path'[i] = path[i]
  BY DEF GameMoves, PathGrows
<1>5. round' = round => \A p \in Players : PlayerMoves(p)
  BY DEF GameMoves
<1>6. ASSUME NEW h \in reports PROVE TrueReport(h)'
  <2>1. TrueReport(h) /\ h.round \in 1..LastRound /\ h.round \in 1..Len(path)
    BY <1>1, <1>2 DEF TrueReport
  <2>2. h.round + 1 <= Len(path) => path'[h.round + 1] = path[h.round + 1] /\ h.round + 1 <= Len(path')
    BY <1>2, <1>4, <2>1
  <2>3. path'[h.round] = path[h.round] /\ h.round \in 1..round'
    BY <1>2, <1>4, <2>1 DEF TrueReport
  <2>4. /\ h.kills <= real'[h.round][h.player].kills
        /\ h.against > 0 => /\ real'[h.round][h.player].clutch
                            /\ h.against <= real'[h.round][h.player].faced
    <3>1. /\ h.player \in Players /\ h.kills \in Int /\ h.against \in Nat
          /\ h.kills <= real[h.round][h.player].kills
          /\ h.against > 0 => /\ real[h.round][h.player].clutch
                              /\ h.against <= real[h.round][h.player].faced
      BY <2>1 DEF TrueReport
    <3>2. \A a \in Int, b, c \in Nat : a <= b /\ b <= c => a <= c
      OBVIOUS
    <3>3. /\ real[h.round][h.player].kills <= real'[h.round][h.player].kills
          /\ real[h.round][h.player].faced <= real'[h.round][h.player].faced
          /\ {real[h.round][h.player].kills, real'[h.round][h.player].kills,
              real[h.round][h.player].faced, real'[h.round][h.player].faced} \subseteq Nat
          /\ real[h.round][h.player].clutch => real'[h.round][h.player].clutch
      BY <1>3, <2>1, <3>1
    <3> QED
      BY <3>1, <3>2, <3>3
  <2>5. h.round = round' => Over(h.player)'
    BY <1>2, <1>5, <2>1 DEF TrueReport, PlayerMoves
  <2> QED
    BY <2>1, <2>2, <2>3, <2>4, <2>5 DEF TrueReport
<1>7. CASE tracker.key = 0
  BY <1>1, <1>6, <1>7 DEF HighlightInv, TrackerTrue, TrackerQuiet, OnceEach, Trackers
<1>8. CASE tracker.key # 0
  <2>1. tracker.key \in 1..LastRound /\ tracker.key \in 1..Len(path) /\ tracker.key <= round
    BY <1>1, <1>2, <1>8 DEF TrackerTrue, Trackers
  <2>2. Placed(tracker)'
    <3>1. Placed(tracker)
      BY <1>1, <1>8 DEF TrackerTrue
    <3>2. path'[tracker.key] = path[tracker.key]
      BY <1>4, <2>1
    <3>3. tracker.key + 1 <= Len(path) =>
            tracker.key + 1 <= Len(path') /\ path'[tracker.key + 1] = path[tracker.key + 1]
      BY <1>2, <1>4, <2>1
    <3> QED
      BY <1>1, <3>1, <3>2, <3>3 DEF Placed
  <2>3. ASSUME NEW p \in Players PROVE Counted(tracker, p)' /\ Credible(tracker, p)'
    <3>1. /\ Counted(tracker, p) /\ Credible(tracker, p)
          /\ tracker.base[p] \in Nat \union {NotSeen} /\ tracker.peak[p] \in Nat
          /\ tracker.credited[p] \in Nat /\ tracker.situation[p] \in Nat
      BY <1>1, <1>8 DEF TrackerTrue, Trackers
    <3>2. tracker.key = round' => round' = round /\ tracker.key = round
      BY <1>2, <2>1
    <3>3. kills[p] \in Nat /\ kills'[p] \in Nat
      BY <1>1 DEF GameTyped
    <3>4. ASSUME tracker.key = round', state' # "warmup", tracker.base[p] # NotSeen
          PROVE  kills'[p] - real'[round'][p].kills <= tracker.base[p]
      <4>1. PlayerMoves(p) /\ round' = round /\ tracker.base[p] \in Nat
        BY <1>5, <3>1, <3>2, <3>4
      <4>2. real[round][p].kills \in Nat /\ real'[round][p].kills \in Nat
        BY <1>3, <2>1, <3>2, <3>4
      <4>3. CASE state = "warmup"
        <5>1. kills'[p] = 0
          BY <3>4, <4>1, <4>3 DEF PlayerMoves
        <5> QED
          BY <4>1, <4>2, <5>1
      <4>4. CASE state # "warmup"
        <5>1. /\ kills'[p] - real'[round][p].kills <= kills[p] - real[round][p].kills
              /\ kills[p] - real[round][p].kills <= tracker.base[p]
          BY <3>1, <3>2, <3>4, <4>1, <4>4 DEF PlayerMoves, Counted
        <5> QED
          BY <3>3, <4>1, <4>2, <5>1
      <4> QED
        BY <4>3, <4>4
    <3>5. Counted(tracker, p)'
      <4>1. tracker.base[p] # NotSeen =>
              tracker.peak[p] - tracker.base[p] <= real'[tracker.key][p].kills
        BY <1>3, <2>1, <3>1 DEF Counted
      <4> QED
        BY <1>1, <3>4, <4>1 DEF Counted
    <3>6. ASSUME tracker.key = round'
          PROVE  Cardinality(ClutchRounds(p, round - 1)') <= tracker.credited[p]
      <4>1. round' = round /\ tracker.key = round
        BY <3>2, <3>6
      <4>2. round - 1 \in Int /\ round - 1 <= LastRound
        BY <1>2
      <4>3. \A r \in 1..LastRound, k \in Players : r <= round - 1 => real'[r][k].clutch = real[r][k].clutch
        BY <1>2, <1>3
      <4>4. ClutchRounds(p, round - 1)' = ClutchRounds(p, round - 1)
        BY <4>1, <4>2, <4>3, SameClutches DEF ClutchRounds
      <4> QED
        BY <3>1, <4>1, <4>4 DEF Credible
    <3>7. Credible(tracker, p)'
      <4>1. p \in tracker.won => real'[tracker.key][p].clutch
        BY <1>3, <2>1, <3>1 DEF Credible
      <4>2. tracker.situation[p] <= real'[tracker.key][p].faced \/ Players = {p}
        BY <1>3, <2>1, <3>1 DEF Credible
      <4> QED
        BY <1>1, <3>6, <4>1, <4>2 DEF Credible
    <3> QED
      BY <3>5, <3>7
  <2>4. TrackerTrue(tracker)'
    BY <1>1, <1>2, <2>1, <2>2, <2>3 DEF TrackerTrue
  <2>5. TrackerQuiet(tracker)'
    <3>1. ASSUME NEW h \in reports, h.round = tracker.key PROVE Exhausted(tracker, h.player)'
      <4>1. Exhausted(tracker, h.player) /\ TrueReport(h) /\ h.player \in Players
        BY <1>1, <1>8, <3>1 DEF TrackerQuiet, TrueReport
      <4>2. /\ kills[h.player] \in Nat /\ kills'[h.player] \in Nat
            /\ tracker.base[h.player] \in Nat \union {NotSeen}
        BY <1>1, <4>1 DEF GameTyped, Trackers
      <4>3. tracker.key = round' => tracker.key = round /\ kills'[h.player] <= kills[h.player]
        BY <1>2, <1>5, <2>1, <3>1, <4>1 DEF TrueReport, PlayerMoves
      <4> QED
        BY <1>1, <4>1, <4>2, <4>3 DEF Exhausted
    <3> QED
      BY <1>1, <3>1 DEF TrackerQuiet
  <2> QED
    BY <1>1, <1>6, <2>4, <2>5 DEF HighlightInv, OnceEach, Trackers
<1> QED
  BY <1>7, <1>8

\* The invariant holds initially, and each step keeps it.
LEMMA HighlightInitInv == HighlightsInit => HighlightInv
<1> SUFFICES ASSUME HighlightsInit PROVE HighlightInv
  OBVIOUS
<1>1. tracker = NewTracker /\ reports = {} /\ restarts = 0
  BY DEF HighlightsInit
<1>2. NewTracker \in Trackers /\ NewTracker.key = 0
  BY NewTrackerTyped
<1> QED
  BY <1>1, <1>2, GameInitInv, HighlightsAssumption
     DEF HighlightInv, TrackerTrue, TrackerQuiet, OnceEach

\* By the lemma of each move.
LEMMA HighlightNextInv ==
  ASSUME HighlightInv, [HighlightsNext]_highlightsVars
  PROVE  HighlightInv'
<1>1. GameTyped /\ MatchInv
  BY DEF HighlightInv
<1>2. CASE SeeFrame
  BY <1>2, SeeFrameInv
<1>3. CASE Forget
  <2>1. UNCHANGED playedGame /\ tracker' = NewTracker /\ UNCHANGED reports
        /\ restarts' \in 0..MaxRestarts
    BY <1>3, HighlightsAssumption DEF Forget, HighlightInv
  <2>2. NewTracker \in Trackers /\ NewTracker.key = 0
    BY NewTrackerTyped
  <2>3. GameTyped' /\ MatchInv' /\ (tracker \in Trackers)'
    BY <1>1, <2>1, <2>2, SameGame
  <2>4. \A h \in reports' : TrueReport(h)'
    BY <2>1 DEF HighlightInv, TrueReport, Over, playedGame
  <2> QED
    BY <2>1, <2>2, <2>3, <2>4 DEF HighlightInv, TrackerTrue, TrackerQuiet, OnceEach
<1>4. CASE BeginRound
  BY <1>1, <1>4, BeginRoundMoves, GameKeepsTruth DEF BeginRound
<1>5. CASE FinishRound
  BY <1>1, <1>5, FinishRoundMoves, GameKeepsTruth DEF FinishRound
<1>6. CASE Freeze
  BY <1>1, <1>6, FreezeMoves, GameKeepsTruth DEF Freeze
<1>7. ASSUME NEW p \in Players, WarmupKill(p) PROVE HighlightInv'
  BY <1>1, <1>7, WarmupKillMoves, GameKeepsTruth DEF WarmupKill
<1>8. ASSUME NEW p \in Players, Kill(p) PROVE HighlightInv'
  BY <1>1, <1>8, KillMoves, GameKeepsTruth DEF Kill
<1>9. ASSUME NEW p \in Players, Die(p) PROVE HighlightInv'
  BY <1>1, <1>9, DieMoves, GameKeepsTruth DEF Die
<1>10. ASSUME NEW p \in Players, Credit(p) PROVE HighlightInv'
  BY <1>1, <1>10, CreditMoves, GameKeepsTruth DEF Credit
<1>11. ASSUME NEW p \in Players, SwapSides(p) PROVE HighlightInv'
  BY <1>1, <1>11, SwapSidesMoves, GameKeepsTruth DEF SwapSides
<1>12. CASE UNCHANGED highlightsVars
  <2>1. UNCHANGED playedGame /\ UNCHANGED <<tracker, reports, restarts>>
    BY <1>12 DEF highlightsVars
  <2>2. /\ GameTyped' /\ MatchInv' /\ (tracker \in Trackers)' /\ TrackerTrue(tracker)'
        /\ \A p \in Players : Exhausted(tracker, p) => Exhausted(tracker, p)'
    BY <1>1, <2>1, SameGame DEF HighlightInv
  <2>3. \A h \in reports' : TrueReport(h)'
    BY <2>1 DEF HighlightInv, TrueReport, Over, playedGame
  <2>4. \A h \in reports : h.player \in Players
    BY DEF HighlightInv, TrueReport
  <2> QED
    BY <2>1, <2>2, <2>3, <2>4 DEF HighlightInv, TrackerQuiet, OnceEach
<1> QED
  BY <1>2, <1>3, <1>4, <1>5, <1>6, <1>7, <1>8, <1>9, <1>10, <1>11, <1>12 DEF HighlightsNext

\* Whatever is played, seen, missed and forgotten: the tracker counts no more than was
\* done, and what was reported is true.
THEOREM HighlightInvariant == HighlightsSpec => []HighlightInv
  BY HighlightInitInv, HighlightNextInv, PTL DEF HighlightsSpec

\* No highlight is invented, exaggerated, put to another round or told twice.
THEOREM HighlightsHold == HighlightsSpec => []HighlightsAreReal
<1>1. HighlightInv => HighlightsAreReal
  BY DEF HighlightInv, HighlightsAreReal, TrueReport, OnceEach
<1> QED
  BY <1>1, HighlightInvariant, PTL

\* The variables keep their types.
THEOREM HighlightsTypeCorrect == HighlightsSpec => []HighlightsTypeOK
<1>1. HighlightInv => HighlightsTypeOK
  <2> SUFFICES ASSUME HighlightInv PROVE HighlightsTypeOK
    OBVIOUS
  <2>1. /\ round \in 1..LastRound /\ state \in RoundStates
        /\ kills \in [Players -> Nat] /\ credits \in [Players -> Nat]
        /\ alive \subseteq Players /\ facing \in 0..Opponents /\ restarts \in 0..MaxRestarts
        /\ Len(path) \in {round, round + 1}
    BY DEF HighlightInv, GameTyped, MatchInv
  <2>2. tracker.key \in 0..round /\ DOMAIN tracker = DOMAIN NewTracker
    <3>1. tracker \in Trackers /\ (tracker.key # 0 => tracker.key <= round)
      BY DEF HighlightInv, TrackerTrue
    <3> QED
      BY <2>1, <3>1, HighlightsAssumption DEF Trackers, NewTracker
  <2>3. \A h \in reports : h.type \in {"E9", "E15"} /\ h.player \in Players
    BY DEF HighlightInv, TrueReport
  <2> QED
    BY <2>1, <2>2, <2>3 DEF HighlightsTypeOK
<1> QED
  BY <1>1, HighlightInvariant, PTL
----------------------------------------------------------------------------
\* ScorePairs of a map.

Winners == {"W", "L"}
Letters == {"W", "L", "?"}
Pairs == Nat \X Nat

\* The rounds a side won, of the first n.
WonOf(n, side) == {i \in 1..n : outcomes[i] = side}

\* A pair is a sequence of two.
LEMMA PairsAreScores ==
  \A s \in Pairs : s # <<>> /\ Len(s) = 2 /\ s = <<s[1], s[2]>> /\ s[1] \in Nat /\ s[2] \in Nat
<1>1. ASSUME NEW s \in Pairs
      PROVE  s # <<>> /\ Len(s) = 2 /\ s = <<s[1], s[2]>> /\ s[1] \in Nat /\ s[2] \in Nat
  <2>1. s = <<s[1], s[2]>> /\ s[1] \in Nat /\ s[2] \in Nat
    BY DEF Pairs
  <2>2. Len(<<s[1], s[2]>>) = 2 /\ Len(<<>>) = 0
    OBVIOUS
  <2> QED
    BY <2>1, <2>2
<1> QED
  BY <1>1

\* A score counts the rounds of each side.
LEMMA ScoreOf ==
  ASSUME outcomes \in Seq(Winners), NEW n \in 0..Len(outcomes)
  PROVE  /\ ScoreAfter(n) = <<Cardinality(WonOf(n, "W")), Cardinality(WonOf(n, "L"))>>
         /\ \A side \in Winners : IsFiniteSet(WonOf(n, side)) /\ Cardinality(WonOf(n, side)) \in Nat
<1> DEFINE part == SubSeq(outcomes, 1, n)
<1>1. DOMAIN part = 1..n /\ \A i \in 1..n : part[i] = outcomes[i]
  OBVIOUS
<1>2. \A side : Won(part, side) = WonOf(n, side)
  BY <1>1 DEF Won, WonOf
<1>3. IsFiniteSet(1..n)
  BY FS_Interval
<1>4. \A side : WonOf(n, side) \subseteq 1..n
  BY DEF WonOf
<1>5. \A side : IsFiniteSet(WonOf(n, side))
  BY <1>3, <1>4, FS_Subset
<1> QED
  BY <1>2, <1>5, FS_CardinalityType DEF ScoreAfter, Tally

\* A score tells how many rounds were played, and two in a row who won the last.
LEMMA ScoreSteps ==
  ASSUME outcomes \in Seq(Winners), NEW n \in 0..Len(outcomes)
  PROVE  /\ ScoreAfter(n) \in Pairs /\ Sum2(ScoreAfter(n)) = n
         /\ n > 0 =>
              \/ /\ outcomes[n] = "W"
                 /\ ScoreAfter(n) = <<ScoreAfter(n - 1)[1] + 1, ScoreAfter(n - 1)[2]>>
              \/ /\ outcomes[n] = "L"
                 /\ ScoreAfter(n) = <<ScoreAfter(n - 1)[1], ScoreAfter(n - 1)[2] + 1>>
<1>1. /\ ScoreAfter(n) = <<Cardinality(WonOf(n, "W")), Cardinality(WonOf(n, "L"))>>
      /\ IsFiniteSet(WonOf(n, "W")) /\ Cardinality(WonOf(n, "W")) \in Nat
      /\ IsFiniteSet(WonOf(n, "L")) /\ Cardinality(WonOf(n, "L")) \in Nat
  BY ScoreOf DEF Winners
<1>2. ScoreAfter(n) \in Pairs
  BY <1>1 DEF Pairs
<1>3. Sum2(ScoreAfter(n)) = n
  <2>1. Cardinality(1..n) = n
    BY FS_Interval
  <2>2. WonOf(n, "W") \union WonOf(n, "L") = 1..n /\ WonOf(n, "W") \intersect WonOf(n, "L") = {}
    BY DEF WonOf, Winners
  <2>3. Cardinality(WonOf(n, "W") \union WonOf(n, "L")) =
          Cardinality(WonOf(n, "W")) + Cardinality(WonOf(n, "L"))
            - Cardinality(WonOf(n, "W") \intersect WonOf(n, "L"))
    BY <1>1, FS_Union
  <2>4. Cardinality(WonOf(n, "W") \intersect WonOf(n, "L")) = 0
    BY <2>2, FS_EmptySet
  <2>5. Cardinality(WonOf(n, "W")) + Cardinality(WonOf(n, "L")) = n
    <3>1. Cardinality(WonOf(n, "W") \union WonOf(n, "L")) = Cardinality(1..n)
      BY <2>2
    <3>2. \A w, l, z \in Nat : w + l - z = n /\ z = 0 => w + l = n
      OBVIOUS
    <3> QED
      BY <1>1, <2>1, <2>3, <2>4, <3>1, <3>2
  <2> QED
    BY <1>1, <2>5 DEF Sum2
<1>4. ASSUME n > 0
      PROVE  \/ /\ outcomes[n] = "W"
                /\ ScoreAfter(n) = <<ScoreAfter(n - 1)[1] + 1, ScoreAfter(n - 1)[2]>>
             \/ /\ outcomes[n] = "L"
                /\ ScoreAfter(n) = <<ScoreAfter(n - 1)[1], ScoreAfter(n - 1)[2] + 1>>
  <2>1. n - 1 \in 0..Len(outcomes) /\ n \notin 1..(n - 1) /\ 1..n = 1..(n - 1) \union {n}
        /\ outcomes[n] \in Winners
    BY <1>4
  <2>2. /\ ScoreAfter(n - 1) = <<Cardinality(WonOf(n - 1, "W")), Cardinality(WonOf(n - 1, "L"))>>
        /\ IsFiniteSet(WonOf(n - 1, "W")) /\ IsFiniteSet(WonOf(n - 1, "L"))
    BY <2>1, ScoreOf DEF Winners
  <2>3. ASSUME NEW side \in Winners, NEW other \in Winners, other # side, outcomes[n] = side
        PROVE  /\ Cardinality(WonOf(n, side)) = Cardinality(WonOf(n - 1, side)) + 1
               /\ Cardinality(WonOf(n, other)) = Cardinality(WonOf(n - 1, other))
    <3>1. WonOf(n, side) = WonOf(n - 1, side) \union {n} /\ WonOf(n, other) = WonOf(n - 1, other)
          /\ n \notin WonOf(n - 1, side)
      BY <2>1, <2>3 DEF WonOf
    <3>2. IsFiniteSet(WonOf(n - 1, side))
      BY <2>2 DEF Winners
    <3> QED
      BY <3>1, <3>2, FS_AddElement
  <2>4. CASE outcomes[n] = "W"
    <3>1. /\ Cardinality(WonOf(n, "W")) = Cardinality(WonOf(n - 1, "W")) + 1
          /\ Cardinality(WonOf(n, "L")) = Cardinality(WonOf(n - 1, "L"))
      BY <2>3, <2>4 DEF Winners
    <3> QED
      BY <1>1, <2>2, <2>4, <3>1
  <2>5. CASE outcomes[n] = "L"
    <3>1. /\ Cardinality(WonOf(n, "L")) = Cardinality(WonOf(n - 1, "L")) + 1
          /\ Cardinality(WonOf(n, "W")) = Cardinality(WonOf(n - 1, "W"))
      BY <2>3, <2>5 DEF Winners
    <3> QED
      BY <1>1, <2>2, <2>5, <3>1
  <2> QED
    BY <2>1, <2>4, <2>5 DEF Winners
<1> QED
  BY <1>2, <1>3, <1>4

\* The score now is the score after the last round.
LEMMA NowIsLast ==
  ASSUME outcomes \in Seq(Winners)
  PROVE  /\ Now = ScoreAfter(Len(outcomes)) /\ Now \in Pairs /\ Sum2(Now) = Len(outcomes)
         /\ Len(outcomes) \in Nat
<1>1. SubSeq(outcomes, 1, Len(outcomes)) = outcomes /\ Len(outcomes) \in 0..Len(outcomes)
      /\ Len(outcomes) \in Nat
  OBVIOUS
<1>2. Now = ScoreAfter(Len(outcomes))
  BY <1>1 DEF Now, ScoreAfter
<1> QED
  BY <1>1, <1>2, ScoreSteps

\* A round more changes no score before it.
LEMMA ScoresStay ==
  ASSUME outcomes \in Seq(Winners), NEW side \in Winners, outcomes' = Append(outcomes, side)
  PROVE  /\ outcomes' \in Seq(Winners) /\ Len(outcomes') = Len(outcomes) + 1
         /\ \A i \in 1..Len(outcomes) : outcomes'[i] = outcomes[i]
         /\ \A n \in 0..Len(outcomes) : Tally(SubSeq(outcomes', 1, n)) = ScoreAfter(n)
<1>1. /\ outcomes' \in Seq(Winners) /\ Len(outcomes') = Len(outcomes) + 1
      /\ \A i \in 1..Len(outcomes) : outcomes'[i] = outcomes[i]
  OBVIOUS
<1>2. ASSUME NEW n \in 0..Len(outcomes)
      PROVE  SubSeq(outcomes', 1, n) = SubSeq(outcomes, 1, n)
  BY <1>1
<1> QED
  BY <1>1, <1>2 DEF ScoreAfter
----------------------------------------------------------------------------
\* The rounds.

StoryTyped ==
  /\ outcomes \in Seq(Winners) /\ Len(outcomes) <= MaxRounds
  /\ {fresh, confused} \subseteq BOOLEAN
  /\ resets \in 0..MaxResets /\ processes \in 0..MaxProcesses

\* A history as it is kept: as many letters as its score has rounds.
Kept(known) ==
  /\ known.rounds \in Seq(Letters)
  /\ \/ known.score = <<>> /\ known.rounds = <<>>
     \/ known.score \in Pairs /\ Sum2(known.score) = Len(known.rounds)

\* One that was read of this attempt at the map.
OfThisMap(known) ==
  /\ Len(known.rounds) <= Len(outcomes)
  /\ \A i \in 1..Len(known.rounds) : known.rounds[i] \in {"?", outcomes[i]}
  /\ known.score # <<>> => known.score = ScoreAfter(Len(known.rounds))

HistoryInv == Kept(history) /\ (~fresh /\ ~confused => OfThisMap(history))

\* An empty history tells nothing false.
LEMMA NoHistoryIsTrue ==
  ASSUME outcomes \in Seq(Winners) PROVE Kept(NoHistory) /\ OfThisMap(NoHistory)
<1>1. <<>> \in Seq(Letters) /\ Len(<<>>) = 0 /\ Len(outcomes) \in Nat
  OBVIOUS
<1> QED
  BY <1>1 DEF NoHistory, Kept, OfThisMap

\* A padded history is as long as asked and unknown at its end.
LEMMA PaddedIsSeq ==
  ASSUME NEW rounds \in Seq(Letters), NEW n \in Nat
  PROVE  /\ Padded(rounds, n) \in Seq(Letters) /\ Len(Padded(rounds, n)) = n
         /\ \A i \in 1..n : Padded(rounds, n)[i] = IF i <= Len(rounds) THEN rounds[i] ELSE "?"
<1>1. \A i \in 1..n : (IF i <= Len(rounds) THEN rounds[i] ELSE "?") \in Letters
  BY DEF Letters
<1> QED
  BY <1>1 DEF Padded

\* What is added to a history of n rounds by one score more is a letter of the map.
LEMMA SteppedIsTrue ==
  ASSUME outcomes \in Seq(Winners), NEW known, Kept(known),
         NEW n, n = Len(outcomes), NEW stepped, stepped = Stepped(known, Now, n)
  PROVE  /\ stepped \in Seq(Letters) /\ Len(stepped) = n
         /\ OfThisMap(known) => \A i \in 1..n : stepped[i] \in {"?", outcomes[i]}
<1> DEFINE old == IF known.score = <<>> /\ n = 1 THEN <<0, 0>> ELSE known.score
           letter == IF old = <<>> THEN "?"
                     ELSE CASE <<Now[1] - old[1], Now[2] - old[2]>> = <<1, 0>> -> "W"
                            [] <<Now[1] - old[1], Now[2] - old[2]>> = <<0, 1>> -> "L"
                            [] OTHER -> "?"
           rounds == Padded(known.rounds, n)
<1>1. stepped = IF letter = "?" THEN rounds ELSE [rounds EXCEPT ![n] = letter]
  BY DEF Stepped
<1>2. letter \in Letters
  BY DEF Letters
<1>3. n \in Nat /\ Now \in Pairs /\ Now = ScoreAfter(n) /\ Sum2(Now) = n
  BY NowIsLast
<1>4. /\ rounds \in Seq(Letters) /\ Len(rounds) = n
      /\ \A i \in 1..n : rounds[i] = IF i <= Len(known.rounds) THEN known.rounds[i] ELSE "?"
  BY <1>3, PaddedIsSeq DEF Kept
<1>5. /\ stepped \in Seq(Letters) /\ Len(stepped) = n
      /\ \A i \in 1..n : stepped[i] = IF i = n /\ letter # "?" THEN letter ELSE rounds[i]
  <2> HIDE DEF letter, rounds
  <2>1. CASE letter = "?"
    BY <1>1, <1>4, <2>1
  <2>2. CASE letter # "?"
    <3>1. rounds \in [1..n -> Letters]
      BY <1>4
    <3>2. stepped \in [1..n -> Letters] /\ \A i \in 1..n : stepped[i] = IF i = n THEN letter ELSE rounds[i]
      BY <1>1, <1>2, <2>2, <3>1
    <3> QED
      BY <1>3, <2>2, <3>2
  <2> QED
    BY <2>1, <2>2
<1>6. ASSUME OfThisMap(known), letter # "?" PROVE n > 0 /\ letter = outcomes[n]
  <2>1. old # <<>> /\ (letter = "W" => Now[1] - old[1] = 1 /\ Now[2] - old[2] = 0)
        /\ (letter = "L" => Now[1] - old[1] = 0 /\ Now[2] - old[2] = 1)
        /\ letter \in {"W", "L"}
    BY <1>6
  <2>2. PICK m \in 0..n : old = ScoreAfter(m)
    <3>1. 0 \in 0..Len(outcomes) /\ Len(known.rounds) \in 0..n
      BY <1>3, <1>6 DEF Kept, OfThisMap
    <3>2. ScoreAfter(0) \in Pairs /\ Sum2(ScoreAfter(0)) = 0
      BY <3>1, ScoreSteps
    <3>3. ScoreAfter(0) = <<0, 0>>
      BY <3>2, PairsAreScores DEF Sum2
    <3>4. CASE known.score = <<>> /\ n = 1
      BY <3>1, <3>3, <3>4
    <3>5. CASE ~(known.score = <<>> /\ n = 1)
      BY <1>6, <2>1, <3>1, <3>5 DEF OfThisMap
    <3> QED
      BY <3>4, <3>5
  <2> HIDE DEF old, letter, rounds
  <2>3. old \in Pairs /\ Sum2(old) = m
    BY <2>2, ScoreSteps
  <2>4. /\ Now[1] \in Nat /\ Now[2] \in Nat /\ old[1] \in Nat /\ old[2] \in Nat
        /\ Now[1] + Now[2] = n /\ old[1] + old[2] = m
    BY <1>3, <2>3, PairsAreScores DEF Sum2
  <2>5. m = n - 1 /\ n > 0
    <3>1. \A a, b, c, d \in Nat :
            /\ a - c = 1 => a = c + 1
            /\ a - c = 0 => a = c
            /\ a = c + 1 /\ b = d => c + d = (a + b) - 1 /\ a + b > 0
            /\ a = c /\ b = d + 1 => c + d = (a + b) - 1 /\ a + b > 0
      OBVIOUS
    <3>2. CASE Now[1] - old[1] = 1 /\ Now[2] - old[2] = 0
      <4>1. Now[1] = old[1] + 1 /\ Now[2] = old[2]
        BY <2>4, <3>1, <3>2
      <4>2. old[1] + old[2] = (Now[1] + Now[2]) - 1 /\ Now[1] + Now[2] > 0
        BY <2>4, <3>1, <4>1
      <4> QED
        BY <2>4, <4>2
    <3>3. CASE Now[1] - old[1] = 0 /\ Now[2] - old[2] = 1
      <4>1. Now[1] = old[1] /\ Now[2] = old[2] + 1
        BY <2>4, <3>1, <3>3
      <4>2. old[1] + old[2] = (Now[1] + Now[2]) - 1 /\ Now[1] + Now[2] > 0
        BY <2>4, <3>1, <4>1
      <4> QED
        BY <2>4, <4>2
    <3> QED
      BY <2>1, <3>2, <3>3
  <2>6. \/ /\ outcomes[n] = "W" /\ Now = <<old[1] + 1, old[2]>>
        \/ /\ outcomes[n] = "L" /\ Now = <<old[1], old[2] + 1>>
    BY <1>3, <2>2, <2>5, ScoreSteps
  <2> QED
    BY <2>1, <2>4, <2>5, <2>6
<1>7. ASSUME OfThisMap(known), NEW i \in 1..n PROVE stepped[i] \in {"?", outcomes[i]}
  <2> HIDE DEF letter, rounds
  <2>1. rounds[i] \in {"?", outcomes[i]}
    BY <1>4, <1>7 DEF OfThisMap, Kept
  <2> QED
    BY <1>5, <1>6, <1>7, <2>1
<1> QED
  BY <1>5, <1>7

\* The source's history is of this attempt.
LEMMA FilledIsTrue ==
  ASSUME outcomes \in Seq(Winners), NEW n, n = Len(outcomes),
         NEW rounds \in Seq(Letters), Len(rounds) = n,
         NEW k \in 0..n, NEW filled, filled = Filled(rounds, SubSeq(outcomes, 1, k), Now)
  PROVE  /\ filled \in Seq(Letters) /\ Len(filled) = n
         /\ \A i \in 1..n : filled[i] \in {rounds[i], outcomes[i]}
<1> DEFINE source == SubSeq(outcomes, 1, k)
           both == [i \in 1..Len(rounds) |->
                      IF i <= Len(source) /\ i <= 2 * HalfLength THEN source[i] ELSE rounds[i]]
<1>1. filled = both \/ filled = rounds
  BY DEF Filled
<1>2. Len(source) = k /\ \A i \in 1..k : source[i] = outcomes[i]
  OBVIOUS
<1>3. \A i \in 1..n : both[i] \in {rounds[i], outcomes[i]} /\ both[i] \in Letters
  <2>1. \A i \in 1..n : rounds[i] \in Letters /\ outcomes[i] \in Letters
    BY DEF Winners, Letters
  <2> HIDE DEF source
  <2> QED
    BY <1>2, <2>1
<1>4. both \in Seq(Letters) /\ Len(both) = n
  <2>1. n \in Nat /\ both = [i \in 1..n |-> both[i]]
    OBVIOUS
  <2> HIDE DEF both
  <2> QED
    BY <1>3, <2>1
<1> HIDE DEF both
<1> QED
  BY <1>1, <1>3, <1>4

\* Reading a score keeps the history true.
LEMMA ReadScoreHistory ==
  ASSUME StoryTyped, HistoryInv, ReadScore
  PROVE  HistoryInv'
<1>1. UNCHANGED <<outcomes, resets, processes>> /\ fresh' = FALSE
      /\ confused' = IF fresh THEN history.score \notin {<<>>, <<0, 0>>} /\ ~Lower(Now, history.score)
                     ELSE confused
  BY DEF ReadScore
<1> DEFINE n == Len(outcomes)
           known == Continued(Now)
           stepped == Stepped(known, Now, n)
<1>2. outcomes \in Seq(Winners) /\ n \in Nat /\ Now \in Pairs /\ Sum2(Now) = n /\ Now = ScoreAfter(n)
  BY NowIsLast DEF StoryTyped
<1>3. PICK k \in 0..n : history' = [score |-> Now, rounds |-> Filled(stepped, SubSeq(outcomes, 1, k), Now)]
  <2>1. PICK k \in {0, n - 1, n} \intersect Nat : ObserveHistory(Now, SubSeq(outcomes, 1, k))
    BY DEF ReadScore
  <2>2. k \in 0..n
    BY <1>2, <2>1
  <2> QED
    BY <1>2, <2>1, <2>2 DEF ObserveHistory
<1>4. Kept(known) /\ (~confused' => OfThisMap(known))
  <2>1. known = NoHistory \/ (known = history /\ ~Lower(Now, history.score))
    BY DEF Continued
  <2>2. CASE known = NoHistory
    BY <1>2, <2>2, NoHistoryIsTrue
  <2>3. CASE known = history /\ ~Lower(Now, history.score)
    <3> HIDE DEF known
    <3>1. Kept(history)
      BY DEF HistoryInv
    <3>2. ASSUME ~confused', fresh PROVE OfThisMap(history)
      <4>1. history.score \in {<<>>, <<0, 0>>}
        BY <1>1, <2>3, <3>2
      <4>2. Len(history.rounds) = 0
        <5>1. CASE history.score = <<>>
          BY <3>1, <5>1, PairsAreScores DEF Kept
        <5>2. CASE history.score = <<0, 0>>
          <6>1. history.score \in Pairs /\ Sum2(history.score) = 0 /\ history.score # <<>>
            BY <5>2, PairsAreScores DEF Pairs, Sum2
          <6> QED
            BY <3>1, <6>1 DEF Kept
        <5> QED
          BY <4>1, <5>1, <5>2
      <4>3. ScoreAfter(0) = <<0, 0>>
        <5>1. 0 \in 0..Len(outcomes)
          BY <1>2
        <5>2. ScoreAfter(0) \in Pairs /\ Sum2(ScoreAfter(0)) = 0
          BY <1>2, <5>1, ScoreSteps
        <5> QED
          BY <5>2, PairsAreScores DEF Sum2
      <4> QED
        BY <1>2, <4>1, <4>2, <4>3 DEF OfThisMap
    <3>3. ASSUME ~confused', ~fresh PROVE OfThisMap(history)
      BY <1>1, <3>3 DEF HistoryInv
    <3> QED
      BY <2>3, <3>1, <3>2, <3>3
  <2> HIDE DEF known
  <2> QED
    BY <2>1, <2>2, <2>3
<1> HIDE DEF known
<1>5. /\ stepped \in Seq(Letters) /\ Len(stepped) = n
      /\ ~confused' => \A i \in 1..n : stepped[i] \in {"?", outcomes[i]}
  BY <1>2, <1>4, SteppedIsTrue
<1> DEFINE filled == Filled(stepped, SubSeq(outcomes, 1, k), Now)
<1> HIDE DEF stepped
<1>6. /\ filled \in Seq(Letters) /\ Len(filled) = n
      /\ \A i \in 1..n : filled[i] \in {stepped[i], outcomes[i]}
  BY <1>2, <1>5, FilledIsTrue
<1>7. history'.score = Now /\ history'.rounds = filled
  BY <1>3
<1> HIDE DEF filled
<1>8. Kept(history)'
  BY <1>2, <1>6, <1>7 DEF Kept
<1>9. ~confused' => OfThisMap(history)'
  <2>1. ScoreAfter(Len(history.rounds))' = ScoreAfter(n)
    BY <1>1, <1>6, <1>7 DEF ScoreAfter
  <2> QED
    BY <1>1, <1>2, <1>5, <1>6, <1>7, <2>1 DEF OfThisMap
<1> QED
  BY <1>8, <1>9 DEF HistoryInv

\* What is told of a history that is true is true.
LEMMA HistoryTold ==
  ASSUME StoryTyped, HistoryInv PROVE HistoryIsTrue
<1> SUFFICES ASSUME ~fresh, ~confused, NEW n \in 1..Len(outcomes)
             PROVE  Summary(Now)[n] \in {"?", outcomes[n]}
  BY DEF HistoryIsTrue
<1> DEFINE rounds == Padded(history.rounds, Sum2(Now))
<1>1. Sum2(Now) = Len(outcomes) /\ Len(outcomes) \in Nat
  BY NowIsLast DEF StoryTyped
<1>2. rounds[n] = IF n <= Len(history.rounds) THEN history.rounds[n] ELSE "?"
  BY <1>1, PaddedIsSeq DEF HistoryInv, Kept
<1>3. rounds[n] \in {"?", outcomes[n]}
  <2> HIDE DEF rounds
  <2> QED
    BY <1>2 DEF HistoryInv, OfThisMap, Kept
<1>4. Summary(Now) = rounds \/ Summary(Now) = Unknown(Sum2(Now))
  BY DEF Summary
<1> QED
  BY <1>1, <1>3, <1>4 DEF Unknown
----------------------------------------------------------------------------
\* The comeback.

Swings == [size : Nat, low : Pairs, peak : Pairs]
Extremes == {<<>>} \union Pairs

SwingsTyped ==
  /\ swings.lowest \in Extremes /\ swings.highest \in Extremes
  /\ swings.ours \in Swings /\ swings.theirs \in Swings

\* The map stood at this score, or at the one and later at the other.
Stood(s) == \E i \in 0..Len(outcomes) : s = ScoreAfter(i)
Went(low, peak) ==
  \E i, j \in 0..Len(outcomes) : i < j /\ ScoreAfter(i) = low /\ ScoreAfter(j) = peak

SwingsHappened ==
  /\ swings.lowest # <<>> => Stood(swings.lowest)
  /\ swings.highest # <<>> => Stood(swings.highest)
  /\ swings.ours.size > 0 => Went(swings.ours.low, swings.ours.peak)
  /\ swings.theirs.size > 0 => Went(Flip(swings.theirs.low), Flip(swings.theirs.peak))

SwingsInv == SwingsTyped /\ (resets = 0 => SwingsHappened)

\* A score seen from the other side and back.
LEMMA FlipTwice ==
  \A s \in Extremes : /\ Flip(s) \in Extremes /\ Flip(Flip(s)) = s
                      /\ (Flip(s) = <<>> <=> s = <<>>)
                      /\ s \in Pairs => Flip(s) \in Pairs
<1>1. ASSUME NEW s \in Pairs PROVE Flip(s) \in Pairs /\ Flip(Flip(s)) = s
  <2>1. s # <<>> /\ s = <<s[1], s[2]>> /\ s[1] \in Nat /\ s[2] \in Nat
    BY PairsAreScores
  <2>2. Flip(s) = <<s[2], s[1]>> /\ Flip(s) \in Pairs
    BY <2>1 DEF Flip, Pairs
  <2>3. Flip(s) # <<>>
    BY <2>2, PairsAreScores
  <2> QED
    BY <2>1, <2>2, <2>3 DEF Flip
<1>2. Flip(<<>>) = <<>>
  BY DEF Flip
<1> QED
  BY <1>1, <1>2, PairsAreScores DEF Extremes

\* A new tracker has seen no swing.
LEMMA NewSwingsTyped ==
  ASSUME swings = NewSwings PROVE SwingsTyped /\ SwingsHappened
<1>1. <<0, 0>> \in Pairs /\ NoSwing \in Swings /\ NoSwing.size = 0
  BY DEF Pairs, NoSwing, Swings
<1> QED
  BY <1>1 DEF NewSwings, SwingsTyped, SwingsHappened, Extremes

\* A swing grows only from a lowest point to a score that is higher.
LEMMA RiseHappened ==
  ASSUME NEW s \in Pairs, NEW extreme \in Extremes, NEW swing \in Swings,
         NEW risen, risen = Rise(extreme, s, swing)
  PROVE  /\ risen \in Swings
         /\ \/ risen = swing
            \/ extreme # <<>> /\ extreme # s /\ risen.low = extreme /\ risen.peak = s
<1>1. CASE risen = swing
  BY <1>1
<1>2. CASE risen # swing
  <2>1. /\ extreme # <<>> /\ Lead(s) - Lead(extreme) > swing.size
        /\ risen = [size |-> Lead(s) - Lead(extreme), low |-> extreme, peak |-> s]
    BY <1>2 DEF Rise
  <2>2. extreme \in Pairs /\ Lead(s) \in Int /\ Lead(extreme) \in Int /\ swing.size \in Nat
    BY <2>1, PairsAreScores DEF Extremes, Lead, Swings
  <2>3. Lead(s) - Lead(extreme) \in Nat /\ Lead(s) # Lead(extreme)
    BY <2>1, <2>2
  <2> HIDE DEF Lead
  <2> QED
    BY <2>1, <2>2, <2>3 DEF Swings
<1> QED
  BY <1>1, <1>2

\* Reading a score keeps the swings true.
LEMMA ReadScoreSwings ==
  ASSUME StoryTyped, SwingsInv, ReadScore
  PROVE  SwingsInv'
<1>1. UNCHANGED <<outcomes, resets>> /\ ObserveSwings(Now)
  BY DEF ReadScore
<1>2. outcomes \in Seq(Winners) /\ Len(outcomes) \in Nat /\ Now \in Pairs /\ Now = ScoreAfter(Len(outcomes))
  BY NowIsLast DEF StoryTyped
<1>3. /\ swings'.lowest = Extreme(swings.lowest, Now)
      /\ swings'.highest = Flip(Extreme(Flip(swings.highest), Flip(Now)))
      /\ swings'.ours = Rise(swings.lowest, Now, swings.ours)
      /\ swings'.theirs = Rise(Flip(swings.highest), Flip(Now), swings.theirs)
  BY <1>1 DEF ObserveSwings
<1>4. /\ swings.lowest \in Extremes /\ swings.highest \in Extremes
      /\ swings.ours \in Swings /\ swings.theirs \in Swings
      /\ Flip(swings.highest) \in Extremes /\ Flip(Now) \in Pairs /\ Now # <<>>
      /\ Flip(Flip(swings.highest)) = swings.highest /\ Flip(Flip(Now)) = Now
      /\ Now \in Extremes /\ Flip(Now) \in Extremes
  BY <1>2, FlipTwice, PairsAreScores DEF SwingsInv, SwingsTyped, Extremes
<1>5. /\ swings'.lowest = swings.lowest \/ swings'.lowest = Now
      /\ swings'.highest = swings.highest \/ swings'.highest = Now
  BY <1>3, <1>4 DEF Extreme
<1>6. /\ swings'.ours \in Swings
      /\ \/ swings'.ours = swings.ours
         \/ /\ swings.lowest # <<>> /\ swings.lowest # Now
            /\ swings'.ours.low = swings.lowest /\ swings'.ours.peak = Now
  BY <1>2, <1>3, <1>4, RiseHappened
<1>7. /\ swings'.theirs \in Swings
      /\ \/ swings'.theirs = swings.theirs
         \/ /\ Flip(swings.highest) # <<>> /\ Flip(swings.highest) # Flip(Now)
            /\ swings'.theirs.low = Flip(swings.highest) /\ swings'.theirs.peak = Flip(Now)
  BY <1>3, <1>4, RiseHappened
<1>8. SwingsTyped'
  BY <1>4, <1>5, <1>6, <1>7 DEF SwingsTyped
<1>9. ASSUME resets = 0 PROVE SwingsHappened'
  <2>1. SwingsHappened
    BY <1>9 DEF SwingsInv
  <2>2. Stood(Now) /\ Len(outcomes) \in 0..Len(outcomes)
    BY <1>2 DEF Stood
  <2>3. ASSUME NEW s, Stood(s), s # Now PROVE Went(s, Now)
    <3>1. PICK i \in 0..Len(outcomes) : s = ScoreAfter(i)
      BY <2>3 DEF Stood
    <3>2. i < Len(outcomes)
      BY <1>2, <2>3, <3>1
    <3> QED
      BY <1>2, <2>2, <3>1, <3>2 DEF Went
  <2>4. /\ \A s : Stood(s)' <=> Stood(s)
        /\ \A low, peak : Went(low, peak)' <=> Went(low, peak)
    BY <1>1 DEF Stood, Went, ScoreAfter
  <2>5. swings'.lowest # <<>> => Stood(swings'.lowest)
    BY <1>5, <2>1, <2>2 DEF SwingsHappened
  <2>6. swings'.highest # <<>> => Stood(swings'.highest)
    BY <1>5, <2>1, <2>2 DEF SwingsHappened
  <2>7. swings'.ours.size > 0 => Went(swings'.ours.low, swings'.ours.peak)
    BY <1>6, <2>1, <2>3 DEF SwingsHappened
  <2>8. swings'.theirs.size > 0 => Went(Flip(swings'.theirs.low), Flip(swings'.theirs.peak))
    <3>1. CASE swings'.theirs = swings.theirs
      BY <2>1, <3>1 DEF SwingsHappened
    <3>2. CASE swings'.theirs # swings.theirs
      <4>1. /\ Flip(swings'.theirs.low) = swings.highest /\ Flip(swings'.theirs.peak) = Now
            /\ swings.highest # <<>> /\ swings.highest # Now
        BY <1>4, <1>7, <3>2, FlipTwice
      <4> QED
        BY <2>1, <2>3, <4>1 DEF SwingsHappened
    <3> QED
      BY <3>1, <3>2
  <2> QED
    BY <1>1, <2>4, <2>5, <2>6, <2>7, <2>8 DEF SwingsHappened, Stood, Went, ScoreAfter
<1> QED
  BY <1>1, <1>8, <1>9 DEF SwingsInv

\* A swing that happened is a comeback that happened.
LEMMA ComebackTold ==
  ASSUME StoryTyped, SwingsInv, resets = 0 PROVE ComebackHappened
<1> SUFFICES ASSUME NEW tale \in Verdict PROVE Went(tale.from, tale.to)
  BY DEF ComebackHappened, Went
<1>1. /\ SwingsHappened /\ swings.ours.size \in Nat /\ swings.theirs.size \in Nat
      /\ Threshold \in Nat /\ Threshold > 0
  BY StoryAssumption DEF SwingsInv, SwingsTyped, Swings
<1>2. CASE OursIsTheStory
  <2>1. tale.from = swings.ours.low /\ tale.to = swings.ours.peak
    BY <1>2 DEF Verdict
  <2>2. swings.ours.size > 0
    BY <1>1, <1>2 DEF OursIsTheStory, Qualifies
  <2> QED
    BY <1>1, <2>1, <2>2 DEF SwingsHappened
<1>3. CASE ~OursIsTheStory
  <2>1. /\ tale.from = Flip(swings.theirs.low) /\ tale.to = Flip(swings.theirs.peak)
        /\ Qualifies(swings.theirs)
    BY <1>3 DEF Verdict
  <2>2. swings.theirs.size > 0
    BY <1>1, <2>1 DEF Qualifies
  <2> QED
    BY <1>1, <2>1, <2>2 DEF SwingsHappened
<1> QED
  BY <1>2, <1>3
----------------------------------------------------------------------------
StoryInv == StoryTyped /\ HistoryInv /\ SwingsInv

\* The invariant holds initially, and each step keeps it.
LEMMA StoryInitInv == StoryInit => StoryInv
<1> SUFFICES ASSUME StoryInit PROVE StoryInv
  OBVIOUS
<1>1. StoryTyped
  <2>1. outcomes \in Seq(Winners) /\ Len(outcomes) = 0 /\ resets = 0 /\ processes = 0
    BY DEF StoryInit
  <2>2. {fresh, confused} \subseteq BOOLEAN
    BY Zenon DEF StoryInit
  <2> QED
    BY <2>1, <2>2, StoryAssumption DEF StoryTyped
<1>2. HistoryInv
  BY <1>1, NoHistoryIsTrue DEF StoryInit, HistoryInv, StoryTyped
<1>3. SwingsInv
  BY NewSwingsTyped DEF StoryInit, SwingsInv
<1> QED
  BY <1>1, <1>2, <1>3 DEF StoryInv

\* By the lemmas on what a step reads.
LEMMA StoryNextInv ==
  ASSUME StoryInv, [StoryNext]_storyVars
  PROVE  StoryInv'
<1>1. StoryTyped /\ HistoryInv /\ SwingsInv /\ outcomes \in Seq(Winners) /\ Len(outcomes) \in Nat
  BY DEF StoryInv, StoryTyped
<1>2. ASSUME NEW side \in Winners, RoundWon(side) PROVE StoryInv'
  <2>1. /\ Len(outcomes) < MaxRounds /\ outcomes' = Append(outcomes, side)
        /\ UNCHANGED <<history, swings, fresh, confused, resets, processes>>
    BY <1>2 DEF RoundWon
  <2>2. /\ outcomes' \in Seq(Winners) /\ Len(outcomes') = Len(outcomes) + 1
        /\ \A i \in 1..Len(outcomes) : outcomes'[i] = outcomes[i]
        /\ \A n \in 0..Len(outcomes) : Tally(SubSeq(outcomes', 1, n)) = ScoreAfter(n)
    BY <1>1, <2>1, ScoresStay
  <2>3. StoryTyped'
    BY <1>1, <2>1, <2>2, StoryAssumption DEF StoryTyped
  <2>4. OfThisMap(history) => OfThisMap(history)'
    <3> SUFFICES ASSUME OfThisMap(history) PROVE OfThisMap(history)'
      OBVIOUS
    <3>1. Len(history.rounds) \in 0..Len(outcomes)
      BY <1>1 DEF OfThisMap, HistoryInv, Kept
    <3>2. ScoreAfter(Len(history.rounds))' = ScoreAfter(Len(history.rounds))
      BY <2>1, <2>2, <3>1 DEF ScoreAfter
    <3>3. \A i \in 1..Len(history.rounds) : history.rounds[i] \in {"?", outcomes'[i]}
      BY <2>2, <3>1 DEF OfThisMap
    <3> QED
      BY <1>1, <2>1, <2>2, <3>1, <3>2, <3>3 DEF OfThisMap
  <2>5. HistoryInv'
    BY <1>1, <2>1, <2>4 DEF HistoryInv, Kept
  <2>6. SwingsHappened => SwingsHappened'
    <3>1. /\ \A s : Stood(s) => Stood(s)'
          /\ \A low, peak : Went(low, peak) => Went(low, peak)'
      <4>1. \A n \in 0..Len(outcomes) : n \in 0..Len(outcomes')
        BY <1>1, <2>2
      <4> QED
        BY <2>2, <4>1 DEF Stood, Went, ScoreAfter
    <3>2. swings' = swings /\ \A s : Flip(s)' = Flip(s)
      BY <2>1 DEF Flip
    <3>3. (swings.lowest # <<>> => Stood(swings.lowest))
          => (swings'.lowest # <<>> => Stood(swings.lowest)')
      <4>1. Stood(swings.lowest) => Stood(swings.lowest)'
        BY <3>1, <3>2 DEF Stood
      <4> QED
        BY <3>2, <4>1
    <3>4. (swings.highest # <<>> => Stood(swings.highest))
          => (swings'.highest # <<>> => Stood(swings.highest)')
      <4>1. Stood(swings.highest) => Stood(swings.highest)'
        BY <3>1, <3>2 DEF Stood
      <4> QED
        BY <3>2, <4>1
    <3>5. ASSUME Went(swings.ours.low, swings.ours.peak)
          PROVE  Went(swings.ours.low, swings.ours.peak)'
      <4>1. PICK i, j \in 0..Len(outcomes) :
              i < j /\ ScoreAfter(i) = swings.ours.low /\ ScoreAfter(j) = swings.ours.peak
        BY <3>5 DEF Went
      <4> QED
        BY <1>1, <2>2, <3>2, <4>1 DEF Went, ScoreAfter
    <3>6. ASSUME Went(Flip(swings.theirs.low), Flip(swings.theirs.peak))
          PROVE  Went(Flip(swings.theirs.low), Flip(swings.theirs.peak))'
      <4>1. PICK i, j \in 0..Len(outcomes) :
              i < j /\ ScoreAfter(i) = Flip(swings.theirs.low)
              /\ ScoreAfter(j) = Flip(swings.theirs.peak)
        BY <3>6 DEF Went
      <4>2. /\ Flip(swings.theirs.low)' = Flip(swings.theirs.low)
            /\ Flip(swings.theirs.peak)' = Flip(swings.theirs.peak)
        BY <3>2 DEF Flip
      <4>3. /\ i \in 0..Len(outcomes') /\ j \in 0..Len(outcomes')
            /\ ScoreAfter(i)' = ScoreAfter(i) /\ ScoreAfter(j)' = ScoreAfter(j)
        BY <1>1, <2>2, <4>1 DEF ScoreAfter
      <4> QED
        BY <4>1, <4>2, <4>3 DEF Went
    <3> QED
      BY <3>2, <3>3, <3>4, <3>5, <3>6 DEF SwingsHappened
  <2> QED
    BY <1>1, <2>1, <2>3, <2>5, <2>6 DEF StoryInv, SwingsInv, SwingsTyped
<1>3. CASE ReadScore
  <2>1. StoryTyped'
    BY <1>1, <1>3 DEF ReadScore, StoryTyped
  <2> QED
    BY <1>1, <1>3, <2>1, ReadScoreHistory, ReadScoreSwings DEF StoryInv
<1>4. CASE Reset
  <2>1. /\ resets < MaxResets /\ resets' = resets + 1 /\ outcomes' = <<>> /\ fresh' = TRUE
        /\ UNCHANGED <<history, swings, confused, processes>>
    BY <1>4 DEF Reset
  <2>2. StoryTyped'
    BY <1>1, <2>1, StoryAssumption DEF StoryTyped
  <2>3. resets' # 0
    BY <1>1, <2>1 DEF StoryTyped
  <2> QED
    BY <1>1, <2>1, <2>2, <2>3 DEF StoryInv, HistoryInv, Kept, SwingsInv, SwingsTyped
<1>5. CASE NewProcess
  <2>1. /\ processes < MaxProcesses /\ processes' = processes + 1 /\ swings' = NewSwings
        /\ UNCHANGED <<outcomes, history, fresh, confused, resets>>
    BY <1>5 DEF NewProcess
  <2>2. StoryTyped'
    BY <1>1, <2>1, StoryAssumption DEF StoryTyped
  <2>3. HistoryInv'
    BY <1>1, <2>1 DEF HistoryInv, Kept, OfThisMap, ScoreAfter
  <2>4. SwingsInv'
    <3>1. <<0, 0>> \in Pairs /\ NoSwing \in Swings /\ NoSwing.size = 0
      BY DEF Pairs, NoSwing, Swings
    <3> QED
      BY <2>1, <3>1 DEF NewSwings, SwingsInv, SwingsTyped, SwingsHappened, Extremes
  <2> QED
    BY <2>2, <2>3, <2>4 DEF StoryInv
<1>6. CASE UNCHANGED storyVars
  BY <1>1, <1>6 DEF storyVars, StoryInv, StoryTyped, HistoryInv, Kept, OfThisMap, ScoreAfter,
                    SwingsInv, SwingsTyped, SwingsHappened, Stood, Went
<1> QED
  BY <1>2, <1>3, <1>4, <1>5, <1>6 DEF StoryNext, Winners

\* The rounds that a message names were played and won so, and the comeback it tells
\* of happened, however many frames were missing and processes replaced.
THEOREM StoryHolds == StorySpec => []StoryIsTrue
<1>1. StoryInv => StoryIsTrue
  BY HistoryTold, ComebackTold DEF StoryInv, StoryIsTrue
<1> QED
  BY <1>1, StoryInitInv, StoryNextInv, PTL DEF StorySpec

\* The variables keep their types.
THEOREM StoryTypeCorrect == StorySpec => []StoryTypeOK
<1>1. StoryInv => StoryTypeOK
  <2> SUFFICES ASSUME StoryInv PROVE StoryTypeOK
    OBVIOUS
  <2>1. history.score # <<>> => Sum2(history.score) = Len(history.rounds)
    BY DEF StoryInv, HistoryInv, Kept
  <2>2. history.rounds \in Seq({"W", "L", "?"})
    BY DEF StoryInv, HistoryInv, Kept, Letters
  <2> QED
    BY <2>1, <2>2 DEF StoryInv, StoryTyped, SwingsInv, SwingsTyped, Swings, StoryTypeOK, Winners
<1> QED
  BY <1>1, StoryInitInv, StoryNextInv, PTL DEF StorySpec
=============================================================================
