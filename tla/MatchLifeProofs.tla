--------------------------- MODULE MatchLifeProofs ---------------------------
(***************************************************************************)
(* The rows of a match and the events told about it, proved for a series   *)
(* of any length and any number of killed processes and wrong pages.       *)
(*                                                                         *)
(* The properties of MatchLife are not inductive: that a result is told    *)
(* once rests on its row having its number, which rests on the numbers a   *)
(* machine gives being free, which rests on there being no gap between the *)
(* rows while the lineup is unknown; that the end is not told early rests  *)
(* on no row naming a wrong winner and on no prefix of the series having   *)
(* decided it.  LifeInv says all of this.                                  *)
(*                                                                         *)
(* Then the supervisor and its workers (Feeds), for every number of        *)
(* workers, maps and faults, and the run that has them.                    *)
(***************************************************************************)
EXTENDS MCMatchLife, FiniteSetTheorems, TLAPS

----------------------------------------------------------------------------
(* The invariant. *)

\* A series is over the moment it is decided: no shorter one was.
MatchTyped ==
  /\ now \in Positions /\ winners \in Seq(Sides) /\ Len(winners) = DecidedAt(now)
  /\ \A i \in 0..(Len(winners) - 1) : ~Over(SubSeq(winners, 1, i))

RowsTyped ==
  /\ paged \in Int /\ -1 <= paged /\ paged <= DecidedAt(now)
  /\ feed \in {"off", "on", "leaving"}
  /\ state \in {"SCHEDULED", "LIVE", "FINISHED"}
  /\ pageSeen \in BOOLEAN /\ knowsFormat \in BOOLEAN /\ lineup \in BOOLEAN
  /\ memo \in 0..BestOf /\ warming \in BOOLEAN /\ pending \in BOOLEAN
  /\ results \in [Maps -> {NoResult} \union [map : Maps, won : Sides]]
  /\ met \in -1..BestOf /\ misnumbered \subseteq Maps
  /\ misreads \in Nat /\ crashes \in Nat /\ misreads + crashes <= MaxMishaps

\* An event is one of these.
IsEvent(e) ==
  \/ e = E4
  \/ \E n, m \in Maps : e = E5(n, m) \/ \E side \in Sides : e = E6(n, m, side)
  \/ e = E7(e.score)

Occupied(n) == results[n].map # 0

\* A row's number is its map's or a lower one, no map has two, and without a
\* lineup there is no gap.
Numbered ==
  /\ \A n \in Maps : Occupied(n) => n <= results[n].map /\ results[n].map <= Len(winners)
  /\ \A i, j \in Maps : Occupied(i) /\ results[i].map = results[j].map => i = j
  /\ ~lineup => \A n \in Maps : Occupied(n) => \A i \in 1..n : Occupied(i)

\* A row says who won its map, unless a page was wrong.
ResultsAreTrue ==
  misreads = 0 => \A n \in Maps : Occupied(n) => results[n].won = winners[results[n].map]

\* What is told: a result has its row, or another map's number; the end, when it
\* has come; and before it all the start.
Started == E4 \in told \union lost
ToldInv ==
  /\ \A e \in told \union lost : IsEvent(e)
  /\ \A e \in told : e.type = "E6" =>
       \/ e.number = e.map /\ Occupied(e.map)
       \/ e.number \in misnumbered /\ e.map \in misnumbered
  /\ state = "LIVE" \/ feed # "off" => Started
  /\ state = "SCHEDULED" => feed = "off"
  /\ paged = -1 => state = "SCHEDULED"

\* A row that is news has its event, or was lost with the process, or has taken
\* another map's number.
TellsResult(m) == m \in misnumbered \/ \E e \in told \union lost : e.type = "E6" /\ e.map = m
NewsIsTold ==
  /\ pageSeen => met # -1
  /\ met # -1 => pageSeen \/ met = BestOf
  /\ \A m \in Maps : Occupied(m) /\ m > met /\ (met = -1 => m > paged) => TellsResult(m)

LifeInv ==
  /\ MatchTyped /\ RowsTyped /\ Numbered /\ ResultsAreTrue /\ ToldInv /\ NewsIsTold
  /\ OneResultPerMap /\ ResultsAreTold /\ EndIsNotEarly /\ StartIsToldFirst /\ EndIsTold
  /\ state = "FINISHED" => MatchOver

----------------------------------------------------------------------------
(* Positions and numbers. *)

\* A frame speaks of the last map won or of one after it; a map that is over in it was
\* won.
LEMMA PositionsAre ==
  ASSUME MatchTyped, NEW p \in Positions, p \in {now - 1, now}, p >= 1
  PROVE  /\ MapAt(p) \in Maps /\ Len(winners) <= MapAt(p) /\ Len(winners) <= BestOf
         /\ PhaseAt(p) = "over" => MapAt(p) <= Len(winners)
<1>1. /\ now \in Nat /\ p \in Nat /\ BestOf \in Nat /\ now <= 4 * BestOf
      /\ Len(winners) = now \div 4
  BY MatchLifeAssumption DEF MatchTyped, Positions, DecidedAt
<1>2. MapAt(p) = (p - 1) \div 4 + 1
  BY DEF MapAt
<1>3. PhaseAt(p) = "over" => p % 4 = 0
  BY <1>1 DEF PhaseAt
<1>. QED
  BY <1>1, <1>2, <1>3 DEF Maps

\* Sets of numbers up to n are finite and have n elements at most.
LEMMA UpTo ==
  ASSUME NEW n \in Nat
  PROVE  /\ IsFiniteSet(1..n) /\ Cardinality(1..n) = n
         /\ \A S : S \subseteq 1..n =>
              IsFiniteSet(S) /\ Cardinality(S) \in Nat /\ Cardinality(S) <= n
<1>1. IsFiniteSet(1..n) /\ Cardinality(1..n) = n
  BY FS_Interval
<1>. QED
  BY <1>1, FS_Subset, FS_CardinalityType

\* The number the live machine gives to a new map (_map_number) is no recorded
\* row's, and leaves no gap before it unless the lineup is known.
LEMMA NumberIsFree ==
  ASSUME MatchTyped, RowsTyped, Numbered, NEW p \in Positions, CurrentFrame(p), ~Recorded(MapAt(p))
  PROVE  /\ NumberOf(MapAt(p)) \in 1..MapAt(p) /\ ~Occupied(NumberOf(MapAt(p)))
         /\ ~lineup => \A i \in 1..(NumberOf(MapAt(p)) - 1) : Occupied(i)
<1> DEFINE m == MapAt(p)
<1>1. m \in Maps /\ Len(winners) <= m /\ BestOf \in Nat
  BY PositionsAre, MatchLifeAssumption DEF CurrentFrame
<1>2. \A n \in Maps : Occupied(n) => n <= results[n].map /\ results[n].map < m /\ results[n].map \in Maps
  <2>1. SUFFICES ASSUME NEW n \in Maps, Occupied(n)
                 PROVE  /\ n <= results[n].map /\ results[n].map < m /\ results[n].map \in Maps
    OBVIOUS
  <2>2. results[n].map \in Maps
    BY <2>1 DEF RowsTyped, Occupied, NoResult
  <2>3. n <= results[n].map /\ results[n].map <= Len(winners)
    BY <2>1 DEF Numbered
  <2>4. results[n].map # m
    BY DEF Recorded
  <2>. HIDE DEF m
  <2>5. Len(winners) \in Nat
    BY DEF MatchTyped
  <2>. QED
    BY <1>1, <2>2, <2>3, <2>4, <2>5 DEF Maps
<1>. HIDE DEF m
<1>3. CASE lineup
  BY <1>1, <1>2, <1>3 DEF NumberOf, Maps, m
<1>4. CASE ~lineup
  <2> DEFINE F == {n \in Maps : Occupied(n)}
  <2>1. NumberOf(m) = Cardinality(F) + 1
    BY <1>4 DEF NumberOf, Occupied
  <2>2. \A i \in Maps : ~Occupied(i) => F \subseteq 1..(i - 1)
    BY <1>4 DEF Numbered, Maps
  <2>3. F \subseteq 1..(m - 1)
    BY <1>1, <1>2 DEF Maps
  <2>. HIDE DEF F
  <2>5. m \in Nat \ {0} /\ m - 1 \in Nat
    BY <1>1 DEF Maps
  <2>6. IsFiniteSet(F) /\ Cardinality(F) \in Nat /\ Cardinality(F) <= m - 1
    BY <2>3, <2>5, UpTo
  <2>7. ASSUME NEW i \in Maps, ~Occupied(i) PROVE Cardinality(F) <= i - 1
    <3>1. i - 1 \in Nat /\ F \subseteq 1..(i - 1)
      BY <2>2, <2>7 DEF Maps
    <3>. QED
      BY <3>1, UpTo
  <2>8. \A i \in Maps : Occupied(i) => i <= Cardinality(F)
    <3>1. SUFFICES ASSUME NEW i \in Maps, Occupied(i) PROVE i <= Cardinality(F)
      OBVIOUS
    <3>2. 1..i \subseteq F
      BY <1>4, <3>1, <1>1 DEF Numbered, Maps, F
    <3>3. Cardinality(1..i) = i
      BY UpTo DEF Maps
    <3>4. Cardinality(1..i) <= Cardinality(F)
      BY <2>6, <3>2, FS_Subset
    <3>. QED
      BY <3>3, <3>4
  <2>9. Cardinality(F) + 1 \in Maps /\ \A i \in 1..Cardinality(F) : i \in Maps
    BY <1>1, <2>6 DEF Maps
  <2>10. ~Occupied(Cardinality(F) + 1) /\ \A i \in 1..Cardinality(F) : Occupied(i)
    BY <2>6, <2>7, <2>8, <2>9
  <2>. QED
    BY <1>4, <2>1, <2>5, <2>6, <2>10 DEF m
<1>. QED
  BY <1>3, <1>4

----------------------------------------------------------------------------
(* Counting the maps won. *)

\* The maps a side has won can be counted.
LEMMA WinsBelong ==
  ASSUME MatchTyped, NEW side
  PROVE  /\ IsFiniteSet({m \in DOMAIN winners : winners[m] = side})
         /\ WinsIn(winners, side) \in Nat
         /\ DOMAIN winners = 1..Len(winners) /\ Len(winners) \in Nat
<1>1. DOMAIN winners = 1..Len(winners) /\ Len(winners) \in Nat
  BY DEF MatchTyped
<1>2. IsFiniteSet(1..Len(winners))
  BY <1>1, FS_Interval
<1>. QED
  BY <1>1, <1>2, FS_Subset, FS_CardinalityType DEF WinsIn

\* No map is won by both sides.
LEMMA WinsAddUp ==
  ASSUME MatchTyped
  PROVE  WinsIn(winners, "us") + WinsIn(winners, "them") <= Len(winners)
<1> DEFINE A == {m \in DOMAIN winners : winners[m] = "us"}
           B == {m \in DOMAIN winners : winners[m] = "them"}
<1>1. /\ IsFiniteSet(A) /\ IsFiniteSet(B) /\ Len(winners) \in Nat
      /\ DOMAIN winners = 1..Len(winners)
  BY WinsBelong
<1>2. A \cap B = {} /\ A \union B \subseteq 1..Len(winners)
  BY <1>1
<1>4. WinsIn(winners, "us") = Cardinality(A) /\ WinsIn(winners, "them") = Cardinality(B)
  BY DEF WinsIn
<1>. HIDE DEF A, B
<1>5. Cardinality(A \union B) <= Len(winners)
  BY <1>1, <1>2, UpTo
<1>6. Cardinality(A \union B) = Cardinality(A) + Cardinality(B) - Cardinality({})
  BY <1>1, <1>2, FS_Union
<1>7. Cardinality(A) \in Nat /\ Cardinality(B) \in Nat
  BY <1>1, FS_CardinalityType
<1>. QED
  BY <1>1, <1>4, <1>5, <1>6, <1>7, FS_EmptySet

\* Rows that say who won their maps count no more maps than were won.
LEMMA RowsCountLess ==
  ASSUME MatchTyped, NEW rows_, NEW wonBy, NEW side \in Sides,
         wonBy = [n \in Maps |-> rows_[n].won],
         \A n \in Maps : wonBy[n] = side =>
           rows_[n].map \in 1..Len(winners) /\ winners[rows_[n].map] = side,
         \A i, j \in Maps : wonBy[i] = side /\ wonBy[j] = side /\ rows_[i].map = rows_[j].map => i = j
  PROVE  WinsIn(wonBy, side) \in Nat /\ WinsIn(wonBy, side) <= WinsIn(winners, side)
<1> DEFINE S == {n \in DOMAIN wonBy : wonBy[n] = side}
           T == {m \in DOMAIN winners : winners[m] = side}
           f == [n \in S |-> rows_[n].map]
<1>1. DOMAIN wonBy = Maps
  OBVIOUS
<1>2. IsFiniteSet(T) /\ DOMAIN winners = 1..Len(winners)
  BY WinsBelong
<1>3. f \in [S -> T] /\ \A i, j \in S : f[i] = f[j] => i = j
  BY <1>1, <1>2
<1>4. f \in Injection(S, T)
  BY <1>3 DEF Injection, IsInjective
<1>5. WinsIn(wonBy, side) = Cardinality(S) /\ WinsIn(winners, side) = Cardinality(T)
  BY DEF WinsIn
<1>. HIDE DEF S, T, f
<1>6. IsFiniteSet(S) /\ Cardinality(S) <= Cardinality(T)
  BY <1>2, <1>4, FS_Injection
<1>. QED
  BY <1>5, <1>6, FS_CardinalityType

\* A feed that counts no more than was won decides no series that is still played.
LEMMA DecidesIsOver ==
  ASSUME MatchTyped, NEW wonBy, Decides(wonBy),
         \A side \in Sides : WinsIn(wonBy, side) \in Nat /\ WinsIn(wonBy, side) <= WinsIn(winners, side)
  PROVE  MatchOver
<1> DEFINE a == WinsIn(winners, "us")
           b == WinsIn(winners, "them")
           x == WinsIn(wonBy, "us")
           y == WinsIn(wonBy, "them")
<1>1. a \in Nat /\ b \in Nat /\ x \in Nat /\ y \in Nat /\ x <= a /\ y <= b
  BY WinsBelong DEF Sides
<1>2. a + b <= Len(winners) /\ Len(winners) \in Nat /\ Len(winners) <= BestOf /\ BestOf \in Nat
  <2>1. Len(winners) \in Nat
    BY WinsBelong
  <2>2. now \in Nat /\ now <= 4 * BestOf /\ Len(winners) = now \div 4 /\ BestOf \in Nat
    BY MatchLifeAssumption DEF MatchTyped, Positions, DecidedAt
  <2>. QED
    BY <2>1, <2>2, WinsAddUp
<1>3. SeriesDecided(x, y, BestOf)
  BY DEF Decides
<1>. HIDE DEF x, y
<1>4. CASE BestOf % 2 = 0
  <2>1. x + y >= BestOf
    BY <1>3, <1>4 DEF SeriesDecided
  <2>. QED
    BY <1>1, <1>2, <2>1 DEF MatchOver, Over
<1>5. CASE BestOf % 2 # 0
  <2>1. x >= BestOf \div 2 + 1 \/ y >= BestOf \div 2 + 1
    BY <1>1, <1>3, <1>5 DEF SeriesDecided, High
  <2>2. BestOf % 2 = 1 /\ 2 * (BestOf \div 2 + 1) > BestOf /\ BestOf \div 2 \in Nat
    BY <1>2, <1>5
  <2>3. 2 * a > BestOf \/ 2 * b > BestOf
    BY <1>1, <1>2, <2>1, <2>2
  <2>. QED
    BY <2>2, <2>3 DEF MatchOver, Over, Sides
<1>. QED
  BY <1>4, <1>5

----------------------------------------------------------------------------
(* What the two machines do, as far as it matters. *)

\* Of the events in all, those that are told have lived to be; the others are lost
\* with the process, or known already.
Tells(all, late) ==
  /\ told \subseteq told' /\ told' \subseteq told \union all
  /\ lost \subseteq lost' /\ lost' \subseteq lost \union all
  /\ \A e \in all : e \in told' \union lost' \/ \E t \in told : SameKey(t, e)
  /\ \A e \in told' \ told : late /\ \A t \in told : ~SameKey(t, e)

\* The caller of a machine, killed at any point, has done what Tells says.
LEMMA TellTells ==
  ASSUME NEW writes \in Nat, NEW length \in Nat, NEW done \in 0..(writes + length),
         NEW events, DOMAIN events = 1..length, Len(events) = length, Tell(writes, events, done)
  PROVE  Tells(AllOf(events), done > writes)
<1> DEFINE reached == UNION {events[i] : i \in 1..(done - writes)}
<1>1. reached \subseteq AllOf(events)
  BY DEF AllOf
<1>2. told' = told \union {e \in reached : \A t \in told : ~SameKey(t, e)}
  BY DEF Tell
<1>3. \A e \in reached : done > writes
  OBVIOUS
<1>4. CASE done = writes + length
  <2>1. lost' = lost
    BY <1>4 DEF Tell
  <2>2. reached = AllOf(events)
    BY <1>4 DEF AllOf
  <2>. QED
    BY <1>2, <1>3, <2>1, <2>2 DEF Tells
<1>5. CASE done # writes + length
  <2>1. lost' = lost \union (AllOf(events) \ reached)
    BY <1>5 DEF Tell
  <2>. HIDE DEF reached
  <2>. QED
    BY <1>1, <1>2, <1>3, <2>1 DEF Tells
<1>. QED
  BY <1>4, <1>5

\* The process lives to some of the steps of a machine, and a mishap is counted.
LEMMA LivesCounts ==
  ASSUME RowsTyped, NEW writes \in Nat, NEW length \in Nat, NEW events,
         Len(events) = length, NEW done \in Lives(writes + length), Tell(writes, events, done),
         misreads' \in Nat, misreads' + crashes <= MaxMishaps
  PROVE  /\ done \in 0..(writes + length)
         /\ crashes' \in Nat /\ misreads' + crashes' <= MaxMishaps
<1>1. done \in 0..(writes + length) /\ (done # writes + length => misreads' + crashes < MaxMishaps)
  <2>1. CASE misreads' + crashes < MaxMishaps
    BY <2>1 DEF Lives
  <2>2. CASE ~(misreads' + crashes < MaxMishaps)
    <3>1. done = writes + length
      BY <2>2 DEF Lives
    <3>. QED
      BY <3>1
  <2>. QED
    BY <2>1, <2>2
<1>2. crashes' = crashes \/ (crashes' = crashes + 1 /\ done # writes + length)
  BY DEF Tell
<1>3. crashes \in Nat /\ MaxMishaps \in Nat
  BY MatchLifeAssumption DEF RowsTyped
<1>4. CASE crashes' = crashes
  BY <1>1, <1>3, <1>4
<1>5. CASE crashes' = crashes + 1 /\ misreads' + crashes < MaxMishaps
  <2>1. crashes' \in Nat
    BY <1>3, <1>5
  <2>2. \A x, y, z \in Nat : x + y < z => x + (y + 1) <= z
    OBVIOUS
  <2>3. misreads' + (crashes + 1) <= MaxMishaps
    BY <1>3, <1>5, <2>2
  <2>. QED
    BY <1>1, <1>5, <2>1, <2>3
<1>. QED
  BY <1>1, <1>2, <1>4, <1>5

FrameRow(m) == [map |-> m, won |-> winners[m]]
FrameResults(p) ==
  IF PhaseAt(p) = "over" THEN [results EXCEPT ![NumberOf(MapAt(p))] = FrameRow(MapAt(p))]
                         ELSE results
FrameWins(p) == [i \in Maps |-> FrameResults(p)[i].won]
FrameEvents(p) ==
  LET m == MapAt(p)
      n == NumberOf(m) IN
  If(Releases(p), E4)
    \union If(PhaseAt(p) = "over", E6(n, m, winners[m]))
    \union If(PhaseAt(p) = "over" /\ knowsFormat /\ Decides(FrameWins(p)), E7(SeriesOf(FrameWins(p))))
    \union If(IsNewMap(p), E5(n, m))

FrameEffect(p, done) ==
  /\ done \in 0..9
  /\ Tells(FrameEvents(p), done > 5)
  /\ results' = IF done >= 2 THEN FrameResults(p) ELSE results
  /\ state' \in {state, "LIVE"}
  /\ memo' \in {memo, MapAt(p)} /\ warming' \in BOOLEAN /\ pending' \in BOOLEAN
  /\ feed' \in {feed, "off"}
  /\ misnumbered' = misnumbered \union
       (IF NumberOf(MapAt(p)) # MapAt(p) THEN {MapAt(p), NumberOf(MapAt(p))} ELSE {})
  /\ UNCHANGED <<match, paged, pageSeen, knowsFormat, lineup, met, misreads>>
  /\ crashes' \in Nat /\ misreads' + crashes' <= MaxMishaps

\* The live machine's apply, wherever it is killed: what the rows and the events
\* become.
LEMMA FrameDoes ==
  ASSUME RowsTyped, NEW p \in Positions, Frame(p)
  PROVE  /\ CurrentFrame(p) /\ ~Recorded(MapAt(p))
         /\ \E done \in 0..9 : FrameEffect(p, done)
<1> DEFINE m == MapAt(p)
           n == NumberOf(m)
           completed == PhaseAt(p) = "over"
           after == IF completed THEN [results EXCEPT ![n] = [map |-> m, won |-> winners[m]]]
                                 ELSE results
           wonBy == [i \in Maps |-> after[i].won]
           events == <<If(Releases(p), E4),
                       If(completed, E6(n, m, winners[m])),
                       If(completed /\ knowsFormat /\ Decides(wonBy), E7(SeriesOf(wonBy))),
                       If(IsNewMap(p), E5(n, m))>>
<1>1. after = FrameResults(p) /\ wonBy = FrameWins(p)
  BY DEF FrameResults, FrameWins, FrameRow
<1>2. Len(events) = 4 /\ DOMAIN events = 1..4
  OBVIOUS
<1>3. AllOf(events) = events[1] \union events[2] \union events[3] \union events[4]
  BY <1>2 DEF AllOf
<1>4. AllOf(events) = FrameEvents(p)
  BY <1>1, <1>3 DEF FrameEvents
<1>5. PICK done \in Lives(5 + Len(events)) :
        /\ Tell(5, events, done)
        /\ pending' = Write(1, done, pending /\ ~Releases(p), pending)
        /\ results' = Write(2, done, after, results)
        /\ state' = Write(3, done, "LIVE", state)
        /\ warming' = Write(4, done, PhaseAt(p) = "warmup", warming)
        /\ memo' = Write(5, done, IF PhaseAt(p) = "warmup" THEN memo ELSE m, memo)
        /\ feed' = IF done < 5 + Len(events) THEN "off" ELSE feed
  BY DEF Frame
<1>. HIDE DEF events
<1>6. /\ CurrentFrame(p) /\ ~Recorded(m)
      /\ UNCHANGED <<match, paged, pageSeen, knowsFormat, lineup, met, misreads>>
      /\ misnumbered' = misnumbered \union (IF n # m THEN {m, n} ELSE {})
  BY DEF Frame
<1>7. done \in 0..9 /\ crashes' \in Nat /\ misreads' + crashes' <= MaxMishaps
  <2>1. misreads' \in Nat /\ misreads' + crashes <= MaxMishaps /\ 5 + Len(events) = 9
    BY <1>2, <1>6 DEF RowsTyped
  <2>2. Len(events) = 4 /\ done \in Lives(5 + 4) /\ Tell(5, events, done)
    BY <1>2, <1>5
  <2>3. done \in 0..(5 + 4) /\ crashes' \in Nat /\ misreads' + crashes' <= MaxMishaps
    BY <2>1, <2>2, LivesCounts
  <2>. QED
    BY <2>3
<1>8. Tells(FrameEvents(p), done > 5)
  <2>1. done \in 0..(5 + 4) /\ Tell(5, events, done) /\ Len(events) = 4 /\ DOMAIN events = 1..4
    BY <1>2, <1>5, <1>7
  <2>2. Tells(AllOf(events), done > 5)
    BY <2>1, TellTells
  <2>. QED
    BY <1>4, <2>2
<1>9. /\ results' = IF done >= 2 THEN FrameResults(p) ELSE results
      /\ state' \in {state, "LIVE"} /\ memo' \in {memo, m} /\ feed' \in {feed, "off"}
  BY <1>1, <1>5, <1>7 DEF Write
<1>10. pending' \in BOOLEAN /\ warming' \in BOOLEAN
  <2>1. pending' = (pending /\ ~Releases(p)) \/ pending' = pending
    BY <1>5 DEF Write
  <2>2. warming' = (PhaseAt(p) = "warmup") \/ warming' = warming
    BY <1>5 DEF Write
  <2>. QED
    BY <2>1, <2>2 DEF RowsTyped
<1>11. FrameEffect(p, done)
  BY <1>6, <1>7, <1>8, <1>9, <1>10 DEF FrameEffect
<1>. QED
  BY <1>6, <1>7, <1>11

\* Something first, a sequence, and something last.
LEMMA InOrder ==
  ASSUME NEW n \in Nat, NEW A, NEW B, NEW C, B = [i \in 1..n |-> B[i]],
         NEW s, s = <<A>> \o B \o <<C>>
  PROVE  /\ DOMAIN s = 1..(n + 2) /\ Len(s) = n + 2
         /\ s[1] = A /\ s[n + 2] = C /\ \A i \in 1..n : s[i + 1] = B[i]
<1> DEFINE S == {A, C} \union {B[i] : i \in 1..n}
<1>0. \A i \in 1..n : B[i] \in S
  OBVIOUS
<1>1. A \in S /\ C \in S /\ B \in Seq(S) /\ Len(B) = n
  <2>. HIDE DEF S
  <2>1. B \in [1..n -> S]
    BY <1>0
  <2>2. A \in S /\ C \in S
    BY DEF S
  <2>3. B \in Seq(S)
    BY <2>1
  <2>4. Len(B) = n
    BY <2>1, <2>3
  <2>. QED
    BY <2>2, <2>3, <2>4
<1>. HIDE DEF S
<1>2. <<A>> \in Seq(S) /\ Len(<<A>>) = 1 /\ <<C>> \in Seq(S) /\ Len(<<C>>) = 1
  BY <1>1
<1> DEFINE t == <<A>> \o B
<1>3. /\ t \in Seq(S) /\ Len(t) = n + 1 /\ t[1] = A
      /\ \A i \in 1..n : t[i + 1] = B[i]
  BY <1>1, <1>2
<1>. HIDE DEF t
<1>4. /\ t \o <<C>> \in Seq(S) /\ Len(t \o <<C>>) = n + 2 /\ (t \o <<C>>)[n + 2] = C
      /\ \A i \in 1..(n + 1) : (t \o <<C>>)[i] = t[i]
  BY <1>2, <1>3
<1>. QED
  BY <1>3, <1>4 DEF t

\* A place that is neither first nor last is one of the sequence's.
LEMMA PlacesInOrder ==
  ASSUME NEW n \in Nat, NEW i \in 1..(n + 2), i # 1, i # n + 2
  PROVE  i - 1 \in 1..n /\ i = (i - 1) + 1
OBVIOUS

Shown(d) == High(d, 0)
PageWon(d, bad) ==
  [m \in 1..Shown(d) |-> IF m \in bad THEN Other(winners[m]) ELSE winners[m]]
PageTarget(d) ==
  IF d = -1 THEN "SCHEDULED" ELSE IF Over(SubSeq(winners, 1, d)) THEN "FINISHED" ELSE "LIVE"
PageRow(d, bad, m) == [map |-> m, won |-> PageWon(d, bad)[m]]
PageResult(d, bad, m) == If(m \in News(d, PageTarget(d)), E6(m, m, PageWon(d, bad)[m]))
PageEvents(d, bad) ==
  If(TellsStart(PageTarget(d)), E4)
    \union (UNION {PageResult(d, bad, m) : m \in 1..Shown(d)})
    \union If(PageTarget(d) = "FINISHED", E7(SeriesOf(PageWon(d, bad))))

PageEffect(d, bad, named, done) ==
  /\ done \in Nat
  /\ Tells(PageEvents(d, bad), done > 5 + Shown(d))
  /\ state' = IF done >= 1 THEN PageTarget(d) ELSE state
  /\ results' = [m \in Maps |->
       IF m <= Shown(d) /\ done >= 1 + m THEN PageRow(d, bad, m) ELSE results[m]]
  /\ knowsFormat' \in BOOLEAN /\ pending' \in BOOLEAN
  /\ pageSeen' = (pageSeen \/ done >= 3 + Shown(d))
  /\ lineup' \in BOOLEAN /\ (lineup => lineup') /\ (lineup' => lineup \/ done >= 4 + Shown(d))
  /\ feed' \in {"off", "on", "leaving"} /\ (feed' # "off" => feed # "off")
  /\ met' = IF PageTarget(d) = "FINISHED" /\ state # "LIVE" THEN BestOf
            ELSE IF met = -1 /\ pageSeen' THEN Shown(d) ELSE met
  /\ paged' = d
  /\ UNCHANGED <<match, memo, warming, misnumbered>>
  /\ misreads' \in Nat /\ misreads <= misreads' /\ (misreads' = 0 => bad = {})
  /\ crashes' \in Nat /\ misreads' + crashes' <= MaxMishaps

\* The match machine's apply, wherever it is killed: what the rows and the events
\* become.
LEMMA PageDoes ==
  ASSUME RowsTyped, MatchTyped, NEW d \in paged..DecidedAt(now), NEW bad, NEW named \in BOOLEAN,
         Page(d, bad, named)
  PROVE  /\ d \in Int /\ d >= -1 /\ paged <= d /\ d <= Len(winners) /\ Shown(d) \in Nat
         /\ state # "FINISHED" /\ bad \subseteq 1..Shown(d)
         /\ \E done \in Nat : PageEffect(d, bad, named, done)
<1> DEFINE count == High(d, 0)
           decided == 1..count
           won == [m \in decided |-> IF m \in bad THEN Other(winners[m]) ELSE winners[m]]
           target == IF d = -1 THEN "SCHEDULED"
                     ELSE IF Over(SubSeq(winners, 1, d)) THEN "FINISHED" ELSE "LIVE"
           events ==
             <<If(TellsStart(target), E4)>>
             \o [m \in decided |-> If(m \in News(d, target), E6(m, m, won[m]))]
             \o <<If(target = "FINISHED", E7(SeriesOf(won)))>>
           writes == 5 + count
<1>1. d \in Int /\ d >= -1 /\ paged <= d /\ d <= Len(winners) /\ count \in Nat /\ count >= d
  BY DEF RowsTyped, MatchTyped, High
<1>2. count = Shown(d) /\ won = PageWon(d, bad) /\ target = PageTarget(d)
  BY DEF Shown, PageWon, PageTarget
<1>3. \A m \in decided :
        If(m \in News(d, target), E6(m, m, won[m])) = PageResult(d, bad, m)
  BY <1>2 DEF PageResult
<1> DEFINE B == [m \in decided |-> If(m \in News(d, target), E6(m, m, won[m]))]
           A == If(TellsStart(target), E4)
           C == If(target = "FINISHED", E7(SeriesOf(won)))
<1>4. events = <<A>> \o B \o <<C>> /\ B = [i \in 1..count |-> B[i]]
  OBVIOUS
<1>. HIDE DEF A, B, C, events
<1>5. Len(events) = count + 2 /\ DOMAIN events = 1..(count + 2)
  <2>. HIDE DEF count
  <2>1. count \in Nat
    BY <1>1
  <2>. QED
    BY <2>1, <1>4, InOrder
<1>6. AllOf(events) = A \union (UNION {B[i] : i \in 1..count}) \union C
  <2>. HIDE DEF count
  <2>1. count \in Nat /\ DOMAIN events = 1..(count + 2)
    BY <1>1, <1>5
  <2>2. events[1] = A /\ events[count + 2] = C /\ \A i \in 1..count : events[i + 1] = B[i]
    BY <2>1, <1>4, InOrder
  <2>3. \A i \in 1..count : i + 1 \in DOMAIN events
    BY <2>1
  <2>4. 1 \in DOMAIN events /\ count + 2 \in DOMAIN events
    BY <2>1
  <2>5. ASSUME NEW i \in DOMAIN events
        PROVE  events[i] = A \/ events[i] = C \/ \E j \in 1..count : events[i] = B[j]
    <3>1. CASE i = 1
      BY <2>2, <3>1
    <3>2. CASE i = count + 2
      BY <2>2, <3>2
    <3>3. CASE i # 1 /\ i # count + 2
      <4>1. i - 1 \in 1..count /\ i = (i - 1) + 1
        BY <2>1, <3>3, PlacesInOrder
      <4>2. events[i] = B[i - 1]
        BY <2>2, <4>1
      <4>. QED
        BY <4>1, <4>2
    <3>. QED
      BY <3>1, <3>2, <3>3
  <2>. QED
    BY <2>2, <2>3, <2>4, <2>5 DEF AllOf
<1>7. AllOf(events) = PageEvents(d, bad)
  <2>1. A = If(TellsStart(PageTarget(d)), E4)
    BY <1>2 DEF A
  <2>2. C = If(PageTarget(d) = "FINISHED", E7(SeriesOf(PageWon(d, bad))))
    BY <1>2 DEF C
  <2>3. \A i \in 1..count : B[i] = PageResult(d, bad, i)
    BY <1>3 DEF B
  <2>4. UNION {B[i] : i \in 1..count} = UNION {PageResult(d, bad, m) : m \in 1..Shown(d)}
    BY <1>2, <2>3
  <2>. QED
    BY <1>6, <2>1, <2>2, <2>4 DEF PageEvents
<1>. USE DEF events
<1>8. PICK done \in Lives(writes + Len(events)) :
       /\ Tell(writes, events, done)
       /\ state' = Write(1, done, target, state)
       /\ results' = [m \in Maps |->
            IF m \in decided THEN Write(1 + m, done, [map |-> m, won |-> won[m]], results[m])
                             ELSE results[m]]
       /\ knowsFormat' = Write(writes - 3, done, knowsFormat \/ named, knowsFormat)
       /\ pageSeen' = Write(writes - 2, done, TRUE, pageSeen)
       /\ lineup' = Write(writes - 1, done, lineup \/ named, lineup)
       /\ pending' = Write(writes, done, IF AsksStart(target) THEN HoldsStart(target) ELSE pending, pending)
       /\ feed' = IF done < writes + Len(events) THEN "off"
                  ELSE IF feed = "on" /\ target # "LIVE" THEN "leaving" ELSE feed
  BY DEF Page, A, B, C
<1>9. /\ state # "FINISHED" /\ bad \subseteq decided /\ paged' = d
      /\ IF bad = {} THEN UNCHANGED misreads
                     ELSE misreads + crashes < MaxMishaps /\ misreads' = misreads + 1
      /\ met' = IF target = "FINISHED" /\ state # "LIVE" THEN BestOf
                ELSE IF met = -1 /\ pageSeen' THEN count ELSE met
      /\ UNCHANGED <<match, memo, warming, misnumbered>>
  BY DEF Page
<1>. HIDE DEF events, won, target, count
<1>10. /\ misreads' \in Nat /\ misreads <= misreads' /\ (misreads' = 0 => bad = {})
       /\ misreads' + crashes <= MaxMishaps
  BY <1>9, MatchLifeAssumption DEF RowsTyped
<1>11. /\ done \in 0..(writes + (count + 2))
       /\ crashes' \in Nat /\ misreads' + crashes' <= MaxMishaps
  <2>1. writes \in Nat /\ count + 2 \in Nat
    BY <1>1
  <2>2. done \in Lives(writes + (count + 2)) /\ Tell(writes, events, done) /\ Len(events) = count + 2
    BY <1>5, <1>8
  <2>. HIDE DEF writes
  <2>. QED
    BY <1>10, <2>1, <2>2, LivesCounts
<1>12. Tells(PageEvents(d, bad), done > writes)
  <2>1. writes \in Nat /\ count + 2 \in Nat
    BY <1>1
  <2>2. Tell(writes, events, done) /\ Len(events) = count + 2 /\ DOMAIN events = 1..(count + 2)
    BY <1>5, <1>8
  <2>. HIDE DEF writes
  <2>. QED
    BY <1>7, <1>11, <2>1, <2>2, TellTells
<1>13. done \in Nat
  BY <1>1, <1>11
<1>14. results' = [m \in Maps |->
         IF m <= count /\ done >= 1 + m THEN PageRow(d, bad, m) ELSE results[m]]
  BY <1>1, <1>2, <1>8, MatchLifeAssumption DEF Write, PageRow, Maps
<1>15. state' = IF done >= 1 THEN PageTarget(d) ELSE state
  BY <1>2, <1>8 DEF Write
<1>16. pageSeen' = (pageSeen \/ done >= 3 + count)
  <2>1. pageSeen' = IF done >= (5 + count) - 2 THEN TRUE ELSE pageSeen
    BY <1>8 DEF Write
  <2>2. (5 + count) - 2 = 3 + count
    BY <1>1
  <2>. QED
    BY <2>1, <2>2, Zenon DEF RowsTyped
<1>17. /\ lineup' \in BOOLEAN /\ (lineup => lineup')
       /\ (lineup' => lineup \/ done >= 4 + count)
  BY <1>1, <1>8, <1>13 DEF Write, RowsTyped
<1>18. knowsFormat' \in BOOLEAN /\ pending' \in BOOLEAN
  <2>1. knowsFormat' = (knowsFormat \/ named) \/ knowsFormat' = knowsFormat
    BY <1>8 DEF Write
  <2>2. pending' = HoldsStart(target) \/ pending' = pending
    BY <1>8 DEF Write
  <2>3. HoldsStart(target) \in BOOLEAN
    BY DEF HoldsStart
  <2>. QED
    BY <2>1, <2>2, <2>3 DEF RowsTyped
<1>19. feed' \in {"off", "on", "leaving"} /\ (feed' # "off" => feed # "off")
  BY <1>8 DEF RowsTyped
<1>20. PageEffect(d, bad, named, done)
  BY <1>2, <1>9, <1>10, <1>11, <1>12, <1>13, <1>14, <1>15, <1>16, <1>17, <1>18, <1>19 DEF PageEffect
<1>. QED
  BY <1>1, <1>2, <1>9, <1>13, <1>20

----------------------------------------------------------------------------
(* The steps of the match. *)

\* A series is as long as its maps, and a map won changes no map before it.
LEMMA Prefixes ==
  ASSUME NEW s \in Seq(Sides)
  PROVE  /\ SubSeq(s, 1, Len(s)) = s /\ Len(s) \in Nat /\ DOMAIN s = 1..Len(s)
         /\ \A i \in 0..Len(s) :
              /\ SubSeq(s, 1, i) \in Seq(Sides) /\ Len(SubSeq(s, 1, i)) = i
              /\ \A j \in 1..i : SubSeq(s, 1, i)[j] = s[j]
         /\ \A side \in Sides :
              /\ Append(s, side) \in Seq(Sides) /\ Len(Append(s, side)) = Len(s) + 1
              /\ \A i \in 1..Len(s) : Append(s, side)[i] = s[i]
              /\ \A i \in 0..Len(s) : SubSeq(Append(s, side), 1, i) = SubSeq(s, 1, i)
OBVIOUS

\* The match goes on: what was true of the maps played stays true.
LEMMA PlayStep ==
  ASSUME LifeInv, NEW side \in Sides, Play(side)
  PROVE  LifeInv'
<1>1. /\ ~MatchOver /\ now' = now + 1
      /\ winners' = IF PhaseAt(now + 1) = "over" THEN Append(winners, side) ELSE winners
      /\ UNCHANGED <<paged, feed, rows, told, met, misnumbered, lost, misreads, crashes>>
  BY DEF Play
<1>2. now \in Nat /\ now <= 4 * BestOf /\ Len(winners) = now \div 4 /\ BestOf \in Nat
  BY MatchLifeAssumption DEF LifeInv, MatchTyped, Positions, DecidedAt
<1>3. now + 1 \in Positions
  <2>1. Len(winners) # BestOf
    BY <1>1 DEF MatchOver, Over
  <2>. QED
    BY <1>2, <2>1 DEF Positions
<1>4. /\ winners' \in Seq(Sides) /\ Len(winners') = DecidedAt(now') /\ Len(winners) <= Len(winners')
      /\ \A i \in 1..Len(winners) : winners'[i] = winners[i]
      /\ \A i \in 0..(Len(winners') - 1) : ~Over(SubSeq(winners', 1, i))
  <2>1. winners \in Seq(Sides) /\ Len(winners) \in Nat
    BY DEF LifeInv, MatchTyped
  <2>2. CASE PhaseAt(now + 1) = "over"
    <3>1. (now + 1) % 4 = 0
      BY <1>2, <2>2 DEF PhaseAt
    <3>2. (now + 1) \div 4 = now \div 4 + 1
      BY <1>2, <3>1
    <3>3. winners' = Append(winners, side)
      BY <1>1, <2>2
    <3>4. \A i \in 0..Len(winners) : SubSeq(winners', 1, i) = SubSeq(winners, 1, i)
      BY <2>1, <3>3, Prefixes
    <3>5. \A i \in 0..Len(winners) : ~Over(SubSeq(winners, 1, i))
      <4>1. ~Over(SubSeq(winners, 1, Len(winners)))
        BY <1>1, <2>1, Prefixes DEF MatchOver
      <4>2. \A i \in 0..(Len(winners) - 1) : ~Over(SubSeq(winners, 1, i))
        BY DEF LifeInv, MatchTyped
      <4>3. \A i \in 0..Len(winners) : i = Len(winners) \/ i \in 0..(Len(winners) - 1)
        BY <2>1
      <4>. QED
        BY <4>1, <4>2, <4>3
    <3>6. /\ winners' \in Seq(Sides) /\ Len(winners') = Len(winners) + 1
          /\ \A i \in 1..Len(winners) : winners'[i] = winners[i]
      BY <2>1, <3>3, Prefixes
    <3>7. \A i \in 0..(Len(winners') - 1) : i \in 0..Len(winners)
      BY <2>1, <3>6
    <3>8. Len(winners') = DecidedAt(now') /\ Len(winners) <= Len(winners')
      BY <1>1, <1>2, <2>1, <3>2, <3>6 DEF DecidedAt
    <3>9. \A i \in 0..(Len(winners') - 1) : ~Over(SubSeq(winners', 1, i))
      BY <3>4, <3>5, <3>7
    <3>. QED
      BY <3>6, <3>8, <3>9
  <2>3. CASE PhaseAt(now + 1) # "over"
    <3>1. (now + 1) % 4 # 0
      BY <1>2, <2>3 DEF PhaseAt
    <3>2. (now + 1) \div 4 = now \div 4
      BY <1>2, <3>1
    <3>3. winners' = winners
      BY <1>1, <2>3
    <3>. QED
      BY <1>1, <1>2, <2>1, <3>2, <3>3 DEF LifeInv, MatchTyped, DecidedAt
  <2>. QED
    BY <2>2, <2>3
<1>5. MatchTyped'
  BY <1>1, <1>3, <1>4 DEF MatchTyped
<1>6. RowsTyped'
  <2>1. paged <= DecidedAt(now')
    BY <1>1, <1>2, <1>4 DEF LifeInv, RowsTyped, MatchTyped, DecidedAt
  <2>. QED
    BY <1>1, <2>1 DEF LifeInv, RowsTyped, rows
<1>7. results' = results /\ state' = state /\ told' = told /\ lost' = lost /\ misreads' = misreads
  BY <1>1 DEF rows
<1>8. Numbered'
  <2>1. \A n \in Maps : Occupied(n) => results[n].map \in 1..Len(winners) /\ results[n].map <= Len(winners')
    <3>1. \A n \in Maps : Occupied(n) => results[n].map \in Maps
      BY DEF LifeInv, RowsTyped, Occupied, NoResult
    <3>2. Len(winners) \in Nat /\ Len(winners') \in Nat
      BY <1>4 DEF LifeInv, MatchTyped
    <3>. QED
      BY <1>4, <3>1, <3>2 DEF LifeInv, Numbered, Maps
  <2>. QED
    BY <1>1, <2>1 DEF LifeInv, Numbered, Occupied, rows
<1>9. ResultsAreTrue'
  <2>1. \A n \in Maps : Occupied(n) => results[n].map \in 1..Len(winners)
    <3>1. \A n \in Maps : Occupied(n) => results[n].map \in Maps
      BY DEF LifeInv, RowsTyped, Occupied, NoResult
    <3>2. Len(winners) \in Nat
      BY DEF LifeInv, MatchTyped
    <3>. QED
      BY <3>1, <3>2 DEF LifeInv, Numbered, Maps
  <2>2. misreads' = 0 => \A n \in Maps : Occupied(n) => results[n].won = winners'[results[n].map]
    BY <1>4, <1>7, <2>1 DEF LifeInv, ResultsAreTrue
  <2>. QED
    BY <1>7, <2>2 DEF ResultsAreTrue, Occupied
<1>10. ToldInv' /\ NewsIsTold'
  BY <1>1 DEF LifeInv, ToldInv, NewsIsTold, Occupied, Started, TellsResult, rows
<1>11. state # "FINISHED"
  BY <1>1 DEF LifeInv
<1>12. OneResultPerMap' /\ StartIsToldFirst'
  BY <1>1 DEF LifeInv, OneResultPerMap, StartIsToldFirst
<1>13. EndIsNotEarly'
  BY <1>1, <1>7 DEF LifeInv, EndIsNotEarly
<1>. QED
  BY <1>5, <1>6, <1>7, <1>8, <1>9, <1>10, <1>11, <1>12, <1>13
  DEF LifeInv, ResultsAreTold, EndIsTold

\* A worker that comes up or goes down tells nothing and writes no row.
LEMMA OtherSteps ==
  ASSUME LifeInv, BringUp \/ Disconnect \/ Silence \/ UNCHANGED vars
  PROVE  LifeInv'
<1>1. /\ UNCHANGED <<match, paged, state, pageSeen, knowsFormat, lineup, memo, pending,
                     results, told, met, misnumbered, lost, misreads, crashes>>
      /\ warming' \in BOOLEAN
      /\ feed' = feed \/ feed' = "off" \/ (feed' = "on" /\ state = "LIVE")
  BY DEF BringUp, Disconnect, Silence, vars, rows, LifeInv, RowsTyped
<1>2. MatchTyped' /\ RowsTyped'
  BY <1>1 DEF LifeInv, MatchTyped, RowsTyped, match
<1>3. Numbered' /\ ResultsAreTrue' /\ NewsIsTold'
  BY <1>1 DEF LifeInv, Numbered, ResultsAreTrue, NewsIsTold, Occupied, TellsResult, match
<1>4. ToldInv'
  BY <1>1 DEF LifeInv, ToldInv, Occupied, Started
<1>5. MatchOver' <=> MatchOver
  BY <1>1 DEF MatchOver, match
<1>. QED
  BY <1>1, <1>2, <1>3, <1>4, <1>5
  DEF LifeInv, OneResultPerMap, ResultsAreTold, EndIsNotEarly, StartIsToldFirst, EndIsTold, match

\* An event says what it is.
LEMMA EventsAre ==
  ASSUME NEW n, NEW m, NEW side, NEW series
  PROVE  /\ E4.type = "E4" /\ E5(n, m).type = "E5"
         /\ E6(n, m, side).type = "E6" /\ E6(n, m, side).number = n /\ E6(n, m, side).map = m
         /\ E7(series).type = "E7" /\ E7(series).score = series
BY DEF E4, E5, E6, E7

\* Numbers and maps in events are a series', and an end has nothing but its score.
LEMMA EventsTyped ==
  ASSUME NEW e, IsEvent(e)
  PROVE  /\ e.type \in {"E5", "E6"} => e.number \in Maps /\ e.map \in Maps
         /\ e.type = "E7" => e = E7(e.score)
<1>1. CASE e = E4
  BY <1>1 DEF E4
<1>2. CASE \E n, m \in Maps : e = E5(n, m) \/ \E side \in Sides : e = E6(n, m, side)
  <2>1. PICK n \in Maps, m \in Maps : e = E5(n, m) \/ \E side \in Sides : e = E6(n, m, side)
    BY <1>2
  <2>2. CASE e = E5(n, m)
    BY <2>2 DEF E5
  <2>3. ASSUME NEW side \in Sides, e = E6(n, m, side)
        PROVE  e.type = "E6" /\ e.number = n /\ e.map = m
    BY <2>3 DEF E6
  <2>. QED
    BY <2>1, <2>2, <2>3
<1>3. CASE e = E7(e.score)
  <2>1. e.type = "E7"
    BY <1>3 DEF E7
  <2>. QED
    BY <1>3, <2>1
<1>. QED
  BY <1>1, <1>2, <1>3 DEF IsEvent

\* What is told or lost stays so.
LEMMA MoreIsTold ==
  ASSUME told \subseteq told', lost \subseteq lost', misnumbered \subseteq misnumbered'
  PROVE  /\ Started => Started'
         /\ \A m : TellsResult(m) => TellsResult(m)'
         /\ \A e : e \in told \union lost => e \in told' \union lost'
<1>1. Started => Started'
  BY DEF Started
<1>2. ASSUME NEW m, TellsResult(m) PROVE TellsResult(m)'
  BY <1>2 DEF TellsResult
<1>. QED
  BY <1>1, <1>2

\* The live machine keeps the invariant: a new row has a free number and a true
\* winner, and is told, lost or misnumbered.
LEMMA FrameStep ==
  ASSUME LifeInv, NEW p \in Positions, CurrentFrame(p), ~Recorded(MapAt(p)),
         NEW done \in 0..9, FrameEffect(p, done)
  PROVE  LifeInv'
<1> DEFINE m == MapAt(p)
           n == NumberOf(m)
           over == PhaseAt(p) = "over"
           filled == over /\ done >= 2
<1>1. /\ m \in Maps /\ Len(winners) <= m /\ (over => m <= Len(winners))
      /\ p >= 1 /\ feed # "off"
  BY PositionsAre DEF LifeInv, CurrentFrame
<1>2. n \in Maps /\ n <= m /\ ~Occupied(n) /\ (~lineup => \A i \in 1..(n - 1) : Occupied(i))
  <2>1. /\ n \in 1..m /\ ~Occupied(n) /\ (~lineup => \A i \in 1..(n - 1) : Occupied(i))
    BY NumberIsFree DEF LifeInv
  <2>2. m \in Nat /\ BestOf \in Nat /\ m <= BestOf
    BY <1>1, MatchLifeAssumption DEF Maps
  <2>. HIDE DEF m, n
  <2>. QED
    BY <2>1, <2>2 DEF Maps
<1>3. winners \in Seq(Sides) /\ Len(winners) \in Nat
  BY DEF LifeInv, MatchTyped
<1>4. over => m = Len(winners) /\ winners[m] \in Sides /\ m \in 1..Len(winners)
  <2>. HIDE DEF m, over
  <2>1. m \in Nat /\ m >= 1
    BY <1>1 DEF Maps
  <2>. QED
    BY <1>1, <1>3, <2>1
<1>5. \A i \in Maps : results[i].map # m
  BY DEF Recorded
<1>6. /\ results' = IF filled THEN [results EXCEPT ![n] = FrameRow(m)] ELSE results
      /\ FrameResults(p) = IF over THEN [results EXCEPT ![n] = FrameRow(m)] ELSE results
  BY DEF FrameEffect, FrameResults
<1>7. FrameEvents(p) =
        If(Releases(p), E4)
          \union If(over, E6(n, m, winners[m]))
          \union If(over /\ knowsFormat /\ Decides(FrameWins(p)), E7(SeriesOf(FrameWins(p))))
          \union If(IsNewMap(p), E5(n, m))
  BY DEF FrameEvents
<1>8. /\ Tells(FrameEvents(p), done > 5)
      /\ state' \in {state, "LIVE"} /\ feed' \in {feed, "off"} /\ memo' \in {memo, m}
      /\ warming' \in BOOLEAN /\ pending' \in BOOLEAN
      /\ misnumbered' = misnumbered \union (IF n # m THEN {m, n} ELSE {})
      /\ UNCHANGED <<match, paged, pageSeen, knowsFormat, lineup, met, misreads>>
      /\ crashes' \in Nat /\ misreads' + crashes' <= MaxMishaps
  BY DEF FrameEffect
<1>. HIDE DEF m, n, over
<1>9. /\ told \subseteq told' /\ lost \subseteq lost' /\ misnumbered \subseteq misnumbered'
      /\ winners' = winners /\ now' = now
  BY <1>8 DEF Tells, match
<1>10. MatchTyped'
  BY <1>9 DEF LifeInv, MatchTyped
<1>11. /\ results' \in [Maps -> {NoResult} \union [map : Maps, won : Sides]]
       /\ \A i \in Maps : i # n \/ ~filled => results'[i] = results[i]
       /\ filled => results'[n] = FrameRow(m)
       /\ filled => FrameRow(m).map = m /\ FrameRow(m).won = winners[m]
       /\ FrameRow(m).map = m
  BY <1>1, <1>2, <1>4, <1>6 DEF LifeInv, RowsTyped, FrameRow
<1>12. RowsTyped'
  <2>1. memo' \in 0..BestOf
    BY <1>1, <1>8, MatchLifeAssumption DEF LifeInv, RowsTyped, Maps
  <2>2. misnumbered' \subseteq Maps
    BY <1>1, <1>2, <1>8 DEF LifeInv, RowsTyped
  <2>. QED
    BY <1>8, <1>9, <1>11, <2>1, <2>2 DEF LifeInv, RowsTyped
<1>13. /\ \A i \in Maps : Occupied(i) => Occupied(i)' /\ results'[i] = results[i] /\ i # n
       /\ \A i \in Maps : Occupied(i)' => Occupied(i) \/ (filled /\ i = n)
       /\ filled => results'[n].map # 0
  <2>1. ASSUME NEW i \in Maps, Occupied(i) PROVE Occupied(i)' /\ results'[i] = results[i] /\ i # n
    BY <1>2, <1>11, <2>1 DEF Occupied
  <2>2. ASSUME NEW i \in Maps, Occupied(i)' PROVE Occupied(i) \/ (filled /\ i = n)
    BY <1>11, <2>2 DEF Occupied
  <2>3. filled => results'[n].map # 0
    BY <1>1, <1>11, MatchLifeAssumption DEF Maps
  <2>. QED
    BY <2>1, <2>2, <2>3
<1>14. Numbered'
  <2>1. ASSUME NEW i \in Maps, Occupied(i)' PROVE i <= results'[i].map /\ results'[i].map <= Len(winners')
    <3>1. CASE Occupied(i)
      BY <1>9, <1>13, <3>1 DEF LifeInv, Numbered
    <3>2. CASE filled /\ i = n
      BY <1>2, <1>3, <1>4, <1>9, <1>11, <3>2
    <3>. QED
      BY <1>13, <2>1, <3>1, <3>2
  <2>2. ASSUME NEW i \in Maps, NEW j \in Maps, Occupied(i)', results'[i].map = results'[j].map
        PROVE  i = j
    <3>0. Occupied(j)'
      BY <2>2 DEF Occupied
    <3>1. CASE Occupied(i) /\ Occupied(j)
      BY <1>13, <2>2, <3>1 DEF LifeInv, Numbered
    <3>2. CASE filled /\ (i = n \/ j = n)
      BY <1>5, <1>11, <2>2, <3>2
    <3>. QED
      BY <1>13, <2>2, <3>0, <3>1, <3>2
  <2>3. ASSUME ~lineup', NEW i \in Maps, Occupied(i)', NEW k \in 1..i PROVE Occupied(k)'
    <3>0. k \in Maps /\ ~lineup
      BY <1>8, <2>3, MatchLifeAssumption DEF Maps
    <3>1. CASE Occupied(i)
      BY <1>13, <2>3, <3>0, <3>1 DEF LifeInv, Numbered
    <3>2. CASE filled /\ i = n
      <4>1. k = n \/ k \in 1..(n - 1)
        BY <1>2, <2>3, <3>2 DEF Maps
      <4>2. CASE k = n
        BY <1>13, <3>2, <4>2 DEF Occupied
      <4>3. CASE k \in 1..(n - 1)
        BY <1>2, <1>13, <3>0, <4>3
      <4>. QED
        BY <4>1, <4>2, <4>3
    <3>. QED
      BY <1>13, <2>3, <3>1, <3>2
  <2>. QED
    BY <2>1, <2>2, <2>3 DEF Numbered
<1>15. ResultsAreTrue'
  <2>1. ASSUME misreads' = 0, NEW i \in Maps, Occupied(i)' PROVE results'[i].won = winners'[results'[i].map]
    <3>1. CASE Occupied(i)
      <4>1. misreads = 0 /\ results'[i] = results[i]
        BY <1>8, <1>13, <2>1, <3>1
      <4>. QED
        BY <1>9, <3>1, <4>1 DEF LifeInv, ResultsAreTrue
    <3>2. CASE filled /\ i = n
      BY <1>9, <1>11, <3>2
    <3>. QED
      BY <1>13, <2>1, <3>1, <3>2
  <2>. QED
    BY <2>1 DEF ResultsAreTrue
<1>16. \A e \in told' \ told :
         /\ e \in FrameEvents(p) /\ \A t \in told : ~SameKey(t, e)
         /\ results' = FrameResults(p) /\ (filled <=> over)
  <2>1. \A e \in told' \ told : done > 5 /\ e \in FrameEvents(p) /\ \A t \in told : ~SameKey(t, e)
    BY <1>8 DEF Tells
  <2>2. done > 5 => (filled <=> over)
    OBVIOUS
  <2>. HIDE DEF filled
  <2>. QED
    BY <1>6, <2>1, <2>2
<1>17. \A e \in FrameEvents(p) :
         \/ e = E4 \/ e = E5(n, m)
         \/ over /\ e = E6(n, m, winners[m])
         \/ over /\ Decides(FrameWins(p)) /\ e = E7(SeriesOf(FrameWins(p)))
  BY <1>7 DEF If
<1>18. \A e \in FrameEvents(p) :
         /\ IsEvent(e)
         /\ e.type = "E6" => over /\ e.number = n /\ e.map = m /\ e = E6(n, m, winners[m])
         /\ e.type = "E7" => over /\ Decides(FrameWins(p))
  BY <1>1, <1>2, <1>4, <1>17 DEF IsEvent, E4, E5, E6, E7
<1>19. Started /\ Started' /\ \A k : TellsResult(k) => TellsResult(k)'
  BY <1>1, <1>9, MoreIsTold DEF LifeInv, ToldInv
<1>20. n # m => n \in misnumbered' /\ m \in misnumbered'
  BY <1>8
<1>21. ToldInv'
  <2>1. \A e \in told' \union lost' : IsEvent(e)
    BY <1>8, <1>18 DEF Tells, LifeInv, ToldInv
  <2>2. ASSUME NEW e \in told', e.type = "E6"
        PROVE  \/ e.number = e.map /\ Occupied(e.map)'
               \/ e.number \in misnumbered' /\ e.map \in misnumbered'
    <3>1. CASE e \in told
      <4>1. CASE e.number = e.map /\ Occupied(e.map)
        <5>1. e.map \in Maps
          BY <2>2, <3>1, EventsTyped DEF LifeInv, ToldInv
        <5>. QED
          BY <1>13, <4>1, <5>1
      <4>2. CASE e.number \in misnumbered /\ e.map \in misnumbered
        BY <1>9, <4>2
      <4>. QED
        BY <2>2, <3>1, <4>1, <4>2 DEF LifeInv, ToldInv
    <3>2. CASE e \notin told
      <4>1. filled /\ e.number = n /\ e.map = m
        BY <1>16, <1>18, <2>2, <3>2
      <4>2. CASE n = m
        BY <1>13, <4>1, <4>2 DEF Occupied
      <4>3. CASE n # m
        BY <1>20, <4>1, <4>3
      <4>. QED
        BY <4>2, <4>3
    <3>. QED
      BY <3>1, <3>2
  <2>3. state' # "SCHEDULED" /\ paged' # -1
    BY <1>1, <1>8 DEF LifeInv, ToldInv
  <2>. QED
    BY <1>19, <2>1, <2>2, <2>3 DEF ToldInv
<1>22. NewsIsTold'
  <2>1. ASSUME NEW k \in Maps, Occupied(k)', k > met, met = -1 => k > paged PROVE TellsResult(k)'
    <3>1. CASE Occupied(k)
      BY <1>19, <2>1, <3>1 DEF LifeInv, NewsIsTold
    <3>2. CASE filled /\ k = n
      <4>1. CASE n # m
        BY <1>20, <3>2, <4>1 DEF TellsResult
      <4>2. CASE n = m
        <5>1. E6(n, m, winners[m]) \in FrameEvents(p)
          BY <1>7, <3>2 DEF If
        <5>2. CASE E6(n, m, winners[m]) \in told' \union lost'
          BY <3>2, <4>2, <5>2, EventsAre DEF TellsResult
        <5>3. CASE \E t \in told : SameKey(t, E6(n, m, winners[m]))
          <6>1. PICK t \in told : t.type = "E6" /\ t.number = n
            BY <5>3 DEF SameKey, E6
          <6>2. n \in misnumbered
            BY <1>2, <6>1 DEF LifeInv, ToldInv
          <6>. QED
            BY <1>9, <3>2, <6>2 DEF TellsResult
        <5>. QED
          BY <1>8, <5>1, <5>2, <5>3 DEF Tells
      <4>. QED
        BY <4>1, <4>2
    <3>. QED
      BY <1>13, <2>1, <3>1, <3>2
  <2>. QED
    BY <1>8, <2>1 DEF LifeInv, NewsIsTold
<1>23. OneResultPerMap'
  <2>1. SUFFICES ASSUME NEW d \in told', NEW e \in told', d.type = "E6", e.type = "E6",
                        d.map = e.map, d.map \notin misnumbered'
                 PROVE  d = e
    BY DEF OneResultPerMap
  <2>2. CASE d \in told /\ e \in told
    BY <1>9, <2>1, <2>2 DEF LifeInv, OneResultPerMap
  <2>3. CASE d \notin told /\ e \notin told
    BY <1>16, <1>18, <2>1, <2>3
  <2>4. ASSUME NEW a \in told, NEW b \in told' \ told, a.type = "E6", b.type = "E6", a.map = b.map,
               a.map \notin misnumbered'
        PROVE  FALSE
    <3>1. b.number = n /\ b.map = m
      BY <1>16, <1>18, <2>4
    <3>2. n = m
      BY <1>20, <2>4, <3>1
    <3>3. Occupied(a.map)
      BY <1>9, <2>4 DEF LifeInv, ToldInv
    <3>. QED
      BY <1>2, <2>4, <3>1, <3>2, <3>3
  <2>. QED
    BY <2>1, <2>2, <2>3, <2>4
<1>24. MatchOver' <=> MatchOver
  BY <1>9 DEF MatchOver
<1>25. state' = "FINISHED" => state = "FINISHED" /\ MatchOver
  BY <1>8 DEF LifeInv
<1>26. ResultsAreTold'
  BY <1>8, <1>9, <1>19, <1>25 DEF LifeInv, ResultsAreTold, TellsResult
<1>27. EndIsNotEarly'
  <2>1. SUFFICES ASSUME NEW e \in told', e.type = "E7", misreads' = 0 PROVE MatchOver
    BY <1>24 DEF EndIsNotEarly
  <2>2. CASE e \in told
    BY <1>8, <2>1, <2>2 DEF LifeInv, EndIsNotEarly
  <2>3. CASE e \notin told
    <3>1. results' = FrameResults(p) /\ Decides(FrameWins(p))
      BY <1>16, <1>18, <2>1, <2>3
    <3> DEFINE shown == FrameResults(p)
               wonBy == FrameWins(p)
    <3>2. wonBy = [i \in Maps |-> shown[i].won]
      BY DEF FrameWins
    <3>. HIDE DEF shown, wonBy
    <3>3. ASSUME NEW side \in Sides, NEW i \in Maps, wonBy[i] = side
          PROVE  /\ shown[i].map \in 1..Len(winners) /\ winners[shown[i].map] = side
                 /\ \A j \in Maps : shown[i].map = shown[j].map => i = j
      <4>1. shown = results'
        BY <3>1 DEF shown
      <4>2. Occupied(i)'
        <5>1. results'[i].won \in Sides
          BY <3>2, <3>3, <4>1
        <5>2. results'[i] # NoResult
          BY <5>1 DEF NoResult, Sides
        <5>3. results'[i] \in [map : Maps, won : Sides]
          BY <1>11, <5>2
        <5>4. results'[i].map # 0
          BY <5>3, MatchLifeAssumption DEF Maps
        <5>. QED
          BY <5>4 DEF Occupied
      <4>3. results'[i].map \in Maps /\ results'[i].map <= Len(winners)
        BY <1>9, <1>11, <1>14, <4>2 DEF Occupied, Numbered, NoResult
      <4>4. results'[i].map \in 1..Len(winners)
        BY <1>3, <4>3 DEF Maps
      <4>5. results'[i].won = winners[results'[i].map]
        BY <1>9, <1>15, <2>1, <4>2 DEF ResultsAreTrue
      <4>6. \A j \in Maps : results'[i].map = results'[j].map => i = j
        BY <1>14, <4>2 DEF Numbered
      <4>. QED
        BY <3>2, <3>3, <4>1, <4>4, <4>5, <4>6
    <3>4. \A side \in Sides : WinsIn(wonBy, side) \in Nat /\ WinsIn(wonBy, side) <= WinsIn(winners, side)
      BY <3>2, <3>3, RowsCountLess DEF LifeInv
    <3>. QED
      BY <3>1, <3>4, DecidesIsOver DEF LifeInv, wonBy
  <2>. QED
    BY <2>2, <2>3
<1>28. StartIsToldFirst' /\ EndIsTold'
  BY <1>8, <1>9, <1>19, <1>25 DEF LifeInv, StartIsToldFirst, EndIsTold, Started
<1>. QED
  BY <1>10, <1>12, <1>14, <1>15, <1>21, <1>22, <1>23, <1>24, <1>25, <1>26, <1>27, <1>28 DEF LifeInv

\* The match machine keeps the invariant: it writes rows in order, so that those not
\* reached have higher numbers, and the state before them, so that a match closed by a
\* killed process has lost what it did not tell.
LEMMA PageStep ==
  ASSUME LifeInv, NEW d, NEW bad, NEW named, NEW done \in Nat, PageEffect(d, bad, named, done),
         d \in Int, d >= -1, paged <= d, d <= Len(winners), state # "FINISHED", bad \subseteq 1..Shown(d)
  PROVE  LifeInv'
<1> DEFINE c == Shown(d)
           T == PageTarget(d)
           won == PageWon(d, bad)
           silent == Silent(T)
<1>1. c \in Nat /\ c >= d /\ (c = d \/ c = 0)
  BY DEF Shown, High
<1>2. /\ winners \in Seq(Sides) /\ Len(winners) \in Nat /\ Len(winners) <= BestOf /\ BestOf \in Nat \ {0}
      /\ c <= Len(winners) /\ DecidedAt(now) = Len(winners)
  <2>1. now \in Nat /\ now <= 4 * BestOf /\ Len(winners) = now \div 4 /\ BestOf \in Nat \ {0}
    BY MatchLifeAssumption DEF LifeInv, MatchTyped, Positions, DecidedAt
  <2>2. winners \in Seq(Sides) /\ DecidedAt(now) = Len(winners)
    BY DEF LifeInv, MatchTyped
  <2>3. Len(winners) \in Nat /\ Len(winners) <= BestOf
    BY <2>1, <2>2
  <2>. QED
    BY <1>1, <2>1, <2>2, <2>3
<1>3. /\ Tells(PageEvents(d, bad), done > 5 + c)
      /\ state' = IF done >= 1 THEN T ELSE state
      /\ results' = [m \in Maps |->
           IF m <= c /\ done >= 1 + m THEN PageRow(d, bad, m) ELSE results[m]]
      /\ knowsFormat' \in BOOLEAN /\ pending' \in BOOLEAN
      /\ pageSeen' = (pageSeen \/ done >= 3 + c)
      /\ lineup' \in BOOLEAN /\ (lineup => lineup')
      /\ feed' \in {"off", "on", "leaving"} /\ (feed' # "off" => feed # "off")
      /\ met' = IF T = "FINISHED" /\ state # "LIVE" THEN BestOf
                ELSE IF met = -1 /\ pageSeen' THEN c ELSE met
      /\ paged' = d
      /\ UNCHANGED <<match, memo, warming, misnumbered>>
      /\ misreads' \in Nat /\ misreads <= misreads' /\ (misreads' = 0 => bad = {})
      /\ crashes' \in Nat /\ misreads' + crashes' <= MaxMishaps
  BY DEF PageEffect
<1>4. PageEvents(d, bad) =
        If(TellsStart(T), E4)
          \union (UNION {PageResult(d, bad, m) : m \in 1..c})
          \union If(T = "FINISHED", E7(SeriesOf(won)))
  BY DEF PageEvents
<1>5. /\ T \in {"SCHEDULED", "LIVE", "FINISHED"}
      /\ d = -1 <=> T = "SCHEDULED"
      /\ T = "FINISHED" => Over(SubSeq(winners, 1, d))
  BY DEF PageTarget
<1>6. \A m \in 1..c :
        /\ won[m] \in Sides /\ PageRow(d, bad, m) = [map |-> m, won |-> won[m]]
        /\ bad = {} => won[m] = winners[m]
        /\ m \in Maps /\ m \in 1..Len(winners)
        /\ PageResult(d, bad, m) =
             IF ~silent /\ results[m].map = 0 THEN {E6(m, m, won[m])} ELSE {}
  <2>1. SUFFICES ASSUME NEW m \in 1..c
        PROVE  /\ won[m] \in Sides /\ PageRow(d, bad, m) = [map |-> m, won |-> won[m]]
               /\ bad = {} => won[m] = winners[m]
               /\ m \in Maps /\ m \in 1..Len(winners)
               /\ PageResult(d, bad, m) =
                    IF ~silent /\ results[m].map = 0 THEN {E6(m, m, won[m])} ELSE {}
    OBVIOUS
  <2>2. m \in Maps /\ m \in 1..Len(winners) /\ winners[m] \in Sides /\ m \in 1..d
    <3>1. c = d
      BY <1>1, <2>1
    <3>. HIDE DEF c
    <3>2. m \in 1..Len(winners)
      BY <1>1, <1>2, <2>1
    <3>. QED
      BY <1>1, <1>2, <2>1, <3>1, <3>2 DEF Maps
  <2>3. won[m] = IF m \in bad THEN Other(winners[m]) ELSE winners[m]
    BY <2>1 DEF PageWon
  <2>4. won[m] \in Sides /\ (bad = {} => won[m] = winners[m])
    BY <2>2, <2>3 DEF Other, Sides
  <2>5. PageRow(d, bad, m) = [map |-> m, won |-> won[m]]
    BY DEF PageRow
  <2>6. m \in News(d, T) <=> ~silent /\ results[m].map = 0
    BY <2>2 DEF News
  <2>7. PageResult(d, bad, m) = IF ~silent /\ results[m].map = 0 THEN {E6(m, m, won[m])} ELSE {}
    BY <2>6 DEF PageResult, If
  <2>. QED
    BY <2>2, <2>4, <2>5, <2>7
<1>7. silent <=> ~pageSeen \/ (T = "FINISHED" /\ state # "LIVE")
  BY DEF Silent
<1>. HIDE DEF c, T, won, silent
<1>8. /\ told \subseteq told' /\ lost \subseteq lost' /\ misnumbered' = misnumbered
      /\ winners' = winners /\ now' = now
  BY <1>3 DEF Tells, match
<1>9. MatchTyped'
  BY <1>8 DEF LifeInv, MatchTyped
<1>10. \A m \in Maps :
         /\ m <= c /\ done >= 1 + m => results'[m].map = m /\ results'[m].won = won[m]
         /\ ~(m <= c /\ done >= 1 + m) => results'[m] = results[m]
         /\ m <= c => m \in 1..c
         /\ results'[m] \in {NoResult} \union [map : Maps, won : Sides]
  <2>1. SUFFICES ASSUME NEW m \in Maps
        PROVE  /\ m <= c /\ done >= 1 + m => results'[m].map = m /\ results'[m].won = won[m]
               /\ ~(m <= c /\ done >= 1 + m) => results'[m] = results[m]
               /\ m <= c => m \in 1..c
               /\ results'[m] \in {NoResult} \union [map : Maps, won : Sides]
    OBVIOUS
  <2>2. results'[m] = IF m <= c /\ done >= 1 + m THEN PageRow(d, bad, m) ELSE results[m]
    BY <1>3
  <2>3. m <= c => m \in 1..c
    BY <1>1, MatchLifeAssumption DEF Maps
  <2>4. results[m] \in {NoResult} \union [map : Maps, won : Sides]
    BY DEF LifeInv, RowsTyped
  <2>5. CASE m <= c /\ done >= 1 + m
    BY <1>6, <2>2, <2>3, <2>5
  <2>6. CASE ~(m <= c /\ done >= 1 + m)
    BY <2>2, <2>3, <2>4, <2>6
  <2>. QED
    BY <2>5, <2>6
<1>11. RowsTyped'
  <2>1. results' \in [Maps -> {NoResult} \union [map : Maps, won : Sides]]
    <3>1. \A m \in Maps : results'[m] \in {NoResult} \union [map : Maps, won : Sides]
      BY <1>10
    <3>2. results' = [m \in Maps |-> results'[m]]
      BY <1>3
    <3>. HIDE <1>3
    <3>. QED
      BY <3>1, <3>2
  <2>2. met' \in -1..BestOf
    BY <1>1, <1>2, <1>3 DEF LifeInv, RowsTyped
  <2>3. state' \in {"SCHEDULED", "LIVE", "FINISHED"}
    BY <1>3, <1>5 DEF LifeInv, RowsTyped
  <2>4. pageSeen' \in BOOLEAN /\ memo' \in 0..BestOf /\ warming' \in BOOLEAN /\ misnumbered' \subseteq Maps
    BY <1>3 DEF LifeInv, RowsTyped
  <2>5. paged' \in Int /\ -1 <= paged' /\ paged' <= DecidedAt(now')
    BY <1>2, <1>3, <1>8
  <2>. QED
    BY <1>3, <2>1, <2>2, <2>3, <2>4, <2>5 DEF RowsTyped
<1>12. \A m \in Maps :
         /\ Occupied(m) => Occupied(m)'
         /\ Occupied(m)' => Occupied(m) \/ (m \in 1..c /\ done >= 1 + m)
         /\ m \in 1..c /\ done >= 1 + m => Occupied(m)'
  <2>1. \A m \in Maps : m # 0
    BY <1>2 DEF Maps
  <2>2. \A m \in 1..c : m <= c
    BY <1>1
  <2>3. ASSUME NEW m \in Maps
        PROVE  /\ Occupied(m) => Occupied(m)'
               /\ Occupied(m)' => Occupied(m) \/ (m \in 1..c /\ done >= 1 + m)
               /\ m \in 1..c /\ done >= 1 + m => Occupied(m)'
    <3>1. CASE m <= c /\ done >= 1 + m
      <4>1. m \in 1..c /\ results'[m].map # 0
        BY <1>10, <2>1, <3>1
      <4>. QED
        BY <3>1, <4>1 DEF Occupied
    <3>2. CASE ~(m <= c /\ done >= 1 + m)
      <4>1. results'[m] = results[m]
        BY <1>10, <3>2
      <4>. QED
        BY <2>2, <3>2, <4>1 DEF Occupied
    <3>. QED
      BY <3>1, <3>2
  <2>. QED
    BY <2>3
<1>13. Numbered'
  <2>1. ASSUME NEW i \in Maps, Occupied(i)' PROVE i <= results'[i].map /\ results'[i].map <= Len(winners')
    <3>1. CASE i <= c /\ done >= 1 + i
      <4>1. results'[i].map = i /\ i \in 1..Len(winners)
        BY <1>6, <1>10, <3>1
      <4>2. i \in Nat /\ i <= Len(winners)
        BY <1>2, <4>1
      <4>. QED
        BY <1>8, <4>1, <4>2
    <3>2. CASE ~(i <= c /\ done >= 1 + i)
      <4>1. results'[i] = results[i] /\ Occupied(i)
        BY <1>10, <2>1, <3>2 DEF Occupied
      <4>. QED
        BY <1>8, <4>1 DEF LifeInv, Numbered
    <3>. QED
      BY <3>1, <3>2
  <2>2. ASSUME NEW i \in Maps, NEW j \in Maps, Occupied(i)', results'[i].map = results'[j].map,
               i <= c, done >= 1 + i
        PROVE  i = j
    <3>1. results'[j].map = i
      BY <1>10, <2>2
    <3>2. Occupied(j)'
      BY <2>2, <3>1 DEF Occupied
    <3>3. j <= i
      BY <1>2, <2>1, <3>1, <3>2
    <3>4. j <= c /\ done >= 1 + j
      <4>1. \A x, y, z \in Nat : y <= x => (x <= z => y <= z) /\ (done >= 1 + x => done >= 1 + y)
        OBVIOUS
      <4>. QED
        BY <1>1, <1>2, <2>2, <3>3, <4>1 DEF Maps
    <3>. QED
      BY <1>10, <3>1, <3>4
  <2>3. ASSUME NEW i \in Maps, NEW j \in Maps, Occupied(i)', results'[i].map = results'[j].map
        PROVE  i = j
    <3>1. Occupied(j)'
      BY <2>3 DEF Occupied
    <3>2. CASE i <= c /\ done >= 1 + i
      BY <2>2, <2>3, <3>2
    <3>3. CASE j <= c /\ done >= 1 + j
      BY <2>2, <2>3, <3>1, <3>3
    <3>4. CASE ~(i <= c /\ done >= 1 + i) /\ ~(j <= c /\ done >= 1 + j)
      <4>1. results'[i] = results[i] /\ results'[j] = results[j] /\ Occupied(i)
        BY <1>10, <2>3, <3>4 DEF Occupied
      <4>. QED
        BY <2>3, <4>1 DEF LifeInv, Numbered
    <3>. QED
      BY <3>2, <3>3, <3>4
  <2>4. ASSUME ~lineup', NEW i \in Maps, Occupied(i)', NEW k \in 1..i PROVE Occupied(k)'
    <3>1. k \in Maps /\ k <= i /\ ~lineup /\ k \in Nat /\ i \in Nat
      BY <1>2, <1>3, <2>4 DEF Maps
    <3>2. CASE Occupied(i)
      BY <1>12, <2>4, <3>1, <3>2 DEF LifeInv, Numbered
    <3>3. CASE i \in 1..c /\ done >= 1 + i
      <4>1. k \in 1..c /\ done >= 1 + k
        BY <1>1, <2>4, <3>1, <3>3
      <4>. QED
        BY <1>12, <3>1, <4>1
    <3>. QED
      BY <1>12, <2>4, <3>2, <3>3
  <2>. QED
    BY <2>1, <2>3, <2>4 DEF Numbered
<1>14. misreads' = 0 => misreads = 0 /\ bad = {}
  BY <1>3 DEF LifeInv, RowsTyped
<1>15. ResultsAreTrue'
  <2>1. ASSUME misreads' = 0, NEW i \in Maps, Occupied(i)' PROVE results'[i].won = winners'[results'[i].map]
    <3>1. CASE i <= c /\ done >= 1 + i
      <4>1. results'[i].map = i /\ results'[i].won = won[i] /\ won[i] = winners[i]
        BY <1>6, <1>10, <1>14, <2>1, <3>1
      <4>. QED
        BY <1>8, <4>1
    <3>2. CASE ~(i <= c /\ done >= 1 + i)
      <4>1. results'[i] = results[i] /\ Occupied(i)
        BY <1>10, <2>1, <3>2 DEF Occupied
      <4>. QED
        BY <1>8, <1>14, <2>1, <4>1 DEF LifeInv, ResultsAreTrue
    <3>. QED
      BY <3>1, <3>2
  <2>. QED
    BY <2>1 DEF ResultsAreTrue
<1>16. \A e \in PageEvents(d, bad) :
         \/ e = E4 /\ TellsStart(T)
         \/ \E m \in 1..c : ~silent /\ results[m].map = 0 /\ e = E6(m, m, won[m])
         \/ T = "FINISHED" /\ e = E7(SeriesOf(won))
  BY <1>4, <1>6 DEF If
<1>17. \A m \in 1..c : ~silent /\ results[m].map = 0 => E6(m, m, won[m]) \in PageEvents(d, bad)
  BY <1>4, <1>6
<1>18. /\ TellsStart(T) => E4 \in PageEvents(d, bad)
       /\ T = "FINISHED" => E7(SeriesOf(won)) \in PageEvents(d, bad)
  BY <1>4 DEF If
<1>19. \A e \in PageEvents(d, bad) :
         /\ IsEvent(e)
         /\ e.type \in {"E5", "E6"} =>
              /\ e.map \in 1..c /\ ~silent /\ ~Occupied(e.map) /\ e.number = e.map
              /\ e = E6(e.map, e.map, won[e.map])
         /\ e.type = "E7" => T = "FINISHED"
  <2>1. SUFFICES ASSUME NEW e \in PageEvents(d, bad)
        PROVE /\ IsEvent(e)
              /\ e.type \in {"E5", "E6"} =>
                   /\ e.map \in 1..c /\ ~silent /\ ~Occupied(e.map) /\ e.number = e.map
                   /\ e = E6(e.map, e.map, won[e.map])
              /\ e.type = "E7" => T = "FINISHED"
    OBVIOUS
  <2>2. CASE e = E4
    <3>1. e.type = "E4"
      BY <2>2, EventsAre
    <3>. QED
      BY <2>2, <3>1 DEF IsEvent
  <2>3. ASSUME NEW m \in 1..c, ~silent, results[m].map = 0, e = E6(m, m, won[m])
        PROVE  /\ IsEvent(e) /\ e.type = "E6" /\ e.map = m /\ e.number = m /\ ~Occupied(m)
    <3>1. m \in Maps /\ won[m] \in Sides
      BY <1>6
    <3>. QED
      BY <2>3, <3>1, EventsAre DEF IsEvent, Occupied
  <2>4. CASE T = "FINISHED" /\ e = E7(SeriesOf(won))
    <3>1. e.type = "E7" /\ e = E7(e.score)
      BY <2>4, EventsAre
    <3>. QED
      BY <2>4, <3>1 DEF IsEvent
  <2>. QED
    BY <1>16, <2>2, <2>3, <2>4
<1>20. Started => Started'
  BY <1>8, MoreIsTold
<1>21. \A k : TellsResult(k) => TellsResult(k)'
  BY <1>8, MoreIsTold
<1>22. state' = "LIVE" => Started'
  <2>1. CASE state = "LIVE" \/ feed # "off" \/ E4 \in told
    BY <1>20, <2>1 DEF LifeInv, ToldInv, Started
  <2>2. CASE state # "LIVE" /\ feed = "off" /\ E4 \notin told /\ T = "LIVE"
    <3>1. E4 \in PageEvents(d, bad)
      BY <1>18, <2>2 DEF TellsStart, AsksStart, FeedSaysWarmup
    <3>2. \A t \in told : SameKey(t, E4) => t = E4
      <4>1. SUFFICES ASSUME NEW t \in told, t.type = "E4" PROVE t = E4
        BY EventsAre DEF SameKey
      <4>2. IsEvent(t)
        BY DEF LifeInv, ToldInv
      <4>. QED
        BY <4>1, <4>2, EventsAre DEF IsEvent
    <3>. QED
      BY <1>3, <2>2, <3>1, <3>2 DEF Tells, Started
  <2>. QED
    BY <1>3, <2>1, <2>2
<1>23. ASSUME NEW m \in 1..c, ~silent, ~Occupied(m) PROVE TellsResult(m)'
  <2> DEFINE e == E6(m, m, won[m])
  <2>1. e \in PageEvents(d, bad) /\ e.type = "E6" /\ e.number = m /\ e.map = m
    BY <1>17, <1>23, EventsAre DEF Occupied
  <2>. HIDE DEF e
  <2>2. CASE e \in told' \union lost'
    BY <2>1, <2>2 DEF TellsResult
  <2>3. ASSUME NEW t \in told, SameKey(t, e) PROVE m \in misnumbered
    <3>1. t.type = "E6" /\ t.number = m
      BY <2>1, <2>3 DEF SameKey
    <3>. QED
      BY <1>23, <3>1 DEF LifeInv, ToldInv
  <2>4. (m \in misnumbered) => TellsResult(m)'
    BY <1>8 DEF TellsResult
  <2>. QED
    BY <1>3, <2>1, <2>2, <2>3, <2>4 DEF Tells
<1>24. ToldInv'
  <2>1. \A e \in told' \union lost' : IsEvent(e)
    BY <1>3, <1>19 DEF Tells, LifeInv, ToldInv
  <2>2. ASSUME NEW e \in told', e.type = "E6"
        PROVE  \/ e.number = e.map /\ Occupied(e.map)'
               \/ e.number \in misnumbered' /\ e.map \in misnumbered'
    <3>1. CASE e \in told
      <4>1. e.map \in Maps
        BY <2>2, <3>1, EventsTyped DEF LifeInv, ToldInv
      <4>. QED
        BY <1>8, <1>12, <2>2, <3>1, <4>1 DEF LifeInv, ToldInv
    <3>2. CASE e \notin told
      <4>1. done > 5 + c /\ e \in PageEvents(d, bad)
        BY <1>3, <3>2 DEF Tells
      <4>2. e.map \in 1..c /\ e.map \in Maps /\ e.number = e.map
        BY <1>6, <1>19, <2>2, <4>1
      <4>3. done >= 1 + e.map
        BY <1>1, <4>1, <4>2
      <4>. QED
        BY <1>12, <4>2, <4>3
    <3>. QED
      BY <3>1, <3>2
  <2>3. state' = "SCHEDULED" => feed' = "off"
    <3>1. state' = "SCHEDULED" => state = "SCHEDULED"
      <4>1. d = -1 => paged = -1
        BY DEF LifeInv, RowsTyped
      <4>2. paged = -1 => state = "SCHEDULED"
        BY DEF LifeInv, ToldInv
      <4>. QED
        BY <1>3, <1>5, <4>1, <4>2
    <3>. QED
      BY <1>3, <3>1 DEF LifeInv, ToldInv
  <2>4. paged' = -1 => state' = "SCHEDULED"
    <3>1. d = -1 => state = "SCHEDULED"
      BY DEF LifeInv, RowsTyped, ToldInv
    <3>. QED
      BY <1>3, <1>5, <3>1
  <2>5. state' = "LIVE" \/ feed' # "off" => Started'
    BY <1>3, <1>20, <1>22 DEF LifeInv, ToldInv
  <2>. QED
    BY <2>1, <2>2, <2>3, <2>4, <2>5 DEF ToldInv
<1>25. met' = BestOf \/ ~(T = "FINISHED" /\ state # "LIVE")
  BY <1>3
<1>26. NewsIsTold'
  <2>1. pageSeen' => met' # -1
    BY <1>1, <1>2, <1>3 DEF LifeInv, NewsIsTold
  <2>2. met' # -1 => pageSeen' \/ met' = BestOf
    BY <1>1, <1>2, <1>3 DEF LifeInv, NewsIsTold
  <2>3. ASSUME NEW m \in Maps, Occupied(m)', m > met', met' = -1 => m > paged' PROVE TellsResult(m)'
    <3>1. m \in Nat /\ m >= 1 /\ m <= BestOf
      BY <1>2 DEF Maps
    <3>2. CASE Occupied(m) /\ m > met /\ (met = -1 => m > paged)
      BY <1>21, <3>2 DEF LifeInv, NewsIsTold
    <3>3. CASE met' = -1
      <4>0. c # -1 /\ BestOf # -1
        BY <1>1, <1>2
      <4>1. met = -1 /\ m > d
        BY <1>3, <2>3, <3>3, <4>0
      <4>2. ~(m \in 1..c)
        BY <1>1, <3>1, <4>1
      <4>3. Occupied(m)
        BY <1>12, <2>3, <4>2
      <4>4. m > paged
        BY <3>1, <4>1 DEF LifeInv, RowsTyped
      <4>. QED
        BY <3>1, <3>2, <4>1, <4>3, <4>4
    <3>4. CASE met' # -1 /\ met = -1
      <4>1. met' = BestOf \/ met' = c
        BY <1>3, <3>4
      <4>2. met' = c /\ m > c
        BY <1>2, <2>3, <3>1, <4>1
      <4>3. ~(m \in 1..c) /\ m > d /\ m > paged
        BY <1>1, <3>1, <4>2 DEF LifeInv, RowsTyped
      <4>. QED
        BY <1>12, <2>3, <3>1, <3>2, <3>4, <4>3
    <3>5. CASE met # -1
      <4>1. met' = met \/ met' = BestOf
        BY <1>3, <3>5
      <4>2. met' = met /\ met # BestOf /\ m > met
        BY <1>2, <2>3, <3>1, <4>1
      <4>3. pageSeen /\ ~silent
        BY <1>7, <1>25, <3>5, <4>2 DEF LifeInv, NewsIsTold
      <4>4. Occupied(m) \/ m \in 1..c
        BY <1>12, <2>3
      <4>. QED
        BY <1>23, <3>2, <3>5, <4>2, <4>3, <4>4
    <3>. QED
      BY <3>3, <3>4, <3>5
  <2>. QED
    BY <2>1, <2>2, <2>3 DEF NewsIsTold
<1>27. OneResultPerMap'
  <2>1. SUFFICES ASSUME NEW a \in told', NEW e \in told', a.type = "E6", e.type = "E6",
                        a.map = e.map, a.map \notin misnumbered'
                 PROVE  a = e
    BY DEF OneResultPerMap
  <2>2. CASE a \in told /\ e \in told
    BY <1>8, <2>1, <2>2 DEF LifeInv, OneResultPerMap
  <2>3. \A x \in told' : x \notin told => x \in PageEvents(d, bad)
    BY <1>3 DEF Tells
  <2>4. CASE a \notin told /\ e \notin told
    BY <1>19, <2>1, <2>3, <2>4
  <2>5. ASSUME NEW x \in told, NEW y \in told', y \notin told, x.type = "E6", y.type = "E6", x.map = y.map,
               x.map \notin misnumbered'
        PROVE  FALSE
    <3>1. ~Occupied(x.map)
      BY <1>19, <2>3, <2>5
    <3>2. Occupied(x.map)
      BY <1>8, <2>5 DEF LifeInv, ToldInv
    <3>. QED
      BY <3>1, <3>2
  <2>. QED
    BY <2>1, <2>2, <2>4, <2>5
<1>28. T = "FINISHED" => d = Len(winners) /\ c = d /\ MatchOver
  <2>1. SUFFICES ASSUME T = "FINISHED" PROVE d = Len(winners) /\ c = d /\ MatchOver
    OBVIOUS
  <2>2. d >= 0 /\ d # -1
    BY <1>5, <2>1
  <2>3. ~(d \in 0..(Len(winners) - 1))
    BY <1>5, <2>1 DEF LifeInv, MatchTyped
  <2>4. d = Len(winners)
    BY <1>2, <2>2, <2>3
  <2>5. c = d
    BY <1>1, <2>2
  <2>6. SubSeq(winners, 1, d) = winners
    BY <1>2, <2>4, Prefixes
  <2>. QED
    BY <1>5, <2>1, <2>4, <2>5, <2>6 DEF MatchOver
<1>29. (MatchOver' <=> MatchOver) /\ (state' = "FINISHED" => T = "FINISHED" /\ MatchOver)
  BY <1>3, <1>8, <1>28 DEF MatchOver
<1>30. ResultsAreTold'
  <2>1. SUFFICES ASSUME state' = "FINISHED", met' >= 0, NEW m \in (met' + 1)..Len(winners)
                 PROVE  TellsResult(m)'
    BY <1>8 DEF ResultsAreTold, TellsResult
  <2>2. T = "FINISHED" /\ c = Len(winners)
    BY <1>28, <1>29, <2>1
  <2>3. met' \in Int /\ met \in Int /\ met >= -1
    BY <1>11 DEF LifeInv, RowsTyped
  <2>4. m \in Nat /\ m >= 1 /\ m > met' /\ m <= Len(winners)
    <3>1. \A x \in Int : x >= 0 => \A y \in (x + 1)..Len(winners) :
            y \in Nat /\ y >= 1 /\ y > x /\ y <= Len(winners)
      BY <1>2
    <3>. QED
      BY <2>1, <2>3, <3>1
  <2>5. met' # BestOf /\ met' # c
    BY <1>2, <2>2, <2>3, <2>4
  <2>6. state = "LIVE" /\ met' = met
    BY <1>3, <2>2, <2>5
  <2>7. met # -1 /\ met # BestOf /\ m > met
    BY <2>1, <2>4, <2>5, <2>6
  <2>8. pageSeen /\ ~silent
    BY <1>7, <2>6, <2>7 DEF LifeInv, NewsIsTold
  <2>9. m \in 1..c /\ m \in Maps
    BY <1>1, <1>2, <2>2, <2>4 DEF Maps
  <2>10. CASE Occupied(m)
    BY <1>21, <2>7, <2>9, <2>10 DEF LifeInv, NewsIsTold
  <2>. QED
    BY <1>23, <2>8, <2>9, <2>10
<1>31. EndIsNotEarly'
  <2>1. SUFFICES ASSUME NEW e \in told', e.type = "E7", misreads' = 0 PROVE MatchOver
    BY <1>29 DEF EndIsNotEarly
  <2>2. CASE e \in told
    BY <1>14, <2>1, <2>2 DEF LifeInv, EndIsNotEarly
  <2>3. CASE e \notin told
    BY <1>3, <1>19, <1>28, <2>1, <2>3 DEF Tells
  <2>. QED
    BY <2>2, <2>3
<1>32. StartIsToldFirst'
  <2>1. SUFFICES ASSUME NEW e \in told', e.type \in {"E5", "E6"} PROVE Started'
    BY DEF StartIsToldFirst, Started
  <2>2. CASE e \in told
    BY <1>20, <2>1, <2>2 DEF LifeInv, StartIsToldFirst, Started
  <2>3. CASE e \notin told
    <3>1. done > 5 + c /\ e \in PageEvents(d, bad)
      BY <1>3, <2>3 DEF Tells
    <3>2. state' = T /\ e.map \in 1..c /\ ~silent
      BY <1>1, <1>3, <1>19, <2>1, <3>1
    <3>3. CASE T = "LIVE"
      BY <1>22, <3>2, <3>3
    <3>4. CASE T = "FINISHED"
      BY <1>7, <1>20, <3>2, <3>4 DEF LifeInv, ToldInv
    <3>5. CASE T = "SCHEDULED"
      BY <1>1, <1>5, <3>2, <3>5
    <3>. QED
      BY <1>5, <3>3, <3>4, <3>5
  <2>. QED
    BY <2>2, <2>3
<1>33. EndIsTold'
  <2>1. SUFFICES ASSUME state' = "FINISHED", misreads' = 0
                 PROVE  E7(SeriesOf(winners)) \in told' \union lost'
    BY <1>8 DEF EndIsTold
  <2>2. T = "FINISHED" /\ c = Len(winners) /\ bad = {}
    BY <1>14, <1>28, <1>29, <2>1
  <2>3. won = winners
    <3>1. won = [m \in 1..c |-> won[m]]
      BY DEF won, c, PageWon
    <3>2. winners = [m \in 1..Len(winners) |-> winners[m]]
      BY <1>2
    <3>3. \A m \in 1..c : won[m] = winners[m]
      BY <1>6, <2>2
    <3>. QED
      BY <2>2, <3>1, <3>2, <3>3
  <2>4. E7(SeriesOf(winners)) \in PageEvents(d, bad)
    BY <1>18, <2>2, <2>3
  <2>5. ASSUME NEW t \in told, SameKey(t, E7(SeriesOf(winners))) PROVE t = E7(SeriesOf(winners))
    <3>1. t.type = "E7" /\ t.score = SeriesOf(winners)
      BY <2>5, EventsAre DEF SameKey
    <3>2. t = E7(t.score)
      BY <3>1, EventsTyped DEF LifeInv, ToldInv
    <3>. QED
      BY <3>1, <3>2
  <2>. QED
    BY <1>3, <2>4, <2>5 DEF Tells
<1>. QED
  BY <1>9, <1>11, <1>13, <1>15, <1>24, <1>26, <1>27, <1>29, <1>30, <1>31, <1>32, <1>33 DEF LifeInv

----------------------------------------------------------------------------
(* The invariant is one. *)

\* Nothing is told at the start.
LEMMA LifeInvInit ==
  ASSUME Init
  PROVE  LifeInv
<1>1. /\ now = 0 /\ winners = <<>> /\ paged = -1 /\ feed = "off" /\ state = "SCHEDULED"
      /\ pageSeen = FALSE /\ knowsFormat = FALSE /\ lineup = FALSE
      /\ memo = 0 /\ warming = FALSE /\ pending = FALSE
      /\ results = [n \in Maps |-> NoResult]
      /\ told = {} /\ met = -1 /\ misnumbered = {} /\ lost = {} /\ misreads = 0 /\ crashes = 0
  BY DEF Init
<1>2. BestOf \in Nat \ {0} /\ MaxMishaps \in Nat /\ 0 \div 4 = 0
  BY MatchLifeAssumption
<1>3. Len(winners) = 0 /\ winners \in Seq(Sides) /\ 0 \in Positions /\ DecidedAt(now) = 0
  BY <1>1, <1>2 DEF Positions, DecidedAt
<1>4. MatchTyped
  BY <1>1, <1>3 DEF MatchTyped
<1>5. RowsTyped
  <2>1. results \in [Maps -> {NoResult} \union [map : Maps, won : Sides]]
    BY <1>1
  <2>2. paged \in Int /\ -1 <= paged /\ paged <= DecidedAt(now) /\ met \in -1..BestOf /\ memo \in 0..BestOf
    BY <1>1, <1>2, <1>3
  <2>3. misnumbered \subseteq Maps /\ misreads \in Nat /\ crashes \in Nat /\ misreads + crashes <= MaxMishaps
    BY <1>1, <1>2
  <2>4. /\ feed \in {"off", "on", "leaving"} /\ state \in {"SCHEDULED", "LIVE", "FINISHED"}
        /\ pageSeen \in BOOLEAN /\ knowsFormat \in BOOLEAN /\ lineup \in BOOLEAN
        /\ warming \in BOOLEAN /\ pending \in BOOLEAN
    BY <1>1
  <2>. QED
    BY <2>1, <2>2, <2>3, <2>4 DEF RowsTyped
<1>6. \A n \in Maps : ~Occupied(n)
  BY <1>1 DEF Occupied, NoResult
<1>7. Numbered /\ ResultsAreTrue /\ NewsIsTold
  BY <1>1, <1>6 DEF Numbered, ResultsAreTrue, NewsIsTold
<1>8. ToldInv
  BY <1>1 DEF ToldInv
<1>. QED
  BY <1>1, <1>4, <1>5, <1>7, <1>8
  DEF LifeInv, OneResultPerMap, ResultsAreTold, EndIsNotEarly, StartIsToldFirst, EndIsTold

\* Every step of the program keeps the invariant.
LEMMA LifeInvStep ==
  ASSUME LifeInv, [Next]_vars
  PROVE  LifeInv'
<1>1. ASSUME NEW side \in Sides, Play(side) PROVE LifeInv'
  BY <1>1, PlayStep
<1>2. ASSUME NEW p \in Positions, Frame(p) PROVE LifeInv'
  <2>1. CurrentFrame(p) /\ ~Recorded(MapAt(p))
    BY <1>2, FrameDoes DEF LifeInv
  <2>2. PICK done \in 0..9 : FrameEffect(p, done)
    BY <1>2, FrameDoes DEF LifeInv
  <2>. QED
    BY <2>1, <2>2, FrameStep
<1>3. ASSUME NEW d \in paged..DecidedAt(now), NEW named \in BOOLEAN, NEW bad \in SUBSET (1..d),
             Page(d, bad, named)
      PROVE  LifeInv'
  <2>1. /\ d \in Int /\ d >= -1 /\ paged <= d /\ d <= Len(winners)
        /\ state # "FINISHED" /\ bad \subseteq 1..Shown(d)
    BY <1>3, PageDoes DEF LifeInv
  <2>2. PICK done \in Nat : PageEffect(d, bad, named, done)
    BY <1>3, PageDoes DEF LifeInv
  <2>. QED
    BY <2>1, <2>2, PageStep
<1>. QED
  BY <1>1, <1>2, <1>3, OtherSteps DEF Next

\* The invariant has the types in it.
LEMMA LifeInvTypes ==
  ASSUME LifeInv
  PROVE  TypeOK
<1>1. /\ now \in Positions /\ winners \in Seq(Sides) /\ Len(winners) = DecidedAt(now)
      /\ now \in Nat /\ DecidedAt(now) \in Nat
  BY MatchLifeAssumption DEF LifeInv, MatchTyped, Positions, DecidedAt
<1>2. paged \in -1..DecidedAt(now) /\ \A m \in DOMAIN winners : winners[m] \in Sides
  BY <1>1 DEF LifeInv, RowsTyped
<1>3. \A m, n \in Maps : results[m].map = results[n].map /\ results[m].map # 0 => m = n
  BY DEF LifeInv, Numbered, Occupied
<1>4. \A e \in told : e.type \in {"E5", "E6"} => e.number \in Maps /\ e.map \in Maps
  BY EventsTyped DEF LifeInv, ToldInv
<1>5. misreads + crashes \in 0..MaxMishaps
  BY MatchLifeAssumption DEF LifeInv, RowsTyped
<1>. QED
  BY <1>1, <1>2, <1>3, <1>4, <1>5 DEF LifeInv, RowsTyped, TypeOK

\* The two machines keep the rows true, whatever the order of frames, pages, lost
\* connections and killed processes.
THEOREM LifeInvariant == Spec => []LifeInv
<1>1. Init => LifeInv
  BY LifeInvInit
<1>2. LifeInv /\ [Next]_vars => LifeInv'
  BY LifeInvStep
<1>. QED
  BY <1>1, <1>2, PTL DEF Spec

\* Every row of the match and every event told are what they should be.
THEOREM LifeTypeCorrect == Spec => []TypeOK
<1>1. LifeInv => TypeOK
  BY LifeInvTypes
<1>. QED
  BY <1>1, LifeInvariant, PTL

\* No map's result is told twice, though both machines tell results.
THEOREM NoResultTwice == Spec => []OneResultPerMap
<1>1. LifeInv => OneResultPerMap
  BY DEF LifeInv
<1>. QED
  BY <1>1, LifeInvariant, PTL

\* No map is left out at the end, if it was news and no process died with it.
THEOREM NoResultIsMissing == Spec => []ResultsAreTold
<1>1. LifeInv => ResultsAreTold
  BY DEF LifeInv
<1>. QED
  BY <1>1, LifeInvariant, PTL

\* A feed that has missed maps does not end a series that goes on.
THEOREM NoEarlyEnd == Spec => []EndIsNotEarly
<1>1. LifeInv => EndIsNotEarly
  BY DEF LifeInv
<1>. QED
  BY <1>1, LifeInvariant, PTL

\* Nobody hears of a map of a match that has not started for them.
THEOREM StartComesFirst == Spec => []StartIsToldFirst
<1>1. LifeInv => StartIsToldFirst
  BY DEF LifeInv
<1>. QED
  BY <1>1, LifeInvariant, PTL

\* A closed match was told to be over, with the score it ended with.
THEOREM TheEndIsTold == Spec => []EndIsTold
<1>1. LifeInv => EndIsTold
  BY DEF LifeInv
<1>. QED
  BY <1>1, LifeInvariant, PTL
----------------------------------------------------------------------------
\* The supervisor and its workers: type correctness.

LEMMA FeedsInitTypeOK == FeedsInit => FeedsTypeOK
<1> SUFFICES ASSUME FeedsInit PROVE FeedsTypeOK
  OBVIOUS
<1> USE FeedsAssumption DEF FeedsInit, NoMap
<1>1. /\ stage \in [Workers -> Phases] /\ polls \in [Workers -> 0..WaitPolls]
      /\ held \in [Workers -> 0..LastMap] /\ playing \in 0..LastMap
  BY DEF Phases
<1>2. /\ stop \in [Workers -> BOOLEAN] /\ ready \in [Workers -> BOOLEAN]
      /\ awaiting \in [Workers -> BOOLEAN]
  BY Zenon
<1>3. begun \union finished \union born \union startsTold \union forfeited \union unused
        \subseteq 1..LastMap
  OBVIOUS
<1> QED
  BY <1>1, <1>2, <1>3, Zenon DEF FeedsTypeOK

\* What a frame does to the starts, once it is known what the machine sees in it,
\* whether it announces the map, and whether the card waits.
StartOfFrame(w, news) == IF news THEN playing ELSE held[w]
FeedStep(w, reading, news, waits) ==
  /\ begun \subseteq begun' /\ begun' \subseteq begun \union {playing}
  /\ news => playing \in begun' /\ playing \notin begun
  /\ finished' \subseteq finished \union {playing}
  /\ born' = IF news THEN born \union {playing} ELSE born
  /\ forfeited' = IF news THEN forfeited \union ({held[w]} \ {NoMap}) ELSE forfeited
  /\ awaiting' = [awaiting EXCEPT ![w] = waits]
  /\ held' = [held EXCEPT ![w] = IF waits THEN StartOfFrame(w, news) ELSE NoMap]
  /\ IF waits THEN UNCHANGED <<startsTold, unused>> ELSE Refresh(StartOfFrame(w, news), reading)

LEMMA FrameIsAStep ==
  ASSUME NEW w \in Workers, FeedFrame(w)
  PROVE  \E reading \in Readings, news \in BOOLEAN, waits \in BOOLEAN :
           FeedStep(w, reading, news, waits)
<1>1. PICK reading \in Readings, news \in BOOLEAN, waits \in BOOLEAN :
        LET first == reading # "nothing" /\ playing \notin begun
            start == IF news THEN playing ELSE held[w]
        IN /\ begun' = IF first THEN begun \union {playing} ELSE begun
           /\ finished' = IF reading = "end" THEN finished \union {playing} ELSE finished
           /\ news => first
           /\ born' = IF news THEN born \union {playing} ELSE born
           /\ forfeited' = IF news THEN forfeited \union ({held[w]} \ {NoMap}) ELSE forfeited
           /\ awaiting' = [awaiting EXCEPT ![w] = waits]
           /\ Keeps(w, start, waits)
           /\ IF waits THEN UNCHANGED <<startsTold, unused>> ELSE Refresh(start, reading)
  BY Zenon DEF FeedFrame
<1>2. /\ begun \subseteq begun' /\ begun' \subseteq begun \union {playing}
      /\ news => playing \in begun' /\ playing \notin begun
      /\ finished' \subseteq finished \union {playing}
  BY <1>1
<1>3. FeedStep(w, reading, news, waits)
  BY <1>1, <1>2, Zenon DEF FeedStep, Keeps, StartOfFrame
<1> QED
  BY <1>3

LEMMA FeedsNextTypeOK ==
  ASSUME FeedsTypeOK, [FeedsNext]_feedsVars
  PROVE  FeedsTypeOK'
<1> USE FeedsAssumption DEF FeedsTypeOK, supervisor, workers, matchState
<1>1. ASSUME NEW running \in BOOLEAN, Reconcile(running) PROVE FeedsTypeOK'
  <2>1. CASE Ensure
    <3> PICK w \in Free :
          /\ table' = w
          /\ stage' = [stage EXCEPT ![w] = "connecting"]
          /\ stop' = [stop EXCEPT ![w] = FALSE]
          /\ ready' = [ready EXCEPT ![w] = FALSE]
          /\ polls' = [polls EXCEPT ![w] = WaitPolls]
          /\ held' = [held EXCEPT ![w] = NoMap]
          /\ awaiting' = [awaiting EXCEPT ![w] = FALSE]
      BY <2>1 DEF Ensure
    <3>1. w \in Workers
      BY DEF Free
    <3>2. table' \in Workers /\ retiring' \subseteq Workers
      BY <2>1, <3>1 DEF Ensure
    <3>3. stage' \in [Workers -> Phases] /\ polls' \in [Workers -> 0..WaitPolls]
          /\ held' \in [Workers -> 0..LastMap]
      BY <3>1 DEF Phases, NoMap
    <3>4. /\ stop' \in [Workers -> BOOLEAN] /\ ready' \in [Workers -> BOOLEAN]
          /\ awaiting' \in [Workers -> BOOLEAN]
      BY <3>1, Zenon
    <3>5. UNCHANGED <<matchState, process, gathered, forfeited>>
      BY <1>1 DEF Reconcile
    <3> QED
      BY <3>2, <3>3, <3>4, <3>5
  <2>2. CASE ReleaseWorker
    <3>1. stop' \in [Workers -> BOOLEAN]
      BY <2>2, Zenon DEF ReleaseWorker
    <3>2. retiring' \subseteq Workers /\ table' = NoWorker
      BY <2>2 DEF ReleaseWorker
    <3>3. UNCHANGED <<matchState, process, gathered, forfeited,
                      stage, ready, polls, held, awaiting>>
      BY <1>1, <2>2 DEF Reconcile, ReleaseWorker
    <3> QED
      BY <3>1, <3>2, <3>3
  <2> QED
    BY <1>1, <2>1, <2>2 DEF Reconcile
<1>2. ASSUME NEW w \in Workers, Connect(w) \/ Subscribe(w) PROVE FeedsTypeOK'
  <2>1. stage' \in [Workers -> Phases]
    BY <1>2 DEF Connect, Subscribe, Drops, To, Phases
  <2>2. polls' \in [Workers -> 0..WaitPolls]
    BY <1>2 DEF Connect, Subscribe, Drops
  <2>3. ready' \in [Workers -> BOOLEAN]
    BY <1>2, Zenon DEF Connect, Subscribe, Drops
  <2>4. UNCHANGED <<table, retiring, stop, held, awaiting, matchState,
                    process, gathered, forfeited>>
    BY <1>2 DEF Connect, Subscribe
  <2> QED
    BY <2>1, <2>2, <2>3, <2>4
<1>3. ASSUME NEW w \in Workers, FeedFrame(w) PROVE FeedsTypeOK'
  <2>1. PICK reading \in Readings, news \in BOOLEAN, waits \in BOOLEAN :
          FeedStep(w, reading, news, waits)
    BY <1>3, FrameIsAStep
  <2>2. playing \in 1..LastMap /\ StartOfFrame(w, news) \in 0..LastMap
    BY <1>3 DEF FeedFrame, NoMap, StartOfFrame
  <2>3. awaiting' \in [Workers -> BOOLEAN]
    BY <2>1, Zenon DEF FeedStep
  <2>4. held' \in [Workers -> 0..LastMap]
    BY <2>1, <2>2 DEF FeedStep, NoMap
  <2>5. startsTold' \subseteq 1..LastMap /\ unused' \subseteq 1..LastMap
    BY <2>1, <2>2 DEF FeedStep, Refresh, NoMap
  <2>6. /\ begun' \subseteq 1..LastMap /\ finished' \subseteq 1..LastMap
        /\ born' \subseteq 1..LastMap /\ forfeited' \subseteq 1..LastMap
    BY <2>1, <2>2 DEF FeedStep, NoMap
  <2>7. opening' \in {"none", "queued", "sent"}
    BY <1>3 DEF FeedFrame
  <2>8. UNCHANGED <<table, retiring, stage, stop, ready, polls, playing, process, gathered>>
    BY <1>3 DEF FeedFrame
  <2> QED
    BY <2>3, <2>4, <2>5, <2>6, <2>7, <2>8
<1>4. ASSUME NEW w \in Workers, Break(w) \/ Reconnect(w) PROVE FeedsTypeOK'
  <2>1. stage' \in [Workers -> Phases]
    BY <1>4 DEF Break, Reconnect, Drops, To, Phases
  <2>2. UNCHANGED <<table, retiring, stop, ready, polls, held, awaiting, matchState, process, gathered, forfeited>>
    BY <1>4 DEF Break, Reconnect, Drops
  <2> QED
    BY <2>1, <2>2
<1>5. ASSUME NEW w \in Workers, Ends(w)
      PROVE  /\ stage' \in [Workers -> Phases] /\ held' \in [Workers -> 0..LastMap]
             /\ forfeited' \subseteq 1..LastMap
  BY <1>5 DEF Ends, Phases, NoMap
<1>6. ASSUME NEW w \in Workers, Leave(w) PROVE FeedsTypeOK'
  <2>1. Ends(w)
    BY <1>6 DEF Leave
  <2>2. UNCHANGED <<table, retiring, stop, ready, polls, awaiting, matchState, process, gathered>>
    BY <1>6 DEF Leave
  <2> QED
    BY <1>5, <2>1, <2>2
<1>7. ASSUME NEW w \in Workers, Retire(w) PROVE FeedsTypeOK'
  <2>1. /\ stage' \in [Workers -> Phases] /\ held' \in [Workers -> 0..LastMap]
        /\ forfeited' \subseteq 1..LastMap
    BY <1>5, <1>7 DEF Retire
  <2>2. retiring' \subseteq Workers
    BY <1>7 DEF Retire
  <2>3. UNCHANGED <<table, stop, ready, polls, awaiting, matchState, process, gathered>>
    BY <1>7 DEF Retire
  <2> QED
    BY <2>1, <2>2, <2>3
<1>8. CASE Shutdown
  <2>1. stop' \in [Workers -> BOOLEAN]
    BY <1>8, Zenon DEF Shutdown, ReleaseWorker
  <2>2. retiring' \subseteq Workers /\ table' = NoWorker /\ process' = "releasing"
    BY <1>8 DEF Shutdown, ReleaseWorker
  <2>3. gathered' \subseteq Workers
    BY <1>8 DEF Shutdown, Collected
  <2>4. UNCHANGED <<stage, ready, polls, held, awaiting, matchState,
                    forfeited>>
    BY <1>8 DEF Shutdown, ReleaseWorker
  <2> QED
    BY <2>1, <2>2, <2>3, <2>4
<1>9. CASE Signal \/ Closed \/ NextMap \/ OpeningSent
  BY <1>9 DEF Signal, Closed, NextMap, OpeningSent
<1>10. CASE UNCHANGED feedsVars
  BY <1>10 DEF feedsVars
<1> QED
  BY <1>1, <1>2, <1>3, <1>4, <1>6, <1>7, <1>8, <1>9, <1>10 DEF FeedsNext

\* Every variable keeps its type.
THEOREM FeedsTypeCorrect == FeedsSpec => []FeedsTypeOK
  BY FeedsInitTypeOK, FeedsNextTypeOK, PTL DEF FeedsSpec

----------------------------------------------------------------------------
\* One worker.

\* From the shutdown on nobody new comes, the table is empty, and whoever still runs
\* is being waited for.
Waited ==
  /\ process \in {"releasing", "gone"} => \A w \in Workers : Alive(w) => w \in gathered
  /\ process = "gone" => \A w \in Workers : ~Alive(w)

\* A worker that has ended holds nothing.
EndedHoldsNothing == \A w \in Workers : ~Alive(w) => held[w] = NoMap

\* A start is held by one worker, of a map that is announced and so has begun.
OneHolder ==
  /\ born \subseteq begun
  /\ startsTold \union forfeited \union unused \subseteq born
  /\ \A w \in Workers : held[w] # NoMap =>
       held[w] \in born /\ \A v \in Workers : held[v] = held[w] => v = w
Starts == OneHolder /\ HeldStartIsKept

FeedsInv == FeedsTypeOK /\ OneWorkerPerMatch /\ Waited /\ EndedHoldsNothing /\ Starts

LEMMA FeedsInitInv == FeedsInit => FeedsInv
<1> SUFFICES ASSUME FeedsInit PROVE FeedsInv
  OBVIOUS
<1>1. FeedsTypeOK
  BY FeedsInitTypeOK
<1>2. OneWorkerPerMatch /\ Waited /\ EndedHoldsNothing
  BY DEF FeedsInit, OneWorkerPerMatch, Waited, EndedHoldsNothing, Alive
<1>3. Starts
  BY DEF FeedsInit, Starts, OneHolder, HeldStartIsKept
<1> QED
  BY <1>1, <1>2, <1>3 DEF FeedsInv

\* What Starts speaks of.
startState == <<held, begun, born, startsTold, forfeited, unused>>

LEMMA SameStarts ==
  ASSUME Starts, UNCHANGED startState PROVE Starts'
  BY DEF Starts, OneHolder, HeldStartIsKept, startState

\* A step that moves workers which run among the awaits, and nothing else that the
\* invariant speaks of, keeps it.
LEMMA MovingKeepsInv ==
  ASSUME FeedsInv, FeedsTypeOK',
         UNCHANGED <<table, retiring, stop, process, gathered, startState>>,
         \A w \in Workers : Alive(w)' <=> Alive(w)
  PROVE  FeedsInv'
<1>1. OneWorkerPerMatch'
  BY DEF FeedsInv, OneWorkerPerMatch
<1>2. Waited'
  BY DEF FeedsInv, Waited
<1>3. EndedHoldsNothing' /\ Starts'
  BY SameStarts DEF FeedsInv, EndedHoldsNothing, startState
<1> QED
  BY <1>1, <1>2, <1>3 DEF FeedsInv

\* So does a worker's end: what it held is on the list of what was forfeited.
LEMMA EndKeepsInv ==
  ASSUME FeedsInv, FeedsTypeOK', NEW w \in Workers, Ends(w),
         retiring' \subseteq retiring, retiring \subseteq retiring' \union {w},
         UNCHANGED <<table, stop, process, gathered, begun, born, startsTold, unused>>
  PROVE  FeedsInv'
<1> USE DEF FeedsInv, FeedsTypeOK
<1>1. stage' = [stage EXCEPT ![w] = "ended"] /\ held' = [held EXCEPT ![w] = NoMap]
      /\ forfeited' = forfeited \union ({held[w]} \ {NoMap})
  BY DEF Ends
<1>2. /\ stage'[w] = "ended" /\ held'[w] = NoMap
      /\ \A v \in Workers : v # w => stage'[v] = stage[v] /\ held'[v] = held[v]
  BY <1>1
<1>3. OneWorkerPerMatch'
  BY <1>2 DEF OneWorkerPerMatch, Alive
<1>4. Waited'
  BY <1>2 DEF Waited, Alive
<1>5. EndedHoldsNothing'
  BY <1>2 DEF EndedHoldsNothing, Alive
<1>6. OneHolder'
  <2>1. held[w] # NoMap => held[w] \in born
    BY DEF Starts, OneHolder
  <2>2. startsTold' \union forfeited' \union unused' \subseteq born'
    BY <1>1, <2>1 DEF Starts, OneHolder
  <2>3. ASSUME NEW v \in Workers, held'[v] # NoMap
        PROVE  held'[v] \in born' /\ \A u \in Workers : held'[u] = held'[v] => u = v
    <3>1. v # w /\ held[v] # NoMap /\ held'[v] = held[v]
      BY <1>2, <2>3
    <3>2. held[v] \in born /\ \A u \in Workers : held[u] = held[v] => u = v
      BY <3>1 DEF Starts, OneHolder
    <3> QED
      BY <1>2, <3>1, <3>2
  <2> QED
    BY <2>2, <2>3 DEF Starts, OneHolder
<1>7. \A v \in Workers : held'[v] \notin startsTold' \union forfeited' \union unused'
  <2>1. held'[w] \notin startsTold' \union forfeited' \union unused'
    BY <1>2 DEF NoMap
  <2>2. ASSUME NEW v \in Workers, v # w
        PROVE  held'[v] \notin startsTold' \union forfeited' \union unused'
    <3>1. held[v] \in {held[w]} \ {NoMap} => v = w
      BY DEF Starts, OneHolder
    <3> QED
      BY <1>1, <1>2, <2>2, <3>1 DEF Starts, HeldStartIsKept
  <2> QED
    BY <2>1, <2>2
<1>8. \A map \in born : \/ map \in startsTold' \union forfeited' \union unused'
                       \/ \E v \in Workers : held'[v] = map
  <2> SUFFICES ASSUME NEW map \in born, map \notin startsTold' \union forfeited' \union unused'
               PROVE  \E v \in Workers : held'[v] = map
    OBVIOUS
  <2>1. PICK v \in Workers : held[v] = map
    BY <1>1 DEF Starts, HeldStartIsKept
  <2>2. map # NoMap
    BY DEF NoMap
  <2>3. v # w
    BY <1>1, <2>1, <2>2
  <2> QED
    BY <1>2, <2>1, <2>3
<1>9. Starts'
  BY <1>6, <1>7, <1>8 DEF Starts, HeldStartIsKept
<1> QED
  BY <1>3, <1>4, <1>5, <1>9

\* A frame either leaves a start with the worker that applied it, or puts it where it
\* is accounted for; one that it replaces is forfeited.
LEMMA FrameKeepsStarts ==
  ASSUME FeedsTypeOK, Starts, playing # NoMap, NEW w \in Workers, NEW reading,
         NEW news \in BOOLEAN, NEW waits \in BOOLEAN, FeedStep(w, reading, news, waits)
  PROVE  Starts'
<1> DEFINE start == StartOfFrame(w, news)
           accounted == startsTold \union forfeited \union unused
           gone == startsTold' \union forfeited' \union unused'
           over == (IF waits THEN {} ELSE {start}) \union (IF news THEN {held[w]} ELSE {})
<1> USE DEF FeedsTypeOK
<1>1. /\ held' = [held EXCEPT ![w] = IF waits THEN start ELSE NoMap]
      /\ born' = IF news THEN born \union {playing} ELSE born
      /\ begun \subseteq begun' /\ (news => playing \in begun' /\ playing \notin begun)
  BY DEF FeedStep
<1>2. gone = accounted \union (over \ {NoMap})
  <2>1. waits \/ startsTold' \union unused' = startsTold \union unused \union ({start} \ {NoMap})
    BY DEF FeedStep, Refresh
  <2>2. waits => startsTold' = startsTold /\ unused' = unused
    BY DEF FeedStep
  <2>3. forfeited' = IF news THEN forfeited \union ({held[w]} \ {NoMap}) ELSE forfeited
    BY DEF FeedStep
  <2>4. CASE waits
    BY <2>2, <2>3, <2>4
  <2>5. CASE ~waits
    BY <2>1, <2>3, <2>5
  <2> QED
    BY <2>4, <2>5
<1>3. /\ held'[w] = IF waits THEN start ELSE NoMap
      /\ \A v \in Workers : v # w => held'[v] = held[v]
  BY <1>1
<1>4. /\ start = IF news THEN playing ELSE held[w]
      /\ \A v \in Workers : held[v] # NoMap =>
           held[v] \in born /\ \A u \in Workers : held[u] = held[v] => u = v
      /\ born \subseteq begun /\ \A v \in Workers : held[v] \notin accounted
      /\ \A map \in born : map \in accounted \/ \E v \in Workers : held[v] = map
  BY DEF Starts, OneHolder, HeldStartIsKept, StartOfFrame
<1>5. accounted \subseteq born
  BY DEF Starts, OneHolder, HeldStartIsKept
<1> HIDE DEF start, accounted, gone
<1>6. OneHolder'
  <2>1. born' \subseteq begun'
    BY <1>1, <1>4
  <2>2. gone \subseteq born'
    BY <1>1, <1>2, <1>4, <1>5
  <2>3. ASSUME NEW v \in Workers, NEW u \in Workers, held'[v] # NoMap, held'[u] = held'[v]
        PROVE  held'[v] \in born' /\ u = v
    <3>1. news => \A o \in Workers : held[o] # playing
      BY <1>1, <1>4
    <3>2. CASE u = w \/ v = w
      BY <1>1, <1>3, <1>4, <2>3, <3>1, <3>2
    <3>3. CASE u # w /\ v # w
      BY <1>1, <1>3, <1>4, <2>3, <3>3
    <3> QED
      BY <3>2, <3>3
  <2> QED
    BY <2>1, <2>2, <2>3 DEF OneHolder, gone
<1>7. \A v \in Workers : held'[v] \notin gone
  BY <1>1, <1>2, <1>3, <1>4, <1>5 DEF NoMap
<1>8. \A map \in born' : map \in gone \/ \E v \in Workers : held'[v] = map
  BY <1>1, <1>2, <1>3, <1>4 DEF NoMap
<1> QED
  BY <1>6, <1>7, <1>8 DEF Starts, HeldStartIsKept, gone

LEMMA FeedsNextInv ==
  ASSUME FeedsInv, [FeedsNext]_feedsVars
  PROVE  FeedsInv'
<1> USE DEF FeedsInv
<1>0. FeedsTypeOK'
  BY FeedsNextTypeOK
<1>1. ASSUME NEW running \in BOOLEAN, Reconcile(running) PROVE FeedsInv'
  <2>1. process = "running" /\ UNCHANGED <<begun, born, startsTold, unused, process, gathered, forfeited>>
    BY <1>1 DEF Reconcile, matchState
  <2>2. Waited'
    BY <2>1 DEF Waited
  <2>3. CASE Ensure
    <3> PICK w \in Free :
          /\ table' = w
          /\ stage' = [stage EXCEPT ![w] = "connecting"]
          /\ stop' = [stop EXCEPT ![w] = FALSE]
          /\ held' = [held EXCEPT ![w] = NoMap]
      BY <2>3 DEF Ensure
    <3>1. w \in Workers /\ ~Alive(w) /\ NeedsWorker /\ retiring' = retiring
      BY <2>3 DEF Free, Ensure
    <3>2. \A v \in Workers : v # w => /\ Alive(v)' <=> Alive(v)
                                     /\ stop'[v] = stop[v] /\ held'[v] = held[v]
      BY <3>1 DEF FeedsTypeOK, Alive
    <3>3. Alive(w)' /\ held'[w] = held[w]
      BY <3>1 DEF FeedsTypeOK, Alive, EndedHoldsNothing
    <3>4. OneWorkerPerMatch'
      BY <3>1, <3>2 DEF OneWorkerPerMatch, NeedsWorker
    <3>5. EndedHoldsNothing'
      BY <3>2, <3>3 DEF EndedHoldsNothing
    <3>6. Starts'
      <4>1. held' = held
        BY <3>2, <3>3 DEF FeedsTypeOK
      <4> QED
        BY <2>1, <4>1, SameStarts DEF startState
    <3> QED
      BY <1>0, <2>2, <3>4, <3>5, <3>6
  <2>4. CASE ReleaseWorker
    <3>1. UNCHANGED <<stage, held>> /\ table' = NoWorker
      BY <2>4 DEF ReleaseWorker
    <3>2. /\ \A v \in Workers : stop[v] => stop'[v]
          /\ retiring \subseteq retiring'
          /\ \A v \in Workers : v = table /\ Alive(v) => stop'[v] /\ v \in retiring'
      BY <2>4, FeedsAssumption DEF ReleaseWorker, FeedsTypeOK
    <3>3. OneWorkerPerMatch'
      BY <3>1, <3>2 DEF OneWorkerPerMatch, Alive
    <3>4. EndedHoldsNothing' /\ Starts'
      BY <2>1, <3>1, SameStarts DEF EndedHoldsNothing, Alive, startState
    <3> QED
      BY <1>0, <2>2, <3>3, <3>4
  <2> QED
    BY <1>1, <2>3, <2>4 DEF Reconcile
<1>2. ASSUME NEW w \in Workers, Connect(w) \/ Subscribe(w) \/ Break(w) \/ Reconnect(w)
      PROVE  FeedsInv'
  <2>1. UNCHANGED <<table, retiring, stop, process, gathered, startState>>
    BY <1>2 DEF Connect, Subscribe, Break, Reconnect, Drops, supervisor, matchState, startState
  <2>2. Alive(w) /\ \A v \in Workers : Alive(v)' <=> Alive(v)
    BY <1>2 DEF Connect, Subscribe, Break, Reconnect, Drops, To, Alive, FeedsTypeOK
  <2> QED
    BY <1>0, <2>1, <2>2, MovingKeepsInv
<1>3. ASSUME NEW w \in Workers, FeedFrame(w) PROVE FeedsInv'
  <2>1. UNCHANGED <<table, retiring, stage, stop, process, gathered>> /\ Alive(w)
        /\ playing # NoMap
    BY <1>3, Zenon DEF FeedFrame, supervisor, Alive
  <2>2. PICK reading \in Readings, news \in BOOLEAN, waits \in BOOLEAN :
          FeedStep(w, reading, news, waits)
    BY <1>3, FrameIsAStep
  <2>3. OneWorkerPerMatch' /\ Waited'
    BY <2>1 DEF OneWorkerPerMatch, Waited, Alive
  <2>4. \A v \in Workers : v # w => held'[v] = held[v]
    BY <2>2 DEF FeedStep, FeedsTypeOK
  <2>5. EndedHoldsNothing'
    BY <2>1, <2>4 DEF EndedHoldsNothing, Alive
  <2>6. Starts'
    BY <2>1, <2>2, FrameKeepsStarts
  <2> QED
    BY <1>0, <2>3, <2>5, <2>6
<1>4. ASSUME NEW w \in Workers, Leave(w) PROVE FeedsInv'
  BY <1>0, <1>4, EndKeepsInv DEF Leave, supervisor, matchState
<1>5. ASSUME NEW w \in Workers, Retire(w) PROVE FeedsInv'
  <2>1. retiring' = retiring \ {w}
        /\ UNCHANGED <<table, stop, process, gathered, begun, born, startsTold, unused>>
    BY <1>5 DEF Retire, matchState
  <2>2. CASE Alive(w)
    BY <1>0, <1>5, <2>1, <2>2, EndKeepsInv DEF Retire
  <2>3. CASE ~Alive(w)
    <3>1. UNCHANGED <<stage, held, forfeited>>
      BY <1>5, <2>3 DEF Retire
    <3>2. OneWorkerPerMatch' /\ Waited'
      BY <2>1, <2>3, <3>1 DEF OneWorkerPerMatch, Waited, Alive
    <3>3. EndedHoldsNothing' /\ Starts'
      BY <2>1, <3>1, SameStarts DEF EndedHoldsNothing, Alive, startState
    <3> QED
      BY <1>0, <3>2, <3>3
  <2> QED
    BY <2>2, <2>3
<1>6. CASE Signal
  <2>1. UNCHANGED <<table, retiring, stage, stop, startState>>
        /\ process' = "cancelling"
    BY <1>6 DEF Signal, supervisor, workers, matchState, startState
  <2> QED
    BY <1>0, <2>1, SameStarts
    DEF OneWorkerPerMatch, Waited, EndedHoldsNothing, Alive, startState
<1>7. CASE Shutdown
  <2>1. UNCHANGED <<stage, startState>> /\ table' = NoWorker
        /\ process' = "releasing" /\ gathered' = retiring \union ({table} \ {NoWorker})
    BY <1>7 DEF Shutdown, ReleaseWorker, Collected, matchState, startState
  <2>2. /\ \A v \in Workers : stop[v] => stop'[v]
        /\ retiring \subseteq retiring'
        /\ \A v \in Workers : v = table /\ Alive(v) => stop'[v] /\ v \in retiring'
    BY <1>7, FeedsAssumption DEF Shutdown, ReleaseWorker, FeedsTypeOK
  <2>3. OneWorkerPerMatch'
    BY <2>1, <2>2 DEF OneWorkerPerMatch, Alive
  <2>4. Waited'
    BY <2>1, FeedsAssumption DEF Waited, OneWorkerPerMatch, Alive
  <2>5. EndedHoldsNothing' /\ Starts'
    BY <2>1, SameStarts DEF EndedHoldsNothing, Alive, startState
  <2> QED
    BY <1>0, <2>3, <2>4, <2>5
<1>8. CASE Closed
  <2>1. UNCHANGED <<table, retiring, stage, stop, startState, gathered>>
        /\ process = "releasing" /\ \A w \in gathered : ~Alive(w)
    BY <1>8 DEF Closed, supervisor, workers, matchState, startState
  <2> QED
    BY <1>0, <2>1, SameStarts
    DEF OneWorkerPerMatch, Waited, EndedHoldsNothing, Alive, startState
<1>9. CASE NextMap \/ OpeningSent \/ UNCHANGED feedsVars
  <2>1. UNCHANGED <<table, retiring, stop, process, gathered, startState, stage>>
    BY <1>9 DEF NextMap, OpeningSent, feedsVars, supervisor, workers, matchState, startState
  <2> QED
    BY <1>0, <2>1, MovingKeepsInv DEF Alive
<1> QED
  BY <1>1, <1>2, <1>3, <1>4, <1>5, <1>6, <1>7, <1>8, <1>9 DEF FeedsNext

LEMMA FeedsInvHolds == FeedsSpec => []FeedsInv
  BY FeedsInitInv, FeedsNextInv, PTL DEF FeedsSpec

\* Only the worker in the table goes on: any other that still runs has been told to
\* stop and will be cancelled, in however fast a sequence of ensure and release.
THEOREM OneWorkerHolds == FeedsSpec => []OneWorkerPerMatch
<1>1. FeedsInv => OneWorkerPerMatch
  BY DEF FeedsInv
<1> QED
  BY <1>1, FeedsInvHolds, PTL

\* When the supervisor's shutdown has returned, no worker uses the store.
THEOREM ShutdownHolds == FeedsSpec => []ShutdownLeavesNobody
<1>1. FeedsInv => ShutdownLeavesNobody
  BY DEF FeedsInv, Waited, ShutdownLeavesNobody
<1> QED
  BY <1>1, FeedsInvHolds, PTL

\* A map start that waits for the opening message is told, once, or is still to be told,
\* or its worker was stopped, or the next map had begun, or the frame that would have
\* carried it was the map's last.
THEOREM HeldStartHolds == FeedsSpec => []HeldStartIsKept
<1>1. FeedsInv => HeldStartIsKept
  BY DEF FeedsInv, Starts
<1> QED
  BY <1>1, FeedsInvHolds, PTL
----------------------------------------------------------------------------
\* The run.

\* In the run each component behaves as its own specification allows, so that what is
\* shown of one there is shown of that specification.
THEOREM MCIsItsParts == MCSpec => Spec /\ FeedsSpec /\ StorySpec
<1>1. MCInit => Init /\ FeedsInit /\ StoryInit
  BY DEF MCInit
<1>2. [MCNext]_<<part, vars, feedsVars, storyVars>> =>
        [Next]_vars /\ [FeedsNext]_feedsVars /\ [StoryNext]_storyVars
  BY DEF MCNext
<1> QED
  BY <1>1, <1>2, PTL DEF MCSpec, Spec, FeedsSpec, StorySpec
=============================================================================
