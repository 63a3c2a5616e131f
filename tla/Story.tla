-------------------------------- MODULE Story --------------------------------
(***************************************************************************)
(* What the message that ends a map tells of how it went:                  *)
(*   state/round_history.py   who won which round                          *)
(*   state/comeback.py        the swing that turned it, or nearly did      *)
(* Both follow the score over the frames that arrive; the one is kept in   *)
(* the database, the other in memory.                                      *)
(***************************************************************************)
EXTENDS Integers, Sequences, FiniteSets

CONSTANTS
  HalfLength,       \* rounds in a half of regulation time
  Threshold,        \* the swing that counts as a comeback
  MaxRounds,        \* bound
  MaxResets,        \* bound: the score starts anew on the same map
  MaxProcesses      \* bound: restarts

ASSUME StoryAssumption ==
  /\ {HalfLength, Threshold} \subseteq Nat \ {0}
  /\ {MaxRounds, MaxResets, MaxProcesses} \subseteq Nat

VARIABLES
  outcomes,     \* who won each round of the map, in our eyes: W or L
  history,      \* meta round_history: the score it stands at, and the rounds
  swings,       \* ComebackTracker
  \* History, for the properties only.
  fresh,       \* no frame was seen since the score started anew
  confused,     \* the first one that was could also have continued the old score
  resets, processes

storyVars == <<outcomes, history, swings, fresh, confused, resets, processes>>

Won(rounds, side) == {i \in DOMAIN rounds : rounds[i] = side}
Tally(rounds) == <<Cardinality(Won(rounds, "W")), Cardinality(Won(rounds, "L"))>>
Sum2(s) == s[1] + s[2]
Lead(s) == s[1] - s[2]
Unknown(n) == [i \in 1..n |-> "?"]
Now == Tally(outcomes)
----------------------------------------------------------------------------
\* round_history.

NoHistory == [score |-> <<>>, rounds |-> <<>>]

Lower(s, old) == old # <<>> /\ (s[1] < old[1] \/ s[2] < old[2])

\* Mutant: the rounds before a reset stay.
KeepAbandoned(s) == history
\* A score that went down is another attempt at the map.
Continued(s) == IF Lower(s, history.score) THEN NoHistory ELSE history

\* The known rounds as a sequence as long as the score has rounds.
Padded(rounds, n) == [i \in 1..n |-> IF i <= Len(rounds) THEN rounds[i] ELSE "?"]

\* The last round, if it is the only new one.
Stepped(known, s, n) ==
  LET old == IF known.score = <<>> /\ n = 1 THEN <<0, 0>> ELSE known.score
      letter == IF old = <<>> THEN "?"
                ELSE CASE <<s[1] - old[1], s[2] - old[2]>> = <<1, 0>> -> "W"
                       [] <<s[1] - old[1], s[2] - old[2]>> = <<0, 1>> -> "L"
                       [] OTHER -> "?"
      rounds == Padded(known.rounds, n)
  IN IF letter = "?" THEN rounds ELSE [rounds EXCEPT ![n] = letter]

\* The source's own history, which knows of no overtime, unless it contradicts the score.
Filled(rounds, source, s) ==
  LET both == [i \in 1..Len(rounds) |->
                 IF i <= Len(source) /\ i <= 2 * HalfLength THEN source[i] ELSE rounds[i]]
      wins == Tally(both)
  IN IF wins[1] <= s[1] /\ wins[2] <= s[2] THEN both ELSE rounds

ObserveHistory(s, source) ==
  LET known == Continued(s) IN
  history' = [score |-> s, rounds |-> Filled(Stepped(known, s, Sum2(s)), source, s)]

\* summary, for a result s.
Summary(s) ==
  LET rounds == Padded(history.rounds, Sum2(s))
      wins == Tally(rounds)
  IN IF wins[1] > s[1] \/ wins[2] > s[2] THEN Unknown(Sum2(s)) ELSE rounds
----------------------------------------------------------------------------
\* ComebackTracker.

NoSwing == [size |-> 0, low |-> <<0, 0>>, peak |-> <<0, 0>>]
NewSwings == [lowest |-> <<>>, highest |-> <<>>, ours |-> NoSwing, theirs |-> NoSwing]

\* observe, for the side that sees s so: how far it has come from its lowest point.
Rise(extreme, s, swing) ==
  IF extreme # <<>> /\ Lead(s) - Lead(extreme) > swing.size
    THEN [size |-> Lead(s) - Lead(extreme), low |-> extreme, peak |-> s] ELSE swing
Flip(s) == IF s = <<>> THEN s ELSE <<s[2], s[1]>>
Extreme(extreme, s) == IF extreme = <<>> \/ Lead(s) < Lead(extreme) THEN s ELSE extreme

ObserveSwings(s) ==
  swings' = [lowest |-> Extreme(swings.lowest, s),
             highest |-> Flip(Extreme(Flip(swings.highest), Flip(s))),
             ours |-> Rise(swings.lowest, s, swings.ours),
             theirs |-> Rise(Flip(swings.highest), Flip(s), swings.theirs)]

\* verdict: a swing long enough, out of a hole deep enough.  Theirs is kept in their eyes.
MinDeficit == IF Threshold \div 2 > 2 THEN Threshold \div 2 ELSE 2
Qualifies(swing) == swing.size >= Threshold /\ -Lead(swing.low) >= MinDeficit

\* The bigger one is the story of the map; of two alike, the winner's.
OursIsTheStory ==
  /\ Qualifies(swings.ours)
  /\ Qualifies(swings.theirs) =>
       \/ swings.ours.size > swings.theirs.size
       \/ swings.ours.size = swings.theirs.size /\ Lead(Now) > 0

Verdict ==
  IF OursIsTheStory
    THEN {[from |-> swings.ours.low, to |-> swings.ours.peak, swing |-> swings.ours.size]}
  ELSE IF Qualifies(swings.theirs)
    THEN {[from |-> Flip(swings.theirs.low), to |-> Flip(swings.theirs.peak),
           swing |-> -swings.theirs.size]}
  ELSE {}
----------------------------------------------------------------------------
StoryInit ==
  /\ outcomes = <<>> /\ history = NoHistory /\ swings = NewSwings
  /\ fresh = FALSE /\ confused = FALSE /\ resets = 0 /\ processes = 0

RoundWon(side) ==
  /\ Len(outcomes) < MaxRounds
  /\ outcomes' = Append(outcomes, side)
  /\ UNCHANGED <<history, swings, fresh, confused, resets, processes>>

\* A frame with the score, and with as much of the source's history as there is.
ReadScore ==
  /\ \E n \in {0, Len(outcomes) - 1, Len(outcomes)} \intersect Nat :
       ObserveHistory(Now, SubSeq(outcomes, 1, n))
  /\ ObserveSwings(Now)
  /\ fresh' = FALSE
  /\ confused' = IF fresh THEN history.score \notin {<<>>, <<0, 0>>} /\ ~Lower(Now, history.score)
               ELSE confused
  /\ UNCHANGED <<outcomes, resets, processes>>

\* A knife round is over, or the server starts the map again.
Reset ==
  /\ resets < MaxResets /\ resets' = resets + 1
  /\ outcomes # <<>> /\ outcomes' = <<>>
  /\ fresh' = TRUE
  /\ UNCHANGED <<history, swings, confused, processes>>

NewProcess ==
  /\ processes < MaxProcesses /\ processes' = processes + 1
  /\ swings' = NewSwings
  /\ UNCHANGED <<outcomes, history, fresh, confused, resets>>

StoryNext ==
  \/ \E side \in {"W", "L"} : RoundWon(side)
  \/ ReadScore \/ Reset \/ NewProcess

StorySpec == StoryInit /\ [][StoryNext]_storyVars
----------------------------------------------------------------------------
StoryTypeOK ==
  /\ outcomes \in Seq({"W", "L"}) /\ Len(outcomes) <= MaxRounds
  /\ history.rounds \in Seq({"W", "L", "?"})
  /\ history.score # <<>> => Sum2(history.score) = Len(history.rounds)
  /\ {swings.ours.size, swings.theirs.size} \subseteq Nat
  /\ {fresh, confused} \subseteq BOOLEAN
  /\ resets \in 0..MaxResets /\ processes \in 0..MaxProcesses

ScoreAfter(n) == Tally(SubSeq(outcomes, 1, n))

\* The rounds a message names are the rounds that were played: a gap is a gap, and
\* nothing of an abandoned attempt is told of the map that counts -- provided that
\* the first score seen of the new attempt is not one the old could have gone on to.
HistoryIsTrue ==
  ~fresh /\ ~confused =>
    \A n \in 1..Len(outcomes) : Summary(Now)[n] \in {"?", outcomes[n]}

\* A comeback that is told has happened: the map stood at its first score, and
\* later at its second ("understated or missing -- but never invented",
\* comeback.py:22-24).
ComebackHappened ==
  \A tale \in Verdict : \E i, j \in 0..Len(outcomes) :
    i < j /\ ScoreAfter(i) = tale.from /\ ScoreAfter(j) = tale.to

\* What a map's message tells is what happened on it, as long as its score did not
\* start anew.
StoryIsTrue == HistoryIsTrue /\ (resets = 0 => ComebackHappened)
=============================================================================
