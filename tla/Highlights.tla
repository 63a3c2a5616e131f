----------------------------- MODULE Highlights -----------------------------
(***************************************************************************)
(* state/highlights.py: what a round of a map produced that is worth a     *)
(* message -- kills of one player (E9), a clutch (E15) -- read from frames *)
(* of which any may be missing.  The map is played here as well, so that a *)
(* highlight can be held against what happened.                            *)
(***************************************************************************)
EXTENDS Integers, Sequences, FiniteSets

CONSTANTS
  Players,      \* of the tracked team
  Opponents,    \* how many
  LastRound,    \* bound: this one is not played to its end
  Multikill, Clutch,  \* the lowest bars in use
  MaxRestarts   \* bound: workers of this match after the first

ASSUME HighlightsAssumption ==
  /\ IsFiniteSet(Players)
  /\ {Opponents, MaxRestarts} \subseteq Nat /\ LastRound \in Nat \ {0}
  /\ Multikill \in Nat \ {0, 1} /\ Clutch \in Nat \ {0}

NotSeen == -1
NoScore == <<-1, -1>>
Nothing == [p \in Players |-> 0]
RoundStates == {"warmup", "started", "ended", "freezePeriod"}

VARIABLES
  \* The game.
  round, state,   \* currentRound and currentRoundState
  kills,          \* of a player on this map
  credits,        \* oneOnXWins of a player
  alive,          \* players of the tracked team
  facing,         \* opponents alive
  path,           \* the scores of the map so far, the first before round 1
  real,           \* per round and player: kills, the most faced alone, won alone
  \* RoundTracker, in the memory of the worker.
  tracker,
  restarts,
  \* The journal: highlights reported, each under its key.
  reports

playedGame == <<round, state, kills, credits, alive, facing, path, real>>
highlightsVars == <<playedGame, tracker, restarts, reports>>

NewTracker ==
  [key |-> 0, base |-> [p \in Players |-> NotSeen], credited |-> Nothing, peak |-> Nothing,
   won |-> {}, situation |-> Nothing, reported |-> {},
   before |-> NoScore, after |-> NoScore]

scoreNow == path[Len(path)]
Total(s) == s[1] + s[2]
Bigger(a, b) == IF a > b THEN a ELSE b
----------------------------------------------------------------------------
\* The tracker.  A frame f has the round, its state, the score, and of every player
\* that is in it kills, credits and whether he is alive.

\* _track_score: only a score that this very round can have.
TrackScore(t, s) ==
  CASE Total(s) = t.key - 1 -> [t EXCEPT !.before = s]
    [] Total(s) = t.key /\ t.before # NoScore
         /\ <<s[1] - t.before[1], s[2] - t.before[2]>> \in {<<1, 0>>, <<0, 1>>} ->
         [t EXCEPT !.after = s]
    [] OTHER -> t

\* _start
StartOf(f) ==
  TrackScore([NewTracker EXCEPT
    !.key = f.round,
    !.base = [p \in Players |-> IF p \in f.players THEN kills[p] ELSE NotSeen],
    !.credited = credits, !.peak = kills], f.score)

\* _track: whoever turns up in the middle of a round is counted from there.
Track(t, f) ==
  LET new == {p \in f.players : t.base[p] = NotSeen}
      old == f.players \ new
  IN TrackScore([t EXCEPT
       !.base = [p \in Players |-> IF p \in new THEN kills[p] ELSE t.base[p]],
       !.credited = [p \in Players |-> IF p \in new THEN credits[p] ELSE t.credited[p]],
       !.peak = [p \in Players |-> CASE p \in new -> kills[p]
                                     [] p \in old -> Bigger(t.peak[p], kills[p])
                                     [] OTHER -> t.peak[p]],
       !.won = t.won \union {p \in old : credits[p] > t.credited[p]}], f.score)

\* _watch: the last one alive, and the most he has faced.
Watch(t, f) ==
  [t EXCEPT !.situation = [p \in Players |->
     IF f.players \intersect alive = {p} THEN Bigger(t.situation[p], facing) ELSE t.situation[p]]]

\* _settled
Settled(t, f) == {p \in f.players \ alive : t.situation[p] = 0}

Seen(t) == {p \in Players : t.base[p] # NotSeen}

\* _clutch_for and _worth_reporting
ClutchOf(t, p) == IF p \in t.won THEN t.situation[p] ELSE 0
Worth(t, p) == ClutchOf(t, p) >= Clutch \/ t.peak[p] - t.base[p] >= Multikill

\* _flush, and the event _highlights_for_team makes of it.
Due(t, who) == {p \in (who \intersect Seen(t)) \ t.reported : Worth(t, p)}
Highlight(t, p) ==
  [type |-> IF ClutchOf(t, p) > 0 THEN "E15" ELSE "E9", player |-> p, round |-> t.key,
   kills |-> t.peak[p] - t.base[p], against |-> ClutchOf(t, p),
   before |-> t.before, after |-> t.after]
SameKey(a, b) == <<a.type, a.player, a.round>> = <<b.type, b.player, b.round>>

Report(t, who) ==
  reports' = reports \union {h \in {Highlight(t, p) : p \in Due(t, who)} :
                               \A r \in reports : ~SameKey(r, h)}
Reported(t, who) == [t EXCEPT !.reported = @ \union Due(t, who)]

\* Mutant: what arrives with the next round is still counted to the one it ends.
LeavingCounts(f) == Track(tracker, f)
Leaving(f) == IF tracker.key # 0 /\ f.round = tracker.key + 1
                THEN TrackScore(tracker, f.score) ELSE tracker

\* observe
Observe(f) ==
  IF f.round # tracker.key THEN
    IF tracker.key = 0 THEN tracker' = StartOf(f) /\ UNCHANGED reports
    ELSE Report(Leaving(f), Seen(Leaving(f))) /\ tracker' = StartOf(f)
  ELSE IF f.state = "warmup" THEN tracker' = StartOf(f) /\ UNCHANGED reports
  ELSE LET t == IF f.state = "started" THEN Watch(Track(tracker, f), f) ELSE Track(tracker, f)
           who == CASE f.state = "started" -> Settled(t, f)
                    [] f.state = "ended" -> Seen(t)
                    [] OTHER -> {}
       IN Report(t, who) /\ tracker' = Reported(t, who)
----------------------------------------------------------------------------
HighlightsInit ==
  /\ round = 1 /\ state = "warmup" /\ path = <<<<0, 0>>>>
  /\ kills = Nothing /\ credits = Nothing
  /\ alive = Players /\ facing = Opponents
  /\ real = [r \in 1..LastRound |->
               [p \in Players |-> [kills |-> 0, faced |-> 0, clutch |-> FALSE]]]
  /\ tracker = NewTracker /\ restarts = 0 /\ reports = {}

\* A frame reaches the worker; somebody who lost his connection is left out of it.
SeeFrame ==
  /\ \E players \in {Players} \union {Players \ {p} : p \in Players \ alive} :
       Observe([round |-> round, state |-> state, score |-> scoreNow, players |-> players])
  /\ UNCHANGED <<playedGame, restarts>>

\* The tracker is lost with its worker.
Forget ==
  /\ restarts < MaxRestarts /\ restarts' = restarts + 1
  /\ tracker' = NewTracker
  /\ UNCHANGED <<playedGame, reports>>

\* Warm-up kills, which the start of the map takes back.
WarmupKill(p) ==
  /\ state = "warmup" /\ kills[p] = 0 /\ kills' = [kills EXCEPT ![p] = 1]
  /\ UNCHANGED <<round, state, credits, alive, facing, path, real, tracker, restarts,
                 reports>>

\* The round begins; the number of the one before stands until then.
BeginRound ==
  /\ \/ state = "warmup" /\ kills' = Nothing /\ UNCHANGED round
     \/ state = "freezePeriod" /\ round < LastRound /\ round' = round + 1 /\ UNCHANGED kills
  /\ state' = "started" /\ alive' = Players /\ facing' = Opponents
  /\ UNCHANGED <<credits, path, real, tracker, restarts, reports>>

\* Who is the last alive faces those who are.
Facing(r) == [p \in Players |->
  [r[p] EXCEPT !.faced = IF alive' = {p} THEN Bigger(@, facing') ELSE @]]

Kill(p) ==
  /\ state = "started" /\ p \in alive /\ facing > 0
  /\ kills' = [kills EXCEPT ![p] = @ + 1] /\ facing' = facing - 1
  /\ real' = [real EXCEPT ![round][p].kills = @ + 1]
  /\ UNCHANGED <<round, state, credits, alive, path, tracker, restarts, reports>>

Die(p) ==
  /\ state = "started" /\ p \in alive /\ facing > 0
  /\ alive' = alive \ {p} /\ UNCHANGED facing
  /\ real' = [real EXCEPT ![round] = Facing(@)]
  /\ UNCHANGED <<round, state, kills, credits, path, tracker, restarts, reports>>

WonAlone(r) == [p \in Players |-> [r[p] EXCEPT !.clutch = r[p].faced > 0]]

\* A round is won with or without anybody being dead; whoever stood alone in a round
\* that is won has won it, though he may have died before the bomb went off.
FinishRound ==
  /\ state = "started" /\ round < LastRound /\ state' = "ended"
  /\ \/ /\ path' = Append(path, <<scoreNow[1] + 1, scoreNow[2]>>)
        /\ real' = [real EXCEPT ![round] = WonAlone(@)]
     \/ path' = Append(path, <<scoreNow[1], scoreNow[2] + 1>>) /\ UNCHANGED real
  /\ UNCHANGED <<round, kills, credits, alive, facing, tracker, restarts, reports>>

\* HLTV credits a clutch while its round still counts as ended.
Owed(p) == credits[p] < Cardinality({r \in 1..round : real[r][p].clutch})

Credit(p) ==
  /\ state = "ended" /\ Owed(p)
  /\ credits' = [credits EXCEPT ![p] = @ + 1]
  /\ UNCHANGED <<round, state, kills, alive, facing, path, real, tracker, restarts,
                 reports>>

\* At half time the sides swap, and the players of a frame pass through odd counts.
SwapSides(p) ==
  /\ state = "ended" /\ alive # {p}
  /\ alive' = {p} /\ facing' = Opponents
  /\ UNCHANGED <<round, state, kills, credits, path, real, tracker, restarts, reports>>

Freeze ==
  /\ state = "ended" /\ \A p \in Players : ~Owed(p)
  /\ state' = "freezePeriod" /\ alive' = Players /\ facing' = Opponents
  /\ UNCHANGED <<round, kills, credits, path, real, tracker, restarts, reports>>

HighlightsNext ==
  \/ SeeFrame \/ Forget \/ BeginRound \/ FinishRound \/ Freeze
  \/ \E p \in Players : WarmupKill(p) \/ Kill(p) \/ Die(p) \/ Credit(p) \/ SwapSides(p)

HighlightsSpec == HighlightsInit /\ [][HighlightsNext]_highlightsVars
----------------------------------------------------------------------------
HighlightsTypeOK ==
  /\ round \in 1..LastRound /\ state \in RoundStates
  /\ {kills, credits} \subseteq [Players -> Nat]
  /\ alive \subseteq Players /\ facing \in 0..Opponents
  /\ Len(path) \in {round, round + 1}
  /\ tracker.key \in 0..round
  /\ DOMAIN tracker = DOMAIN NewTracker
  /\ restarts \in 0..MaxRestarts
  /\ \A h \in reports : h.type \in {"E9", "E15"} /\ h.player \in Players

\* Whatever frames are missing, and though the worker is replaced in mid-round: a
\* highlight is never invented.  It names its own round, no more kills than the
\* player made in it, a clutch only if he won that round having faced so many
\* alone, the scores the round was played at -- and he is reported for it once.
HighlightsAreReal ==
  \A h \in reports :
    LET truth == real[h.round][h.player] IN
    /\ h.kills <= truth.kills
    /\ h.against > 0 => truth.clutch /\ h.against <= truth.faced
    /\ h.before \in {NoScore, path[h.round]}
    /\ h.after # NoScore => h.after = path[h.round + 1]
    /\ \A g \in reports : <<g.player, g.round>> = <<h.player, h.round>> => g = h
=============================================================================
