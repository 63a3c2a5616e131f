--------------------------- MODULE LiveCardProofs ---------------------------
(***************************************************************************)
(* What LiveCard does for every number of chats, maps, frames, milestones  *)
(* and mishaps.                                                            *)
(*                                                                         *)
(* The argument: who is in a card's line is behind or in front of each     *)
(* other one, so whoever writes is alone (Lines); what it has read of the  *)
(* row is therefore still so, and the chat is what the row says, changed   *)
(* by what the one at work has done (Written).                             *)
(***************************************************************************)
EXTENDS LiveCard, FiniteSetTheorems, TLAPS

----------------------------------------------------------------------------
(* The invariant. *)

Typed == ChatTyped /\ MessengerTyped /\ CoroutinesTyped /\ FeedTyped

\* In a call to Telegram, or between two of them, with the lock in hand.
Holding == {"sending", "sent", "editing", "edited",
            "deleting", "deleted", "rebuilding", "reposted"}
Lined == Holding \union {"queued"}

\* What each kind of coroutine does.
Roles ==
  /\ pc[Feed] \in {"idle", "settling", "visiting", "queued",
                   "sending", "sent", "editing", "edited"}
  /\ \A d \in Draws : pc[d] \in {"idle", "looping", "visiting", "queued", "sending",
                       "sent", "editing", "edited", "sleeping", "nudged"}
  /\ \A c \in Chats : pc[c] \in {"idle", "settling", "queued", "deleting", "deleted",
                       "rebuilding", "reposted"}

\* A frame is of a map; who has something to write has a frame.
Shows(s) == s.n > 0 => s.map \in Maps
SnapsAreFrames ==
  /\ Shows(latest) /\ Shows(pending)
  /\ \A a \in Actors : pc[a] \notin {"idle", "looping"} =>
       snap[a].n > 0 /\ snap[a].map \in Maps

\* The line of a lock is the coroutines that are in it, each behind or in front of
\* each other one; who writes has nobody ahead.
AllInLine == \A a \in Actors : pc[a] \in Lined => a \in lock[KeyOf(a)]
LineOf(k) ==
  /\ \A a \in lock[k] : pc[a] \in Lined /\ KeyOf(a) = k
  /\ \A a, b \in lock[k] : a # b => a \in ahead[b] \/ b \in ahead[a]
  /\ \A a \in lock[k] : pc[a] \in Holding => ahead[a] = {}
Lines == AllInLine /\ \A k \in Keys : LineOf(k)

\* Whoever writes has read the row, and it is still the same.
RowOf(k) ==
  /\ \A a \in lock[k] :
       /\ pc[a] \in Holding => ~row[k].final
       /\ pc[a] \in {"sending", "sent", "rebuilding", "reposted"} => row[k].id = 0
       /\ pc[a] \in {"editing", "edited", "deleting", "deleted"} => row[k].id > 0
  /\ row[k].id <= posted[k]
  /\ row[k].id > 0 \/ row[k].n > 0 \/ row[k].final => posted[k] > 0

\* The message that a has just posted, and the row does not know of.
HasPosted(a) == pc[a] \in {"sent", "reposted"}
NewCard(a, k) ==
  [id |-> posted[k], n |-> snap[a].n, b |-> IF a \in Chats THEN banner[a] ELSE row[k].b]

\* The row's message as a has edited it.
EditedCard(a, k) == [id |-> row[k].id, n |-> snap[a].n, b |-> row[k].b]

\* Messages have ids of their own, up to the last one.
CardsOf(k) ==
  /\ IsFiniteSet(cards[k])
  /\ \A x \in cards[k] : x.id \in 1..posted[k]
  /\ \A x, y \in cards[k] : x.id = y.id => x = y
  /\ \A a \in lock[k] :
       /\ HasPosted(a) => posted[k] > 0 /\ NewCard(a, k) \in cards[k]
       /\ pc[a] = "deleted" => Shown(k) = {}

\* A card beyond the one the row names is being saved, or its id was lost.
Midway(k) == \E a \in lock[k] : HasPosted(a)
CountOf(k) ==
  Cardinality(cards[k] \ Shown(k)) <= strays[k] + (IF Midway(k) THEN 1 ELSE 0)

\* What the row says is there, or what the holder of the lock has made of it.
Named(k) ==
  IF row[k].id = 0 THEN {} ELSE {[id |-> row[k].id, n |-> row[k].n, b |-> row[k].b]}
Acted == {"sent", "edited", "deleted", "reposted"}
TruthOf(k) ==
  k \notin hurt =>
    /\ (\A a \in lock[k] : pc[a] \notin Acted) => cards[k] = Named(k)
    /\ \A a \in lock[k] :
         /\ HasPosted(a) => cards[k] = {NewCard(a, k)}
         /\ pc[a] = "edited" => cards[k] = {EditedCard(a, k)}
         /\ pc[a] = "deleted" => cards[k] = {}

\* What is written about k, besides its line.
Written(k) == RowOf(k) /\ CardsOf(k) /\ CountOf(k) /\ TruthOf(k)

\* A start that is being written has reached the chats behind it, or missed them.
Passed == Chats \ (left[Feed] \union (IF pc[Feed] \in Lined THEN {at[Feed]} ELSE {}))
StartInv ==
  pc[Feed] \notin {"idle", "settling"} /\ mode = "start" =>
    \A c \in Passed : posted[<<c, snap[Feed].map>>] > 0 \/ <<c, snap[Feed].map>> \in missed

AtMostOne(S) == \A x, y \in S : x = y

\* A draw that is not the current one has somebody waiting for it.
DrawInv ==
  /\ \A a \in Actors : waits[a] # {} => a \notin Draws /\ pc[a] = "settling"
  /\ \A a \in Actors : \A d, e \in waits[a] : d = e
  /\ \A d, e \in drawing : d = e
  /\ \A d \in Draws : pc[d] # "idle" /\ d \notin drawing => \E a \in Actors : d \in waits[a]

CardInv ==
  /\ Typed /\ Roles /\ SnapsAreFrames /\ Lines
  /\ \A k \in Keys : Written(k)
  /\ StartInv /\ StartReachesAll
  /\ DrawInv /\ AtMostOne(turn)

----------------------------------------------------------------------------
(* Types. *)

\* Who has something to write has a chat, a card and a frame.
LEMMA SomeoneToWrite ==
  ASSUME CoroutinesTyped, SnapsAreFrames, NEW a \in Actors, pc[a] \notin {"idle", "looping"}
  PROVE  /\ ChatOf(a) \in Chats /\ KeyOf(a) \in Keys
         /\ snap[a].map \in Maps /\ snap[a].n \in 1..MaxFrames
BY LiveCardAssumption DEF CoroutinesTyped, SnapsAreFrames, Shows, KeyOf, ChatOf, Actors, Writers,
     Keys, Snapshots

\* submit keeps the types.
LEMMA SubmitTyped ==
  ASSUME MessengerTyped, CoroutinesTyped, NEW s \in Snapshots, NEW moved \in [Actors -> PCs], Submit(s, moved)
  PROVE  /\ latest' \in Snapshots /\ pending' \in Snapshots
         /\ drawing' \subseteq Draws /\ pc' \in [Actors -> PCs]
BY DEF MessengerTyped, CoroutinesTyped, Submit, Actors, Writers, PCs

\* _settle keeps the types.
LEMMA SettleTyped ==
  ASSUME MessengerTyped, CoroutinesTyped, NEW a \in Actors, Settle(a)
  PROVE  /\ pending' \in Snapshots /\ drawing' \subseteq Draws /\ turn' \subseteq Actors
         /\ pc' \in [Actors -> PCs] /\ waits' \in [Actors -> SUBSET Draws]
<1>1. NoSnap \in Snapshots
  BY LiveCardAssumption DEF NoSnap, Snapshots
<1>2. {d \in drawing : pc[d] # "idle"} \subseteq Draws
  BY DEF MessengerTyped
<1> QED
  BY <1>1, <1>2 DEF MessengerTyped, CoroutinesTyped, Settle, PCs

\* Asking for a lock keeps the types.
LEMMA QueueTyped ==
  ASSUME CoroutinesTyped, NEW a \in Actors, NEW k \in Keys, Queue(a, k)
  PROVE  /\ lock' \in [Keys -> SUBSET Actors] /\ ahead' \in [Actors -> SUBSET Actors]
         /\ pc' \in [Actors -> PCs] /\ turn' \subseteq Actors
BY DEF CoroutinesTyped, Queue, PCs

\* Letting go of a lock keeps the types.
LEMMA ReleaseTyped ==
  ASSUME CoroutinesTyped, NEW a \in Actors, Release(a)
  PROVE  lock' \in [Keys -> SUBSET Actors] /\ ahead' \in [Actors -> SUBSET Actors]
BY DEF CoroutinesTyped, Release

\* absorb's way out keeps the types.
LEMMA GiveUpTyped ==
  ASSUME MessengerTyped, CoroutinesTyped, NEW c \in Chats, GiveUp(c)
  PROVE  /\ latest' \in Snapshots /\ pending' \in Snapshots /\ drawing' \subseteq Draws
         /\ pc' \in [Actors -> PCs]
         /\ lock' \in [Keys -> SUBSET Actors] /\ ahead' \in [Actors -> SUBSET Actors]
<1>1. snap[c] \in Snapshots /\ [pc EXCEPT ![c] = "idle"] \in [Actors -> PCs]
  BY DEF CoroutinesTyped, Actors, PCs
<1>2. Submit(snap[c], [pc EXCEPT ![c] = "idle"]) /\ Release(c)
  BY DEF GiveUp
<1>. QED
  BY <1>1, <1>2, SubmitTyped, ReleaseTyped DEF Actors

\* There are finitely many coroutines.
LEMMA FiniteActors == IsFiniteSet(Actors)
BY LiveCardAssumption, FS_Union, FS_Singleton DEF Actors, Writers

\* Cancelling coroutines keeps the types.
LEMMA StoppedTyped ==
  ASSUME ChatTyped, CoroutinesTyped, FeedTyped, SnapsAreFrames, NEW dead \in SUBSET Actors, Stopped(dead)
  PROVE  /\ pc' \in [Actors -> PCs] /\ waits' \in [Actors -> SUBSET Draws]
         /\ lock' \in [Keys -> SUBSET Actors] /\ ahead' \in [Actors -> SUBSET Actors]
         /\ strays' \in [Keys -> Nat] /\ hurt' \subseteq Keys
         /\ missed' \subseteq Keys /\ turn' \subseteq Actors
<1>1. pc' \in [Actors -> PCs] /\ waits' \in [Actors -> SUBSET Draws]
  BY DEF CoroutinesTyped, Stopped, PCs
<1>2. lock' \in [Keys -> SUBSET Actors] /\ ahead' \in [Actors -> SUBSET Actors]
  BY DEF CoroutinesTyped, Stopped
<1>3. ASSUME NEW k \in Keys
      PROVE  strays[k] + Cardinality({a \in dead : pc[a] \in {"sent",
           "reposted"} /\ KeyOf(a) = k}) \in Nat
  <2> DEFINE D == {a \in dead : pc[a] \in {"sent", "reposted"} /\ KeyOf(a) = k}
  <2>1. D \subseteq Actors
    OBVIOUS
  <2>2. Cardinality(D) \in Nat
    BY <2>1, FiniteActors, FS_Subset, FS_CardinalityType
  <2>. QED
    BY <2>2 DEF ChatTyped
<1>4. strays' \in [Keys -> Nat]
  BY <1>3 DEF Stopped
<1>5. hurt' \subseteq Keys
  BY SomeoneToWrite DEF Stopped, ChatTyped
<1>. QED
  BY <1>1, <1>2, <1>4, <1>5 DEF Stopped, FeedTyped

\* Every step keeps the types of the messenger and the feed.
LEMMA MessengerStep ==
  ASSUME Typed, Roles, SnapsAreFrames, Next
  PROVE  MessengerTyped' /\ FeedTyped'
<1> USE LiveCardAssumption DEF Typed, MessengerTyped, FeedTyped, vars, chat, messenger, round,
     feed, line
<1>1. ASSUME NEW m \in Maps, NEW s \in Snapshots, OrdinaryFrame(m, s) PROVE MessengerTyped' /\ FeedTyped'
  BY <1>1, SomeoneToWrite, SubmitTyped DEF OrdinaryFrame, NewFrame, Begins, Submit,
       CoroutinesTyped, Roles, Actors, Writers, KeyOf, ChatOf, Snapshots, NoSnap, Keys, PCs
<1>2. ASSUME NEW m \in Maps, NEW s \in Snapshots, StartFrame(m, s) PROVE MessengerTyped' /\ FeedTyped'
  BY <1>2, SomeoneToWrite, SubmitTyped DEF StartFrame, NewFrame, Begins, Settle, CoroutinesTyped,
       Roles, Actors, Writers, KeyOf, ChatOf, Snapshots, NoSnap, Keys, PCs
<1>3. ASSUME NEW m \in Maps, NEW s \in Snapshots, FinalFrame(m, s) PROVE MessengerTyped' /\ FeedTyped'
  BY <1>3, SomeoneToWrite, SubmitTyped DEF FinalFrame, NewFrame, Begins, Settle, CoroutinesTyped,
       Roles, Actors, Writers, KeyOf, ChatOf, Snapshots, NoSnap, Keys, PCs
<1>4. ASSUME FeedSettled PROVE MessengerTyped' /\ FeedTyped'
  BY <1>4, SomeoneToWrite, SubmitTyped DEF FeedSettled, CoroutinesTyped, Roles, Actors, Writers,
       KeyOf, ChatOf, Snapshots, NoSnap, Keys, PCs
<1>5. ASSUME FeedRoundOver PROVE MessengerTyped' /\ FeedTyped'
  <2>1. snap[Feed].map \in Maps
    BY <1>5, SomeoneToWrite DEF FeedRoundOver, Actors, Writers
  <2>. QED
    BY <1>5, <2>1 DEF FeedRoundOver
<1>6. ASSUME NEW d \in Draws, DrawNext(d) PROVE MessengerTyped' /\ FeedTyped'
  BY <1>6, SomeoneToWrite, SubmitTyped DEF DrawNext, CoroutinesTyped, Roles, Actors, Writers,
       KeyOf, ChatOf, Snapshots, NoSnap, Keys, PCs
<1>7. ASSUME NEW d \in Draws, DrawOver(d) PROVE MessengerTyped' /\ FeedTyped'
  BY <1>7, SomeoneToWrite, SubmitTyped DEF DrawOver, Finish, CoroutinesTyped, Roles, Actors,
       Writers, KeyOf, ChatOf, Snapshots, NoSnap, Keys, PCs
<1>8. ASSUME NEW d \in Draws, RoundOver(d) PROVE MessengerTyped' /\ FeedTyped'
  <2>1. asleep' \in [Draws -> SUBSET Keys]
    BY <1>8 DEF RoundOver
  <2>. QED
    BY <1>8, <2>1 DEF RoundOver
<1>9. ASSUME NEW d \in Draws, Wake(d) PROVE MessengerTyped' /\ FeedTyped'
  BY <1>9, SomeoneToWrite, SubmitTyped DEF Wake, CoroutinesTyped, Roles, Actors, Writers, KeyOf,
       ChatOf, Snapshots, NoSnap, Keys, PCs
<1>10. ASSUME NEW d \in Draws, Nudged(d) PROVE MessengerTyped' /\ FeedTyped'
  BY <1>10, SomeoneToWrite, SubmitTyped DEF Nudged, Finish, CoroutinesTyped, Roles, Actors,
       Writers, KeyOf, ChatOf, Snapshots, NoSnap, Keys, PCs
<1>11. ASSUME NEW k \in Keys, IntervalPasses(k) PROVE MessengerTyped' /\ FeedTyped'
  BY <1>11, SomeoneToWrite, SubmitTyped DEF IntervalPasses, CoroutinesTyped, Roles, Actors,
       Writers, KeyOf, ChatOf, Snapshots, NoSnap, Keys, PCs
<1>12. ASSUME NEW a \in Writers, NEW c \in Chats, Visit(a, c) PROVE MessengerTyped' /\ FeedTyped'
  <2> DEFINE k == <<c, snap[a].map>>
  <2>1. k \in Keys
    BY <1>12, SomeoneToWrite DEF Visit, Actors, Keys
  <2>2. held' \subseteq Keys /\ missed' \subseteq Keys
    BY <1>12, <2>1 DEF Visit, Misses
  <2>. QED
    BY <1>12, <2>2 DEF Visit
<1>13. ASSUME NEW a \in Writers, WriteNothing(a) PROVE MessengerTyped' /\ FeedTyped'
  BY <1>13, SomeoneToWrite, SubmitTyped DEF WriteNothing, Locked, Release, BackTo,
       CoroutinesTyped, Roles, Actors, Writers, KeyOf, ChatOf, Snapshots, NoSnap, Keys, PCs
<1>14. ASSUME NEW a \in Writers, Write(a) PROVE MessengerTyped' /\ FeedTyped'
  BY <1>14, SomeoneToWrite, SubmitTyped DEF Write, Locked, CoroutinesTyped, Roles, Actors,
       Writers, KeyOf, ChatOf, Snapshots, NoSnap, Keys, PCs
<1>15. ASSUME NEW a \in Writers, Posted(a) PROVE MessengerTyped' /\ FeedTyped'
  BY <1>15, SomeoneToWrite, SubmitTyped DEF Posted, Post, CoroutinesTyped, Roles, Actors,
       Writers, KeyOf, ChatOf, Snapshots, NoSnap, Keys, PCs
<1>16. ASSUME NEW a \in Writers, Edited(a) PROVE MessengerTyped' /\ FeedTyped'
  BY <1>16, SomeoneToWrite, SubmitTyped DEF Edited, Shown, CoroutinesTyped, Roles, Actors,
       Writers, KeyOf, ChatOf, Snapshots, NoSnap, Keys, PCs
<1>17. ASSUME NEW a \in Writers, Saved(a) PROVE MessengerTyped' /\ FeedTyped'
  BY <1>17, SomeoneToWrite, SubmitTyped DEF Saved, Release, BackTo, CoroutinesTyped, Roles,
       Actors, Writers, KeyOf, ChatOf, Snapshots, NoSnap, Keys, PCs
<1>18. ASSUME NEW a \in Writers, WriteRefused(a) PROVE MessengerTyped' /\ FeedTyped'
  BY <1>18, SomeoneToWrite, SubmitTyped DEF WriteRefused, Misses, Release, BackTo, GoesWrong,
       Shown, CoroutinesTyped, Roles, Actors, Writers, KeyOf, ChatOf, Snapshots, NoSnap, Keys, PCs
<1>19. ASSUME NEW a \in Writers, WriteAnswerLost(a) PROVE MessengerTyped' /\ FeedTyped'
  <2>1. KeyOf(a) \in Keys
    BY <1>19, SomeoneToWrite DEF WriteAnswerLost, Actors
  <2>. QED
    BY <1>19, <2>1 DEF WriteAnswerLost, Misses, GoesWrong
<1>20. ASSUME NEW c \in Chats, NEW m \in Maps, Offer(c, m) PROVE MessengerTyped' /\ FeedTyped'
  BY <1>20, SomeoneToWrite, SubmitTyped DEF Offer, Settle, CoroutinesTyped, Roles, Actors,
       Writers, KeyOf, ChatOf, Snapshots, NoSnap, Keys, PCs
<1>21. ASSUME NEW c \in Chats, LaneSettled(c) PROVE MessengerTyped' /\ FeedTyped'
  BY <1>21, SomeoneToWrite, SubmitTyped DEF LaneSettled, Queue, CoroutinesTyped, Roles, Actors,
       Writers, KeyOf, ChatOf, Snapshots, NoSnap, Keys, PCs
<1>22. ASSUME NEW c \in Chats, LaneTooLate(c) PROVE MessengerTyped' /\ FeedTyped'
  BY <1>22, SomeoneToWrite, SubmitTyped DEF LaneTooLate, Locked, Release, CoroutinesTyped, Roles,
       Actors, Writers, KeyOf, ChatOf, Snapshots, NoSnap, Keys, PCs
<1>23. ASSUME NEW c \in Chats, Rebuild(c) PROVE MessengerTyped' /\ FeedTyped'
  BY <1>23, SomeoneToWrite, SubmitTyped DEF Rebuild, Locked, CoroutinesTyped, Roles, Actors,
       Writers, KeyOf, ChatOf, Snapshots, NoSnap, Keys, PCs
<1>24. ASSUME NEW c \in Chats, CardDeleted(c) PROVE MessengerTyped' /\ FeedTyped'
  BY <1>24, SomeoneToWrite, SubmitTyped DEF CardDeleted, Shown, CoroutinesTyped, Roles, Actors,
       Writers, KeyOf, ChatOf, Snapshots, NoSnap, Keys, PCs
<1>25. ASSUME NEW c \in Chats, ForgetId(c) PROVE MessengerTyped' /\ FeedTyped'
  BY <1>25, SomeoneToWrite, SubmitTyped DEF ForgetId, CoroutinesTyped, Roles, Actors, Writers,
       KeyOf, ChatOf, Snapshots, NoSnap, Keys, PCs
<1>26. ASSUME NEW c \in Chats, Reposted(c) PROVE MessengerTyped' /\ FeedTyped'
  BY <1>26, SomeoneToWrite, SubmitTyped DEF Reposted, Post, CoroutinesTyped, Roles, Actors,
       Writers, KeyOf, ChatOf, Snapshots, NoSnap, Keys, PCs
<1>27. ASSUME NEW c \in Chats, Rebuilt(c) PROVE MessengerTyped' /\ FeedTyped'
  BY <1>27, SomeoneToWrite, SubmitTyped DEF Rebuilt, Release, CoroutinesTyped, Roles, Actors,
       Writers, KeyOf, ChatOf, Snapshots, NoSnap, Keys, PCs
<1>28. ASSUME NEW c \in Chats, RebuildRefused(c) PROVE MessengerTyped' /\ FeedTyped'
  <2>1. GiveUp(c)
    BY <1>28 DEF RebuildRefused
  <2>. QED
    BY <1>28, <2>1, GiveUpTyped, SomeoneToWrite DEF RebuildRefused, GoesWrong, Actors
<1>29. ASSUME NEW c \in Chats, RebuildAnswerLost(c) PROVE MessengerTyped' /\ FeedTyped'
  <2>1. GiveUp(c)
    BY <1>29 DEF RebuildAnswerLost
  <2>. QED
    BY <1>29, <2>1, GiveUpTyped, SomeoneToWrite DEF RebuildAnswerLost, GoesWrong, Actors
<1>30. ASSUME FeedCancelled PROVE MessengerTyped' /\ FeedTyped'
  <2>1. Stopped({Feed} \union waits[Feed]) /\ {Feed} \union waits[Feed] \subseteq Actors
    BY <1>30 DEF FeedCancelled, CoroutinesTyped, Actors, Writers
  <2>. QED
    BY <1>30, <2>1, StoppedTyped DEF FeedCancelled, GoesWrong
<1>31. ASSUME Crash PROVE MessengerTyped' /\ FeedTyped'
  <2>1. NoSnap \in Snapshots
    BY DEF NoSnap, Snapshots
  <2>. QED
    BY <1>31, <2>1, StoppedTyped DEF Crash, GoesWrong
<1> QED
  BY <1>1, <1>2, <1>3, <1>4, <1>5, <1>6, <1>7, <1>8, <1>9, <1>10, <1>11, <1>12, <1>13, <1>14,
       <1>15, <1>16, <1>17, <1>18, <1>19, <1>20, <1>21, <1>22, <1>23, <1>24, <1>25, <1>26, <1>27,
       <1>28, <1>29, <1>30, <1>31 DEF Next, Feeding, Drawing, Writing, Absorbing, Answers,
       Actors, Writers

\* Every step keeps the types of the rows and the chats.
LEMMA ChatStep ==
  ASSUME Typed, Roles, SnapsAreFrames, Next
  PROVE  ChatTyped'
<1> USE LiveCardAssumption DEF Typed, ChatTyped, vars, chat, messenger, round, feed, line
<1>1. ASSUME NEW m \in Maps, NEW s \in Snapshots, OrdinaryFrame(m, s) PROVE ChatTyped'
  BY <1>1, SomeoneToWrite DEF OrdinaryFrame, NewFrame, Begins, Submit, CoroutinesTyped,
       FeedTyped, Rows, Card, Actors, Writers
<1>2. ASSUME NEW m \in Maps, NEW s \in Snapshots, StartFrame(m, s) PROVE ChatTyped'
  BY <1>2, SomeoneToWrite DEF StartFrame, NewFrame, Begins, Settle, CoroutinesTyped, FeedTyped,
       Rows, Card, Actors, Writers
<1>3. ASSUME NEW m \in Maps, NEW s \in Snapshots, FinalFrame(m, s) PROVE ChatTyped'
  BY <1>3, SomeoneToWrite DEF FinalFrame, NewFrame, Begins, Settle, CoroutinesTyped, FeedTyped,
       Rows, Card, Actors, Writers
<1>4. ASSUME FeedSettled PROVE ChatTyped'
  BY <1>4, SomeoneToWrite DEF FeedSettled, CoroutinesTyped, FeedTyped, Rows, Card, Actors, Writers
<1>5. ASSUME FeedRoundOver PROVE ChatTyped'
  BY <1>5, SomeoneToWrite DEF FeedRoundOver, CoroutinesTyped, FeedTyped, Rows, Card, Actors, Writers
<1>6. ASSUME NEW d \in Draws, DrawNext(d) PROVE ChatTyped'
  BY <1>6, SomeoneToWrite DEF DrawNext, CoroutinesTyped, FeedTyped, Rows, Card, Actors, Writers
<1>7. ASSUME NEW d \in Draws, DrawOver(d) PROVE ChatTyped'
  BY <1>7, SomeoneToWrite DEF DrawOver, Finish, CoroutinesTyped, FeedTyped, Rows, Card, Actors,
       Writers
<1>8. ASSUME NEW d \in Draws, RoundOver(d) PROVE ChatTyped'
  BY <1>8, SomeoneToWrite DEF RoundOver, Finish, CoroutinesTyped, FeedTyped, Rows, Card, Actors,
       Writers
<1>9. ASSUME NEW d \in Draws, Wake(d) PROVE ChatTyped'
  BY <1>9, SomeoneToWrite DEF Wake, CoroutinesTyped, FeedTyped, Rows, Card, Actors, Writers
<1>10. ASSUME NEW d \in Draws, Nudged(d) PROVE ChatTyped'
  BY <1>10, SomeoneToWrite DEF Nudged, Finish, CoroutinesTyped, FeedTyped, Rows, Card, Actors,
       Writers
<1>11. ASSUME NEW k \in Keys, IntervalPasses(k) PROVE ChatTyped'
  BY <1>11, SomeoneToWrite DEF IntervalPasses, CoroutinesTyped, FeedTyped, Rows, Card, Actors,
       Writers
<1>12. ASSUME NEW a \in Writers, NEW c \in Chats, Visit(a, c) PROVE ChatTyped'
  BY <1>12, SomeoneToWrite DEF Visit, Misses, Queue, CoroutinesTyped, FeedTyped, Rows, Card,
       Actors, Writers
<1>13. ASSUME NEW a \in Writers, WriteNothing(a) PROVE ChatTyped'
  BY <1>13, SomeoneToWrite DEF WriteNothing, Locked, Release, BackTo, CoroutinesTyped, FeedTyped,
       Rows, Card, Actors, Writers
<1>14. ASSUME NEW a \in Writers, Write(a) PROVE ChatTyped'
  BY <1>14, SomeoneToWrite DEF Write, Locked, CoroutinesTyped, FeedTyped, Rows, Card, Actors,
       Writers
<1>15. ASSUME NEW a \in Writers, Posted(a) PROVE ChatTyped'
  BY <1>15, SomeoneToWrite DEF Posted, Post, CoroutinesTyped, FeedTyped, Rows, Card, Actors, Writers
<1>16. ASSUME NEW a \in Writers, Edited(a) PROVE ChatTyped'
  BY <1>16, SomeoneToWrite DEF Edited, Shown, CoroutinesTyped, FeedTyped, Rows, Card, Actors,
       Writers
<1>17. ASSUME NEW a \in Writers, Saved(a) PROVE ChatTyped'
  BY <1>17, SomeoneToWrite, SMTT(30) DEF Saved, Release, BackTo, CoroutinesTyped, FeedTyped, Rows, Card,
       Actors, Writers
<1>18. ASSUME NEW a \in Writers, WriteRefused(a) PROVE ChatTyped'
  BY <1>18, SomeoneToWrite DEF WriteRefused, Misses, Release, BackTo, GoesWrong, Shown,
       CoroutinesTyped, FeedTyped, Rows, Card, Actors, Writers
<1>19. ASSUME NEW a \in Writers, WriteAnswerLost(a) PROVE ChatTyped'
  <2>1. KeyOf(a) \in Keys
    BY <1>19, SomeoneToWrite DEF WriteAnswerLost, Actors
  <2>2. strays' \in [Keys -> Nat]
    BY <1>19, <2>1 DEF WriteAnswerLost
  <2>. QED
    BY <1>19, <2>1, <2>2 DEF WriteAnswerLost
<1>20. ASSUME NEW c \in Chats, NEW m \in Maps, Offer(c, m) PROVE ChatTyped'
  BY <1>20, SomeoneToWrite DEF Offer, Settle, CoroutinesTyped, FeedTyped, Rows, Card, Actors,
       Writers
<1>21. ASSUME NEW c \in Chats, LaneSettled(c) PROVE ChatTyped'
  BY <1>21, SomeoneToWrite DEF LaneSettled, Queue, CoroutinesTyped, FeedTyped, Rows, Card,
       Actors, Writers
<1>22. ASSUME NEW c \in Chats, LaneTooLate(c) PROVE ChatTyped'
  BY <1>22, SomeoneToWrite DEF LaneTooLate, Locked, Release, CoroutinesTyped, FeedTyped, Rows,
       Card, Actors, Writers
<1>23. ASSUME NEW c \in Chats, Rebuild(c) PROVE ChatTyped'
  BY <1>23, SomeoneToWrite DEF Rebuild, Locked, CoroutinesTyped, FeedTyped, Rows, Card, Actors,
       Writers
<1>24. ASSUME NEW c \in Chats, CardDeleted(c) PROVE ChatTyped'
  BY <1>24, SomeoneToWrite DEF CardDeleted, Shown, CoroutinesTyped, FeedTyped, Rows, Card,
       Actors, Writers
<1>25. ASSUME NEW c \in Chats, ForgetId(c) PROVE ChatTyped'
  <2>1. KeyOf(c) \in Keys
    BY <1>25, SomeoneToWrite DEF ForgetId, Actors
  <2>2. [row[KeyOf(c)] EXCEPT !.id = 0] \in Rows
    BY <2>1 DEF Rows
  <2>. QED
    BY <1>25, <2>1, <2>2 DEF ForgetId
<1>26. ASSUME NEW c \in Chats, Reposted(c) PROVE ChatTyped'
  BY <1>26, SomeoneToWrite, SMTT(30) DEF Reposted, Post, CoroutinesTyped, FeedTyped, Rows, Card, Actors,
       Writers
<1>27. ASSUME NEW c \in Chats, Rebuilt(c) PROVE ChatTyped'
  BY <1>27, SomeoneToWrite DEF Rebuilt, Release, CoroutinesTyped, FeedTyped, Rows, Card, Actors,
       Writers
<1>28. ASSUME NEW c \in Chats, RebuildRefused(c) PROVE ChatTyped'
  BY <1>28, SomeoneToWrite DEF RebuildRefused, GiveUp, Submit, Release, GoesWrong, Shown,
       CoroutinesTyped, FeedTyped, Rows, Card, Actors, Writers
<1>29. ASSUME NEW c \in Chats, RebuildAnswerLost(c) PROVE ChatTyped'
  BY <1>29, SomeoneToWrite DEF RebuildAnswerLost, GiveUp, Submit, Release, GoesWrong,
       CoroutinesTyped, FeedTyped, Rows, Card, Actors, Writers
<1>30. ASSUME FeedCancelled PROVE ChatTyped'
  <2>1. Stopped({Feed} \union waits[Feed]) /\ {Feed} \union waits[Feed] \subseteq Actors
    BY <1>30 DEF FeedCancelled, CoroutinesTyped, Actors, Writers
  <2>. QED
    BY <1>30, <2>1, StoppedTyped DEF FeedCancelled
<1>31. ASSUME Crash PROVE ChatTyped'
  <2>. QED
    BY <1>31, StoppedTyped DEF Crash
<1> QED
  BY <1>1, <1>2, <1>3, <1>4, <1>5, <1>6, <1>7, <1>8, <1>9, <1>10, <1>11, <1>12, <1>13, <1>14,
       <1>15, <1>16, <1>17, <1>18, <1>19, <1>20, <1>21, <1>22, <1>23, <1>24, <1>25, <1>26, <1>27,
       <1>28, <1>29, <1>30, <1>31 DEF Next, Feeding, Drawing, Writing, Absorbing, Answers,
       Actors, Writers

\* Every step keeps the types of the coroutines.
LEMMA CoroutinesStep ==
  ASSUME Typed, Roles, SnapsAreFrames, Next
  PROVE  CoroutinesTyped'
<1> USE LiveCardAssumption DEF Typed, CoroutinesTyped, vars, chat, messenger, round, feed, line
<1>1. ASSUME NEW m \in Maps, NEW s \in Snapshots, OrdinaryFrame(m, s) PROVE CoroutinesTyped'
  BY <1>1, SomeoneToWrite, SubmitTyped, SettleTyped, QueueTyped, ReleaseTyped, GiveUpTyped
       DEF OrdinaryFrame, NewFrame, Begins, MessengerTyped, FeedTyped, Actors, Writers, PCs,
       NewFrame, Snapshots
<1>2. ASSUME NEW m \in Maps, NEW s \in Snapshots, StartFrame(m, s) PROVE CoroutinesTyped'
  BY <1>2, SomeoneToWrite, SubmitTyped, SettleTyped, QueueTyped, ReleaseTyped, GiveUpTyped
       DEF StartFrame, NewFrame, Begins, MessengerTyped, FeedTyped, Actors, Writers, PCs,
       NewFrame, Snapshots
<1>3. ASSUME NEW m \in Maps, NEW s \in Snapshots, FinalFrame(m, s) PROVE CoroutinesTyped'
  BY <1>3, SomeoneToWrite, SubmitTyped, SettleTyped, QueueTyped, ReleaseTyped, GiveUpTyped
       DEF FinalFrame, NewFrame, Begins, MessengerTyped, FeedTyped, Actors, Writers, PCs,
       NewFrame, Snapshots
<1>4. ASSUME FeedSettled PROVE CoroutinesTyped'
  BY <1>4, SomeoneToWrite, SubmitTyped, SettleTyped, QueueTyped, ReleaseTyped, GiveUpTyped
       DEF FeedSettled, MessengerTyped, FeedTyped, Actors, Writers, PCs, NewFrame, Snapshots
<1>5. ASSUME FeedRoundOver PROVE CoroutinesTyped'
  BY <1>5, SomeoneToWrite, SubmitTyped, SettleTyped, QueueTyped, ReleaseTyped, GiveUpTyped
       DEF FeedRoundOver, MessengerTyped, FeedTyped, Actors, Writers, PCs, NewFrame, Snapshots
<1>6. ASSUME NEW d \in Draws, DrawNext(d) PROVE CoroutinesTyped'
  BY <1>6, SomeoneToWrite, SubmitTyped, SettleTyped, QueueTyped, ReleaseTyped, GiveUpTyped
       DEF DrawNext, MessengerTyped, FeedTyped, Actors, Writers, PCs, NewFrame, Snapshots
<1>7. ASSUME NEW d \in Draws, DrawOver(d) PROVE CoroutinesTyped'
  BY <1>7, SomeoneToWrite, SubmitTyped, SettleTyped, QueueTyped, ReleaseTyped, GiveUpTyped
       DEF DrawOver, Finish, MessengerTyped, FeedTyped, Actors, Writers, PCs, NewFrame, Snapshots
<1>8. ASSUME NEW d \in Draws, RoundOver(d) PROVE CoroutinesTyped'
  <2>1. pc' \in [Actors -> PCs] /\ turn' \subseteq Actors
    BY <1>8 DEF RoundOver, Finish, Actors, Writers, PCs
  <2>2. waits' \in [Actors -> SUBSET Draws]
    BY <1>8 DEF RoundOver, Finish
  <2>. QED
    BY <1>8, <2>1, <2>2 DEF RoundOver
<1>9. ASSUME NEW d \in Draws, Wake(d) PROVE CoroutinesTyped'
  BY <1>9, SomeoneToWrite, SubmitTyped, SettleTyped, QueueTyped, ReleaseTyped, GiveUpTyped
       DEF Wake, MessengerTyped, FeedTyped, Actors, Writers, PCs, NewFrame, Snapshots
<1>10. ASSUME NEW d \in Draws, Nudged(d) PROVE CoroutinesTyped'
  BY <1>10, SomeoneToWrite, SubmitTyped, SettleTyped, QueueTyped, ReleaseTyped, GiveUpTyped
       DEF Nudged, Finish, MessengerTyped, FeedTyped, Actors, Writers, PCs, NewFrame, Snapshots
<1>11. ASSUME NEW k \in Keys, IntervalPasses(k) PROVE CoroutinesTyped'
  BY <1>11, SomeoneToWrite, SubmitTyped, SettleTyped, QueueTyped, ReleaseTyped, GiveUpTyped
       DEF IntervalPasses, MessengerTyped, FeedTyped, Actors, Writers, PCs, NewFrame, Snapshots
<1>12. ASSUME NEW a \in Writers, NEW c \in Chats, Visit(a, c) PROVE CoroutinesTyped'
  <2> DEFINE k == <<c, snap[a].map>>
  <2>1. k \in Keys
    BY <1>12, SomeoneToWrite DEF Visit, Actors, Keys
  <2>2. Queue(a, k) \/ UNCHANGED <<line, pc, turn>>
    BY <1>12 DEF Visit, Queue
  <2>3. /\ lock' \in [Keys -> SUBSET Actors] /\ ahead' \in [Actors -> SUBSET Actors]
        /\ pc' \in [Actors -> PCs] /\ turn' \subseteq Actors
    BY <2>1, <2>2, QueueTyped DEF Actors
  <2>. QED
    BY <1>12, <2>3 DEF Visit
<1>13. ASSUME NEW a \in Writers, WriteNothing(a) PROVE CoroutinesTyped'
  BY <1>13, SomeoneToWrite, SubmitTyped, SettleTyped, QueueTyped, ReleaseTyped, GiveUpTyped
       DEF WriteNothing, Locked, BackTo, MessengerTyped, FeedTyped, Actors, Writers, PCs,
       NewFrame, Snapshots
<1>14. ASSUME NEW a \in Writers, Write(a) PROVE CoroutinesTyped'
  BY <1>14, SomeoneToWrite, SubmitTyped, SettleTyped, QueueTyped, ReleaseTyped, GiveUpTyped
       DEF Write, Locked, MessengerTyped, FeedTyped, Actors, Writers, PCs, NewFrame, Snapshots
<1>15. ASSUME NEW a \in Writers, Posted(a) PROVE CoroutinesTyped'
  BY <1>15, SomeoneToWrite, SubmitTyped, SettleTyped, QueueTyped, ReleaseTyped, GiveUpTyped
       DEF Posted, Post, MessengerTyped, FeedTyped, Actors, Writers, PCs, NewFrame, Snapshots
<1>16. ASSUME NEW a \in Writers, Edited(a) PROVE CoroutinesTyped'
  BY <1>16, SomeoneToWrite, SubmitTyped, SettleTyped, QueueTyped, ReleaseTyped, GiveUpTyped
       DEF Edited, Shown, MessengerTyped, FeedTyped, Actors, Writers, PCs, NewFrame, Snapshots
<1>17. ASSUME NEW a \in Writers, Saved(a) PROVE CoroutinesTyped'
  BY <1>17, SomeoneToWrite, SubmitTyped, SettleTyped, QueueTyped, ReleaseTyped, GiveUpTyped
       DEF Saved, BackTo, MessengerTyped, FeedTyped, Actors, Writers, PCs, NewFrame, Snapshots
<1>18. ASSUME NEW a \in Writers, WriteRefused(a) PROVE CoroutinesTyped'
  BY <1>18, SomeoneToWrite, SubmitTyped, SettleTyped, QueueTyped, ReleaseTyped, GiveUpTyped
       DEF WriteRefused, Misses, BackTo, GoesWrong, Shown, MessengerTyped, FeedTyped, Actors,
       Writers, PCs, NewFrame, Snapshots
<1>19. ASSUME NEW a \in Writers, WriteAnswerLost(a) PROVE CoroutinesTyped'
  BY <1>19, SomeoneToWrite, SubmitTyped, SettleTyped, QueueTyped, ReleaseTyped, GiveUpTyped
       DEF WriteAnswerLost, Misses, BackTo, GoesWrong, MessengerTyped, FeedTyped, Actors,
       Writers, PCs, NewFrame, Snapshots
<1>20. ASSUME NEW c \in Chats, NEW m \in Maps, Offer(c, m) PROVE CoroutinesTyped'
  BY <1>20, SomeoneToWrite, SubmitTyped, SettleTyped, QueueTyped, ReleaseTyped, GiveUpTyped
       DEF Offer, MessengerTyped, FeedTyped, Actors, Writers, PCs, NewFrame, Snapshots
<1>21. ASSUME NEW c \in Chats, LaneSettled(c) PROVE CoroutinesTyped'
  BY <1>21, SomeoneToWrite, SubmitTyped, SettleTyped, QueueTyped, ReleaseTyped, GiveUpTyped
       DEF LaneSettled, MessengerTyped, FeedTyped, Actors, Writers, PCs, NewFrame, Snapshots
<1>22. ASSUME NEW c \in Chats, LaneTooLate(c) PROVE CoroutinesTyped'
  BY <1>22, SomeoneToWrite, SubmitTyped, SettleTyped, QueueTyped, ReleaseTyped, GiveUpTyped
       DEF LaneTooLate, Locked, MessengerTyped, FeedTyped, Actors, Writers, PCs, NewFrame, Snapshots
<1>23. ASSUME NEW c \in Chats, Rebuild(c) PROVE CoroutinesTyped'
  BY <1>23, SomeoneToWrite, SubmitTyped, SettleTyped, QueueTyped, ReleaseTyped, GiveUpTyped
       DEF Rebuild, Locked, MessengerTyped, FeedTyped, Actors, Writers, PCs, NewFrame, Snapshots
<1>24. ASSUME NEW c \in Chats, CardDeleted(c) PROVE CoroutinesTyped'
  BY <1>24, SomeoneToWrite, SubmitTyped, SettleTyped, QueueTyped, ReleaseTyped, GiveUpTyped
       DEF CardDeleted, Shown, MessengerTyped, FeedTyped, Actors, Writers, PCs, NewFrame, Snapshots
<1>25. ASSUME NEW c \in Chats, ForgetId(c) PROVE CoroutinesTyped'
  BY <1>25, SomeoneToWrite, SubmitTyped, SettleTyped, QueueTyped, ReleaseTyped, GiveUpTyped
       DEF ForgetId, MessengerTyped, FeedTyped, Actors, Writers, PCs, NewFrame, Snapshots
<1>26. ASSUME NEW c \in Chats, Reposted(c) PROVE CoroutinesTyped'
  BY <1>26, SomeoneToWrite, SubmitTyped, SettleTyped, QueueTyped, ReleaseTyped, GiveUpTyped
       DEF Reposted, Post, MessengerTyped, FeedTyped, Actors, Writers, PCs, NewFrame, Snapshots
<1>27. ASSUME NEW c \in Chats, Rebuilt(c) PROVE CoroutinesTyped'
  BY <1>27, SomeoneToWrite, SubmitTyped, SettleTyped, QueueTyped, ReleaseTyped, GiveUpTyped
       DEF Rebuilt, MessengerTyped, FeedTyped, Actors, Writers, PCs, NewFrame, Snapshots
<1>28. ASSUME NEW c \in Chats, RebuildRefused(c) PROVE CoroutinesTyped'
  BY <1>28, SomeoneToWrite, SubmitTyped, SettleTyped, QueueTyped, ReleaseTyped, GiveUpTyped
       DEF RebuildRefused, GiveUp, GoesWrong, Shown, MessengerTyped, FeedTyped, Actors, Writers,
       PCs, NewFrame, Snapshots
<1>29. ASSUME NEW c \in Chats, RebuildAnswerLost(c) PROVE CoroutinesTyped'
  BY <1>29, SomeoneToWrite, SubmitTyped, SettleTyped, QueueTyped, ReleaseTyped, GiveUpTyped
       DEF RebuildAnswerLost, GiveUp, GoesWrong, MessengerTyped, FeedTyped, Actors, Writers, PCs,
       NewFrame, Snapshots
<1>30. ASSUME FeedCancelled PROVE CoroutinesTyped'
  <2>1. Stopped({Feed} \union waits[Feed]) /\ {Feed} \union waits[Feed] \subseteq Actors
    BY <1>30 DEF FeedCancelled, CoroutinesTyped, Actors, Writers
  <2>. QED
    BY <1>30, <2>1, StoppedTyped DEF FeedCancelled
<1>31. ASSUME Crash PROVE CoroutinesTyped'
  <2>. QED
    BY <1>31, StoppedTyped DEF Crash
<1> QED
  BY <1>1, <1>2, <1>3, <1>4, <1>5, <1>6, <1>7, <1>8, <1>9, <1>10, <1>11, <1>12, <1>13, <1>14,
       <1>15, <1>16, <1>17, <1>18, <1>19, <1>20, <1>21, <1>22, <1>23, <1>24, <1>25, <1>26, <1>27,
       <1>28, <1>29, <1>30, <1>31 DEF Next, Feeding, Drawing, Writing, Absorbing, Answers,
       Actors, Writers

----------------------------------------------------------------------------
(* Kinds of steps: what an action does to a card's line. *)

\* b is at the same place with the same card in hand.
Same(b) ==
  /\ pc'[b] = pc[b] /\ KeyOf(b)' = KeyOf(b) /\ snap'[b] = snap[b]
  /\ b \in Chats => banner'[b] = banner[b]
Others(a) ==
  \A b \in Actors : b # a =>
    (pc'[b] \in Lined <=> pc[b] \in Lined) /\ (pc[b] \in Lined => Same(b))
ChatSame(k) ==
  /\ row'[k] = row[k] /\ cards'[k] = cards[k]
  /\ posted'[k] = posted[k] /\ strays'[k] = strays[k] /\ (k \in hurt' <=> k \in hurt)

\* What a step can be to the lines: nothing, one more, one at work, one less.
Aside ==
  /\ UNCHANGED line
  /\ \A b \in Actors : (pc'[b] \in Lined <=> pc[b] \in Lined) /\ (pc[b] \in Lined => Same(b))
  /\ \A k \in Keys : ChatSame(k)
Joins(a, k) ==
  /\ pc[a] \notin Lined /\ pc'[a] = "queued" /\ KeyOf(a)' = k
  /\ lock' = [lock EXCEPT ![k] = @ \union {a}] /\ ahead' = [ahead EXCEPT ![a] = lock[k]]
  /\ Others(a)
  /\ \A j \in Keys : ChatSame(j)
Works(a, k) ==
  /\ pc[a] \in Lined /\ KeyOf(a) = k /\ ahead[a] = {} /\ pc'[a] \in Holding
  /\ KeyOf(a)' = k /\ snap'[a] = snap[a] /\ (a \in Chats => banner'[a] = banner[a])
  /\ UNCHANGED line
  /\ Others(a)
  /\ \A j \in Keys : j # k => ChatSame(j)
Leaves(a, k) ==
  /\ pc[a] \in Lined /\ KeyOf(a) = k /\ ahead[a] = {} /\ pc'[a] \notin Lined
  /\ Release(a)
  /\ Others(a)
  /\ \A j \in Keys : j # k => ChatSame(j)
Stops(dead) ==
  /\ Stopped(dead)
  /\ UNCHANGED <<row, cards, posted, snap, at, banner>>

Kind ==
  \/ Aside
  \/ \E a \in Actors, k \in Keys : Joins(a, k) \/ Works(a, k) \/ Leaves(a, k)
  \/ \E dead \in SUBSET Actors : Stops(dead)

\* submit moves nobody but the draw that it starts.
LEMMA SubmitMoves ==
  ASSUME Typed, NEW s, NEW moved, Submit(s, moved), moved \in [Actors -> PCs]
  PROVE  \A a \in Actors : pc'[a] = moved[a]
                            \/ (a \in Draws /\ pc[a] = "idle" /\ pc'[a] = "looping")
<1>1. CASE pc' = moved
  BY <1>1
<1>2. ASSUME NEW d \in Draws, pc[d] = "idle", pc' = [moved EXCEPT ![d] = "looping"]
      PROVE  \A a \in Actors : pc'[a] = moved[a]
                                \/ (a \in Draws /\ pc[a] = "idle" /\ pc'[a] = "looping")
  <2>1. \A a \in Actors : pc'[a] = IF a = d THEN "looping" ELSE moved[a]
    BY <1>2
  <2>. QED
    BY <1>2, <2>1
<1>. QED
  BY <1>1, <1>2 DEF Submit

\* Who has nobody ahead is the only one at work: the others await it.
LEMMA HoldersAreAlone ==
  ASSUME Typed, Roles, SnapsAreFrames, Lines,
         NEW a \in Actors, pc[a] \in Lined
  PROVE  /\ KeyOf(a) \in Keys /\ a \in lock[KeyOf(a)]
         /\ pc[a] \in Holding => ahead[a] = {}
         /\ ahead[a] = {} => \A b \in lock[KeyOf(a)] : b # a => pc[b] = "queued" /\ a \in ahead[b]
<1>1. KeyOf(a) \in Keys
  BY SomeoneToWrite DEF Typed, Lined, Holding
<1>2. a \in lock[KeyOf(a)] /\ LineOf(KeyOf(a))
  BY <1>1 DEF Lines, AllInLine
<1>. QED
  BY <1>1, <1>2 DEF LineOf, Lined

----------------------------------------------------------------------------
(* Which action is which kind of step. *)

Passing ==
  \/ \E m \in Maps, s \in Snapshots :
       OrdinaryFrame(m, s) \/ StartFrame(m, s) \/ FinalFrame(m, s)
  \/ FeedSettled \/ FeedRoundOver
  \/ \E d \in Draws : DrawNext(d) \/ DrawOver(d) \/ RoundOver(d) \/ Wake(d) \/ Nudged(d)
  \/ \E k \in Keys : IntervalPasses(k)
  \/ \E c \in Chats, m \in Maps : Offer(c, m)
Working(a) == Write(a) \/ Posted(a) \/ Edited(a)
Leaving(a) == WriteNothing(a) \/ Saved(a) \/ WriteRefused(a) \/ WriteAnswerLost(a)
WorkingLane(c) == Rebuild(c) \/ CardDeleted(c) \/ ForgetId(c) \/ Reposted(c)
LeavingLane(c) ==
  LaneTooLate(c) \/ Rebuilt(c) \/ RebuildRefused(c) \/ RebuildAnswerLost(c)
Stopping == FeedCancelled \/ Crash

\* The actions by what they are to a card's line.
LEMMA NextIsOneOf ==
  ASSUME Next
  PROVE  \/ Passing \/ Stopping
         \/ \E a \in Writers : (\E c \in Chats : Visit(a, c)) \/ Working(a) \/ Leaving(a)
         \/ \E c \in Chats : LaneSettled(c) \/ WorkingLane(c) \/ LeavingLane(c)
BY DEF Next, Feeding, Drawing, Writing, Absorbing, Answers, Actors, Writers, Passing,
       Working, Leaving, WorkingLane, LeavingLane, Stopping

\* A step that is not a writer's, or is before its lock, leaves the lines alone.
LEMMA PassingIsAside ==
  ASSUME Typed, Roles, Passing
  PROVE  Aside
<1> USE LiveCardAssumption DEF Typed, CoroutinesTyped, MessengerTyped, Roles, Lined, Holding,
        vars, chat, messenger, round, feed, line
<1>1. ASSUME NEW m \in Maps, NEW s \in Snapshots, OrdinaryFrame(m, s) PROVE Aside
  <2>1. pc \in [Actors -> PCs] /\ Submit(s, pc)
    BY <1>1 DEF OrdinaryFrame
  <2>2. \A b \in Actors :
          pc'[b] = pc[b] \/ (b \in Draws /\ pc[b] = "idle" /\ pc'[b] = "looping")
    BY <2>1, SubmitMoves
  <2>. QED
    BY <1>1, <2>2 DEF OrdinaryFrame, Aside, Same, ChatSame, Actors, Writers, KeyOf, ChatOf
<1>2. ASSUME NEW m \in Maps, NEW s \in Snapshots, StartFrame(m, s) PROVE Aside
  BY <1>2 DEF StartFrame, NewFrame, Settle, Aside, Same, ChatSame, Actors, Writers, KeyOf, ChatOf
<1>3. ASSUME NEW m \in Maps, NEW s \in Snapshots, FinalFrame(m, s) PROVE Aside
  BY <1>3 DEF FinalFrame, NewFrame, Settle, Aside, Same, ChatSame, Actors, Writers, KeyOf, ChatOf
<1>4. ASSUME FeedSettled PROVE Aside
  BY <1>4 DEF FeedSettled, Aside, Same, ChatSame, Actors, Writers, KeyOf, ChatOf
<1>5. ASSUME FeedRoundOver PROVE Aside
  BY <1>5 DEF FeedRoundOver, Aside, Same, ChatSame, Actors, Writers, KeyOf, ChatOf
<1>6. ASSUME NEW d \in Draws, DrawNext(d) PROVE Aside
  BY <1>6 DEF DrawNext, Aside, Same, ChatSame, Actors, Writers, KeyOf, ChatOf
<1>7. ASSUME NEW d \in Draws, DrawOver(d) PROVE Aside
  BY <1>7 DEF DrawOver, Finish, Aside, Same, ChatSame, Actors, Writers, KeyOf, ChatOf
<1>8. ASSUME NEW d \in Draws, RoundOver(d) PROVE Aside
  BY <1>8 DEF RoundOver, Finish, Aside, Same, ChatSame, Actors, Writers, KeyOf, ChatOf
<1>9. ASSUME NEW d \in Draws, Wake(d) PROVE Aside
  BY <1>9 DEF Wake, Aside, Same, ChatSame, Actors, Writers, KeyOf, ChatOf
<1>10. ASSUME NEW d \in Draws, Nudged(d) PROVE Aside
  BY <1>10 DEF Nudged, Finish, Aside, Same, ChatSame, Actors, Writers, KeyOf, ChatOf
<1>11. ASSUME NEW k \in Keys, IntervalPasses(k) PROVE Aside
  BY <1>11 DEF IntervalPasses, Aside, Same, ChatSame, Actors, Writers, KeyOf, ChatOf
<1>12. ASSUME NEW c \in Chats, NEW m \in Maps, Offer(c, m) PROVE Aside
  BY <1>12 DEF Offer, Settle, Aside, Same, ChatSame, Actors, Writers, KeyOf, ChatOf
<1>. QED
  BY <1>1, <1>2, <1>3, <1>4, <1>5, <1>6, <1>7, <1>8, <1>9, <1>10, <1>11, <1>12 DEF Passing

\* A writer's step under the lock is at work on its card alone.
LEMMA WorkingWorks ==
  ASSUME Typed, Roles, SnapsAreFrames, Lines, NEW a \in Writers, Working(a)
  PROVE  KeyOf(a) \in Keys /\ Works(a, KeyOf(a))
<1> USE LiveCardAssumption DEF Typed, CoroutinesTyped, ChatTyped, Roles, Lined, Holding,
        vars, chat, messenger, round, feed, line
<1>1. KeyOf(a) \in Keys /\ ahead[a] = {}
  BY HoldersAreAlone DEF Lines, Working, Write, Posted, Edited, Locked, Actors, Writers
<1>2. CASE Write(a)
  BY <1>2, <1>1 DEF Write, Locked, Works, Same, Others, ChatSame, Actors, Writers, KeyOf, ChatOf
<1>3. CASE Posted(a)
  BY <1>3, <1>1 DEF Posted, Post, Works, Same, Others, ChatSame, Actors, Writers, KeyOf, ChatOf
<1>4. CASE Edited(a)
  BY <1>4, <1>1 DEF Edited, Shown, Works, Same, Others, ChatSame, Actors, Writers, KeyOf, ChatOf
<1>. QED
  BY <1>1, <1>2, <1>3, <1>4 DEF Working

\* So is a lane's.
LEMMA LaneWorks ==
  ASSUME Typed, Roles, SnapsAreFrames, Lines, NEW c \in Chats, WorkingLane(c)
  PROVE  KeyOf(c) \in Keys /\ Works(c, KeyOf(c))
<1> USE LiveCardAssumption DEF Typed, CoroutinesTyped, ChatTyped, Roles, Lined, Holding,
        vars, chat, messenger, round, feed, line
<1>1. KeyOf(c) \in Keys /\ ahead[c] = {}
  BY HoldersAreAlone DEF Lines, WorkingLane, Rebuild, CardDeleted, ForgetId, Reposted, Locked,
       Actors, Writers
<1>2. CASE Rebuild(c)
  BY <1>2, <1>1 DEF Rebuild, Locked, Works, Same, Others, ChatSame, Actors, Writers, KeyOf, ChatOf
<1>3. CASE CardDeleted(c)
  BY <1>3, <1>1 DEF CardDeleted, Shown, Works, Same, Others, ChatSame, Actors, Writers, KeyOf,
       ChatOf
<1>4. CASE ForgetId(c)
  BY <1>4, <1>1 DEF ForgetId, Works, Same, Others, ChatSame, Actors, Writers, KeyOf, ChatOf
<1>5. CASE Reposted(c)
  BY <1>5, <1>1 DEF Reposted, Post, Works, Same, Others, ChatSame, Actors, Writers, KeyOf, ChatOf
<1>. QED
  BY <1>1, <1>2, <1>3, <1>4, <1>5 DEF WorkingLane

\* A writer that is done leaves the line of its card.
LEMMA LeavingLeaves ==
  ASSUME Typed, Roles, SnapsAreFrames, Lines, NEW a \in Writers, Leaving(a)
  PROVE  KeyOf(a) \in Keys /\ Leaves(a, KeyOf(a))
<1> USE LiveCardAssumption DEF Typed, CoroutinesTyped, ChatTyped, Roles, Lined, Holding,
        vars, chat, messenger, round, feed, line
<1>1. KeyOf(a) \in Keys /\ ahead[a] = {}
  BY HoldersAreAlone DEF Lines, Leaving, WriteNothing, Saved, WriteRefused, WriteAnswerLost,
       Locked, Actors, Writers
<1>2. CASE WriteNothing(a)
  BY <1>2, <1>1 DEF WriteNothing, Locked, BackTo, Leaves, Same, Others, ChatSame, Actors,
       Writers, KeyOf, ChatOf
<1>3. CASE Saved(a)
  BY <1>3, <1>1 DEF Saved, BackTo, Leaves, Same, Others, ChatSame, Actors, Writers, KeyOf, ChatOf
<1>4. CASE WriteRefused(a)
  BY <1>4, <1>1 DEF WriteRefused, Misses, BackTo, GoesWrong, Leaves, Same, Others, ChatSame,
       Actors, Writers, KeyOf, ChatOf
<1>5. CASE WriteAnswerLost(a)
  BY <1>5, <1>1 DEF WriteAnswerLost, Misses, BackTo, GoesWrong, Leaves, Same, Others, ChatSame,
       Actors, Writers, KeyOf, ChatOf
<1>. QED
  BY <1>1, <1>2, <1>3, <1>4, <1>5 DEF Leaving

\* So does a lane.
LEMMA LaneLeaves ==
  ASSUME Typed, Roles, SnapsAreFrames, Lines, NEW c \in Chats, LeavingLane(c)
  PROVE  KeyOf(c) \in Keys /\ Leaves(c, KeyOf(c))
<1> USE LiveCardAssumption DEF Typed, CoroutinesTyped, ChatTyped, Roles, Lined, Holding,
        vars, chat, messenger, round, feed, line
<1>1. KeyOf(c) \in Keys /\ ahead[c] = {}
  BY HoldersAreAlone DEF Lines, LeavingLane, LaneTooLate, Rebuilt, RebuildRefused,
       RebuildAnswerLost, Locked, Actors, Writers
<1>2. CASE LaneTooLate(c)
  BY <1>2, <1>1 DEF LaneTooLate, Locked, Leaves, Same, Others, ChatSame, Actors, Writers, KeyOf,
       ChatOf
<1>3. CASE Rebuilt(c)
  BY <1>3, <1>1 DEF Rebuilt, Leaves, Same, Others, ChatSame, Actors, Writers, KeyOf, ChatOf
<1>4. CASE RebuildRefused(c)
  <2> DEFINE moved == [pc EXCEPT ![c] = "idle"]
  <2>1. moved \in [Actors -> PCs]
    BY DEF Actors, PCs
  <2>2. Submit(snap[c], moved) /\ Release(c)
    BY <1>4 DEF RebuildRefused, GiveUp
  <2>3. \A b \in Actors :
          pc'[b] = moved[b] \/ (b \in Draws /\ pc[b] = "idle" /\ pc'[b] = "looping")
    BY <2>1, <2>2, SubmitMoves
  <2>4. \A b \in Actors : pc'[b] = (IF b = c THEN "idle" ELSE pc[b])
                             \/ (b \in Draws /\ pc[b] = "idle" /\ pc'[b] = "looping")
    BY <2>3
  <2>. QED
    BY <1>4, <1>1, <2>2, <2>4 DEF RebuildRefused, GiveUp, GoesWrong, Leaves, Same, Others,
         ChatSame, Actors, Writers, KeyOf, ChatOf
<1>5. CASE RebuildAnswerLost(c)
  <2> DEFINE moved == [pc EXCEPT ![c] = "idle"]
  <2>1. moved \in [Actors -> PCs]
    BY DEF Actors, PCs
  <2>2. Submit(snap[c], moved) /\ Release(c)
    BY <1>5 DEF RebuildAnswerLost, GiveUp
  <2>3. \A b \in Actors :
          pc'[b] = moved[b] \/ (b \in Draws /\ pc[b] = "idle" /\ pc'[b] = "looping")
    BY <2>1, <2>2, SubmitMoves
  <2>4. \A b \in Actors : pc'[b] = (IF b = c THEN "idle" ELSE pc[b])
                             \/ (b \in Draws /\ pc[b] = "idle" /\ pc'[b] = "looping")
    BY <2>3
  <2>. QED
    BY <1>5, <1>1, <2>2, <2>4 DEF RebuildAnswerLost, GiveUp, GoesWrong, Leaves, Same, Others,
         ChatSame, Actors, Writers, KeyOf, ChatOf
<1>. QED
  BY <1>1, <1>2, <1>3, <1>4, <1>5 DEF LeavingLane

\* A visit stands in line or leaves the lines alone.
LEMMA VisitIsKind ==
  ASSUME Typed, Roles, SnapsAreFrames, Lines, NEW a \in Writers, NEW c \in Chats, Visit(a, c)
  PROVE  Aside \/ \E k \in Keys : Joins(a, k)
<1> USE LiveCardAssumption DEF Typed, CoroutinesTyped, ChatTyped, Roles, Lined, Holding,
        vars, chat, messenger, round, feed, line
<1> DEFINE k == <<c, snap[a].map>>
<1>1. k \in Keys
  BY SomeoneToWrite DEF Visit, Actors, Keys
<1>2. CASE Queue(a, k)
  <2>1. Joins(a, k)
    BY <1>1, <1>2 DEF Visit, Queue, Joins, Same, Others, ChatSame, Actors, Writers, KeyOf, ChatOf
  <2>. QED
    BY <1>1, <2>1
<1>3. CASE UNCHANGED <<line, pc>>
  BY <1>3 DEF Visit, Aside, Same, Others, ChatSame, Actors, Writers, KeyOf, ChatOf
<1>. QED
  BY <1>2, <1>3 DEF Visit

\* A lane that has waited for the draws stands in line.
LEMMA LaneSettledJoins ==
  ASSUME Typed, Roles, SnapsAreFrames, Lines, NEW c \in Chats, LaneSettled(c)
  PROVE  KeyOf(c) \in Keys /\ Joins(c, KeyOf(c))
<1> USE LiveCardAssumption DEF Typed, CoroutinesTyped, ChatTyped, Roles, Lined, Holding,
        vars, chat, messenger, round, feed, line
<1>1. KeyOf(c) \in Keys
  BY SomeoneToWrite DEF LaneSettled, Actors
<1>. QED
  BY <1>1 DEF LaneSettled, Queue, Joins, Same, Others, ChatSame, Actors, Writers, KeyOf, ChatOf

\* A cancel or a crash stops some coroutines and changes no row and no chat.
LEMMA StoppingStops ==
  ASSUME Typed, Stopping
  PROVE  \E dead \in SUBSET Actors : Stops(dead)
<1>1. CASE FeedCancelled
  <2>1. {Feed} \union waits[Feed] \in SUBSET Actors
    BY DEF Typed, CoroutinesTyped, Actors, Writers
  <2>2. Stops({Feed} \union waits[Feed])
    BY <1>1 DEF FeedCancelled, Stops, round
  <2>. QED
    BY <2>1, <2>2
<1>2. CASE Crash
  <2>1. Stops(Actors)
    BY <1>2 DEF Crash, Stops, round
  <2>. QED
    BY <2>1
<1>. QED
  BY <1>1, <1>2 DEF Stopping

\* Every step is of one of the kinds.
LEMMA KindStep ==
  ASSUME Typed, Roles, SnapsAreFrames, Lines, Next
  PROVE  Kind
<1>1. ASSUME NEW a \in Writers, (\E c \in Chats : Visit(a, c)) \/ Working(a) \/ Leaving(a)
      PROVE  Kind
  BY <1>1, VisitIsKind, WorkingWorks, LeavingLeaves DEF Kind, Actors
<1>2. ASSUME NEW c \in Chats, LaneSettled(c) \/ WorkingLane(c) \/ LeavingLane(c)
      PROVE  Kind
  BY <1>2, LaneSettledJoins, LaneWorks, LaneLeaves DEF Kind, Actors
<1>. QED
  BY <1>1, <1>2, NextIsOneOf, PassingIsAside, StoppingStops DEF Kind

\* Every kind of step keeps the lines in order.
LEMMA LineStep ==
  ASSUME Typed, Roles, SnapsAreFrames, Lines, Kind
  PROVE  Lines'
<1> USE DEF Lines, Typed, CoroutinesTyped
<1>1. CASE Aside
  BY <1>1 DEF Aside, Same, AllInLine, LineOf, line, Lined
<1>2. ASSUME NEW a \in Actors, NEW k \in Keys, Joins(a, k) PROVE Lines'
  <2>1. \A j \in Keys : j # k => lock'[j] = lock[j]
    BY <1>2 DEF Joins
  <2>2. lock'[k] = lock[k] \union {a} /\ \A j \in Keys : a \notin lock[j]
    BY <1>2 DEF Joins, LineOf
  <2>3. AllInLine'
    BY <1>2, <2>1, <2>2, HoldersAreAlone DEF Joins, Others, Same, AllInLine
  <2>4. ASSUME NEW j \in Keys PROVE LineOf(j)'
    BY <1>2, <2>1, <2>2 DEF Joins, Others, Same, LineOf, Lined, Holding
  <2>. QED
    BY <2>3, <2>4
<1>3. ASSUME NEW a \in Actors, NEW k \in Keys, Works(a, k) PROVE Lines'
  <2>1. AllInLine'
    BY <1>3 DEF Works, Others, Same, AllInLine, line, Lined
  <2>2. ASSUME NEW j \in Keys PROVE LineOf(j)'
    BY <1>3 DEF Works, Others, Same, LineOf, line, Lined
  <2>. QED
    BY <2>1, <2>2
<1>4. ASSUME NEW a \in Actors, NEW k \in Keys, Leaves(a, k) PROVE Lines'
  <2>1. \A j \in Keys : lock'[j] = lock[j] \ {a}
    <3>1. \A j \in Keys : j # k => a \notin lock[j]
      BY <1>4 DEF Leaves, LineOf
    <3>. QED
      BY <1>4, <3>1 DEF Leaves, Release
  <2>2. \A b \in Actors : ahead'[b] = ahead[b] \ {a}
    BY <1>4 DEF Leaves, Release
  <2>3. AllInLine'
    BY <1>4, <2>1, HoldersAreAlone DEF Leaves, Others, Same, AllInLine
  <2>4. ASSUME NEW j \in Keys PROVE LineOf(j)'
    BY <1>4, <2>1, <2>2 DEF Leaves, Others, Same, LineOf
  <2>. QED
    BY <2>3, <2>4
<1>5. ASSUME NEW dead \in SUBSET Actors, Stops(dead) PROVE Lines'
  <2>1. \A j \in Keys : lock'[j] = lock[j] \ dead
    BY <1>5 DEF Stops, Stopped
  <2>2. \A b \in Actors : /\ ahead'[b] = IF b \in dead THEN {} ELSE ahead[b] \ dead
                          /\ pc'[b] = IF b \in dead THEN "idle" ELSE pc[b]
                          /\ KeyOf(b)' = KeyOf(b)
    BY <1>5 DEF Stops, Stopped, KeyOf, ChatOf
  <2>3. ASSUME NEW b \in Actors, pc'[b] \in Lined
        PROVE  b \notin dead /\ pc[b] \in Lined /\ b \in lock'[KeyOf(b)']
    <3>1. b \notin dead /\ pc[b] \in Lined
      BY <2>2, <2>3 DEF Lined, Holding
    <3>2. KeyOf(b) \in Keys /\ b \in lock[KeyOf(b)]
      BY <3>1, HoldersAreAlone
    <3>3. b \in lock'[KeyOf(b)]
      BY <2>1, <3>1, <3>2
    <3>. QED
      BY <2>2, <3>1, <3>3
  <2>4. ASSUME NEW j \in Keys PROVE LineOf(j)'
    <3>1. \A b \in lock'[j] : b \in lock[j] /\ b \notin dead /\ b \in Actors
      BY <2>1
    <3>2. \A b \in lock'[j] : pc'[b] = pc[b] /\ ahead'[b] = ahead[b] \ dead /\ KeyOf(b)' = KeyOf(b)
      BY <2>2, <3>1
    <3>. QED
      BY <3>1, <3>2 DEF LineOf
  <2>. QED
    BY <2>3, <2>4 DEF AllInLine
<1>. QED
  BY <1>1, <1>2, <1>3, <1>4, <1>5 DEF Kind

\* A card nobody touches stays as it was.
LEMMA UntouchedKeeps ==
  ASSUME Typed, NEW k \in Keys, Written(k), ChatSame(k), lock'[k] = lock[k],
         \A a \in lock[k] : Same(a)
  PROVE  Written(k)'
<1> USE DEF Typed, CoroutinesTyped, Same, ChatSame
<1>1. Shown(k)' = Shown(k) /\ (Midway(k)' <=> Midway(k)) /\ Named(k)' = Named(k)
  BY DEF Shown, Midway, HasPosted, Named
<1>2. \A a \in lock[k] : NewCard(a, k)' = NewCard(a, k) /\ EditedCard(a, k)' = EditedCard(a, k)
  BY DEF NewCard, EditedCard
<1>3. RowOf(k)'
  BY DEF Written, RowOf
<1>4. CardsOf(k)'
  BY <1>1, <1>2 DEF Written, CardsOf, HasPosted
<1>5. CountOf(k)'
  BY <1>1 DEF Written, CountOf
<1>6. TruthOf(k)'
  BY <1>1, <1>2 DEF Written, TruthOf, HasPosted
<1>. QED
  BY <1>3, <1>4, <1>5, <1>6 DEF Written

\* A step about one card leaves the others as they were.
LEMMA OthersKeep ==
  ASSUME Typed, Lines, NEW a \in Actors, NEW k \in Keys, Joins(a, k) \/ Works(a, k) \/ Leaves(a, k),
         NEW j \in Keys, j # k, Written(j)
  PROVE  Written(j)'
<1>1. a \notin lock[j] /\ lock[j] \subseteq Actors /\ \A b \in lock[j] : pc[b] \in Lined
  BY DEF Lines, LineOf, Joins, Works, Leaves, Typed, CoroutinesTyped
<1>2. lock'[j] = lock[j]
  BY DEF Joins, Works, Leaves, Release, line, Typed, CoroutinesTyped
<1>3. ChatSame(j) /\ \A b \in lock[j] : Same(b)
  BY <1>1 DEF Joins, Works, Leaves, Others
<1>. QED
  BY <1>2, <1>3, UntouchedKeeps

\* Standing in line changes nothing about the card.
LEMMA JoiningKeeps ==
  ASSUME Typed, Lines, NEW a \in Actors, NEW k \in Keys, Joins(a, k), Written(k)
  PROVE  Written(k)'
<1> USE DEF Typed, CoroutinesTyped
<1>1. /\ lock'[k] = lock[k] \union {a} /\ a \notin lock[k] /\ pc'[a] = "queued"
      /\ ChatSame(k) /\ \A b \in lock[k] : Same(b)
  BY DEF Lines, LineOf, Joins, Others
<1>2. Shown(k)' = Shown(k) /\ (Midway(k)' <=> Midway(k)) /\ Named(k)' = Named(k)
  BY <1>1 DEF Shown, Midway, HasPosted, Named, ChatSame, Same
<1>3. \A b \in lock[k] : NewCard(b, k)' = NewCard(b, k) /\ EditedCard(b, k)' = EditedCard(b, k)
  BY <1>1 DEF NewCard, EditedCard, ChatSame, Same
<1>4. RowOf(k)'
  BY <1>1 DEF Written, RowOf, ChatSame, Same, Holding
<1>5. CardsOf(k)'
  BY <1>1, <1>2, <1>3 DEF Written, CardsOf, HasPosted, ChatSame, Same
<1>6. CountOf(k)'
  BY <1>1, <1>2 DEF Written, CountOf, ChatSame
<1>7. TruthOf(k)'
  BY <1>1, <1>2, <1>3 DEF Written, TruthOf, HasPosted, ChatSame, Same, Acted
<1>. QED
  BY <1>4, <1>5, <1>6, <1>7 DEF Written

\* When coroutines stop in the middle of a call, their cards are hurt or strays.
LEMMA StoppingKeeps ==
  ASSUME Typed, Lines, SnapsAreFrames, NEW dead \in SUBSET Actors, Stops(dead), NEW k \in Keys, Written(k)
  PROVE  Written(k)'
<1> USE DEF Typed, CoroutinesTyped, ChatTyped
<1> DEFINE lost == {a \in dead : pc[a] \in {"sent", "reposted"} /\ KeyOf(a) = k}
<1>1. /\ lock'[k] = lock[k] \ dead
      /\ \A a \in lock'[k] : pc'[a] = pc[a] /\ snap'[a] = snap[a]
      /\ strays'[k] = strays[k] + Cardinality(lost)
      /\ row' = row /\ cards' = cards /\ posted' = posted /\ banner' = banner
  BY DEF Stops, Stopped
<1>2. Shown(k)' = Shown(k) /\ Named(k)' = Named(k)
  BY <1>1 DEF Shown, Named
<1>3. \A a \in lock'[k] : NewCard(a, k)' = NewCard(a, k) /\ EditedCard(a, k)' = EditedCard(a, k)
  BY <1>1 DEF NewCard, EditedCard
<1>4. RowOf(k)'
  BY <1>1 DEF Written, RowOf
<1>5. CardsOf(k)'
  BY <1>1, <1>2, <1>3 DEF Written, CardsOf, HasPosted
<1>6. CountOf(k)'
  <2>1. lost \subseteq Actors
    OBVIOUS
  <2>2. IsFiniteSet(lost) /\ Cardinality(lost) \in Nat
    BY <2>1, FiniteActors, FS_Subset, FS_CardinalityType
  <2>3. IsFiniteSet(cards[k] \ Shown(k)) /\ Cardinality(cards[k] \ Shown(k)) \in Nat
    BY FS_Subset, FS_CardinalityType DEF Written, CardsOf
  <2>4. Cardinality(cards[k] \ Shown(k))' = Cardinality(cards[k] \ Shown(k))
    BY <1>1, <1>2
  <2>5. CASE Midway(k) /\ ~Midway(k)'
    <3>1. PICK a \in lock[k] : HasPosted(a)
      BY <2>5 DEF Midway
    <3>2. a \in lost
      BY <1>1, <2>5, <3>1 DEF Midway, HasPosted, Lines, LineOf
    <3>3. Cardinality(lost) # 0
      BY <2>2, <3>2, FS_EmptySet
    <3>. QED
      BY <1>1, <2>2, <2>3, <2>4, <2>5, <3>3 DEF Written, CountOf
  <2>6. CASE Midway(k) => Midway(k)'
    BY <1>1, <2>2, <2>3, <2>4, <2>6 DEF Written, CountOf
  <2>. QED
    BY <2>5, <2>6
<1>7. TruthOf(k)'
  <2> SUFFICES ASSUME k \notin hurt' PROVE TruthOf(k)'
    BY DEF TruthOf
  <2>1. k \notin hurt /\ \A a \in lock[k] : pc[a] \in Acted => a \notin dead
    BY DEF Stops, Stopped, Lines, LineOf, Acted
  <2>. QED
    BY <1>1, <1>2, <1>3, <2>1 DEF Written, TruthOf, HasPosted, Acted
<1>. QED
  BY <1>4, <1>5, <1>6, <1>7 DEF Written

\* The one at work is the only one to hold anything of the card.
LEMMA WorkingAlone ==
  ASSUME Typed, Roles, SnapsAreFrames, Lines, NEW a \in Actors, NEW k \in Keys, Works(a, k) \/ Leaves(a, k)
  PROVE  /\ a \in lock[k] /\ KeyOf(a) = k
         /\ \A b \in lock[k] : b # a => pc[b] = "queued" /\ pc'[b] = "queued"
         /\ Works(a, k) => lock'[k] = lock[k]
         /\ Leaves(a, k) => lock'[k] = lock[k] \ {a}
         /\ Midway(k) <=> HasPosted(a)
         /\ Works(a, k) => (Midway(k)' <=> HasPosted(a)')
         /\ Leaves(a, k) => ~Midway(k)'
<1> USE DEF Typed, CoroutinesTyped
<1>1. pc[a] \in Lined /\ ahead[a] = {} /\ KeyOf(a) = k
  BY DEF Works, Leaves
<1>2. a \in lock[k] /\ \A b \in lock[k] : b # a => pc[b] = "queued" /\ b \in Actors
  BY <1>1, HoldersAreAlone DEF Lines
<1>3. \A b \in lock[k] : b # a => pc'[b] = "queued"
  BY <1>2 DEF Works, Leaves, Others, Same, Lined
<1>4. Works(a, k) => lock'[k] = lock[k]
  BY DEF Works, line
<1>5. Leaves(a, k) => lock'[k] = lock[k] \ {a}
  BY DEF Leaves, Release
<1>6. Midway(k) <=> HasPosted(a)
  BY <1>2 DEF Midway, HasPosted
<1>7. Works(a, k) => (Midway(k)' <=> HasPosted(a)')
  BY <1>2, <1>3, <1>4 DEF Midway, HasPosted
<1>8. Leaves(a, k) => ~Midway(k)'
  BY <1>3, <1>5 DEF Midway, HasPosted
<1>. QED
  BY <1>1, <1>2, <1>3, <1>4, <1>5, <1>6, <1>7, <1>8

\* What is left to show when somebody leaves the line.
LEMMA LeavingKeeps ==
  ASSUME Typed, Roles, SnapsAreFrames, Lines, NEW a \in Actors, NEW k \in Keys, Leaves(a, k),
         row'[k].id <= posted'[k],
         row'[k].id > 0 \/ row'[k].n > 0 \/ row'[k].final => posted'[k] > 0,
         IsFiniteSet(cards'[k]),
         \A x \in cards'[k] : x.id \in 1..posted'[k],
         \A x, y \in cards'[k] : x.id = y.id => x = y,
         Cardinality(cards[k] \ Shown(k))' <= strays'[k], strays'[k] \in Nat,
         k \notin hurt' => cards'[k] = Named(k)'
  PROVE  Written(k)'
<1>1. \A b \in lock'[k] : pc'[b] = "queued"
  BY WorkingAlone
<1>2. ~Midway(k)'
  BY WorkingAlone
<1>3. RowOf(k)'
  BY <1>1 DEF RowOf, Holding
<1>4. CardsOf(k)'
  BY <1>1 DEF CardsOf, HasPosted
<1>5. CountOf(k)'
  BY <1>2 DEF CountOf
<1>6. TruthOf(k)'
  BY <1>1 DEF TruthOf, HasPosted, Acted
<1>. QED
  BY <1>3, <1>4, <1>5, <1>6 DEF Written

\* Leaving without having done anything.
LEMMA LeavingAsItIs ==
  ASSUME Typed, Roles, SnapsAreFrames, Lines, NEW a \in Actors, NEW k \in Keys,
         Leaves(a, k), Written(k), ChatSame(k), pc[a] \notin Acted
  PROVE  Written(k)'
<1> USE DEF Typed, ChatTyped
<1>1. \A b \in lock[k] : pc[b] \notin Acted
  BY WorkingAlone DEF Acted
<1>2. ~Midway(k)
  BY <1>1 DEF Midway, HasPosted, Acted
<1>3. Cardinality(cards[k] \ Shown(k))' = Cardinality(cards[k] \ Shown(k)) /\ Named(k)' = Named(k)
  BY DEF ChatSame, Shown, Named
<1>4. Cardinality(cards[k] \ Shown(k))' <= strays'[k]
  BY <1>2, <1>3 DEF Written, CountOf, ChatSame
<1>5. k \notin hurt' => cards'[k] = Named(k)'
  BY <1>1, <1>3 DEF Written, TruthOf, ChatSame
<1>. QED
  BY <1>4, <1>5, LeavingKeeps DEF Written, RowOf, CardsOf, ChatSame

\* Leaving without knowing what was done.
LEMMA LeavingInDoubt ==
  ASSUME Typed, Roles, SnapsAreFrames, Lines, NEW a \in Actors, NEW k \in Keys,
         Leaves(a, k), Written(k), row' = row, cards' = cards, posted' = posted, k \in hurt',
         strays' = [strays EXCEPT ![k] = IF HasPosted(a) THEN @ + 1 ELSE @]
  PROVE  Written(k)'
<1> USE DEF Typed, ChatTyped
<1>1. Midway(k) <=> HasPosted(a)
  BY WorkingAlone
<1>2. Cardinality(cards[k] \ Shown(k))' = Cardinality(cards[k] \ Shown(k))
  BY DEF Shown
<1>3. strays'[k] = strays[k] + (IF Midway(k) THEN 1 ELSE 0)
  BY <1>1
<1>4. Cardinality(cards[k] \ Shown(k))' <= strays'[k] /\ strays'[k] \in Nat
  BY <1>2, <1>3 DEF Written, CountOf
<1>. QED
  BY <1>4, LeavingKeeps DEF Written, RowOf, CardsOf

\* Counting without one element.
LEMMA RemoveOne ==
  ASSUME NEW S, IsFiniteSet(S), NEW x \in S
  PROVE  Cardinality(S \ {x}) = Cardinality(S) - 1
BY FS_RemoveElement

\* Leaving with a new card, saved.
LEMMA LeavingWithNew ==
  ASSUME Typed, Roles, SnapsAreFrames, Lines, NEW a \in Actors, NEW k \in Keys,
         Leaves(a, k), Written(k), HasPosted(a),
         cards' = cards, posted' = posted, strays' = strays, hurt' = hurt,
         row'[k].id = NewCard(a, k).id, row'[k].n = NewCard(a, k).n, row'[k].b = NewCard(a, k).b
  PROVE  Written(k)'
<1> USE DEF Typed, ChatTyped, Written
<1> DEFINE new == NewCard(a, k)
<1>1. a \in lock[k] /\ Midway(k) /\ pc[a] \in Holding
  BY WorkingAlone DEF HasPosted, Holding
<1>2. new \in cards[k] /\ posted[k] > 0 /\ new.id = posted[k]
  BY <1>1 DEF CardsOf, NewCard
<1>3. row[k].id = 0 /\ Shown(k) = {}
  BY <1>1 DEF RowOf, CardsOf, HasPosted, Shown
<1>4. Shown(k)' = {new}
  BY <1>2 DEF CardsOf, Shown
<1>5. IsFiniteSet(cards[k]) /\ Cardinality(cards[k]) \in Nat /\ Cardinality(cards[k]) <= strays[k] + 1
  <2>1. cards[k] \ Shown(k) = cards[k]
    BY <1>3
  <2>. QED
    BY <1>1, <2>1, FS_CardinalityType DEF CardsOf, CountOf
<1>6. Cardinality(cards[k] \ {new}) = Cardinality(cards[k]) - 1
  BY <1>2, <1>5, RemoveOne
<1>7. Cardinality(cards[k] \ Shown(k))' = Cardinality(cards[k] \ {new})
  BY <1>4
<1>8. Cardinality(cards[k] \ Shown(k))' <= strays'[k]
  BY <1>5, <1>6, <1>7
<1>9. k \notin hurt' => cards'[k] = Named(k)'
  <2>1. Named(k)' = {new}
    BY <1>2 DEF Named, NewCard
  <2>. QED
    BY <1>1, <2>1 DEF TruthOf
<1>10. row'[k].id <= posted'[k] /\ posted'[k] > 0
  BY <1>2
<1>. QED
  BY <1>8, <1>9, <1>10, LeavingKeeps DEF CardsOf

\* Leaving with an edited card, saved.
LEMMA LeavingWithEdit ==
  ASSUME Typed, Roles, SnapsAreFrames, Lines, NEW a \in Actors, NEW k \in Keys,
         Leaves(a, k), Written(k), pc[a] = "edited",
         cards' = cards, posted' = posted, strays' = strays, hurt' = hurt,
         row'[k].id = row[k].id, row'[k].n = snap[a].n, row'[k].b = row[k].b
  PROVE  Written(k)'
<1> USE DEF Typed, ChatTyped, Written
<1>1. a \in lock[k] /\ ~Midway(k) /\ row[k].id > 0 /\ row[k].id <= posted[k]
  BY WorkingAlone DEF HasPosted, RowOf
<1>2. Cardinality(cards[k] \ Shown(k))' = Cardinality(cards[k] \ Shown(k))
  BY DEF Shown
<1>3. Cardinality(cards[k] \ Shown(k))' <= strays'[k]
  BY <1>1, <1>2 DEF CountOf
<1>4. k \notin hurt' => cards'[k] = Named(k)'
  <2>1. Named(k)' = {EditedCard(a, k)}
    BY <1>1 DEF Named, EditedCard
  <2>. QED
    BY <1>1, <2>1 DEF TruthOf
<1>5. row[k].id \in Nat /\ posted[k] \in Nat
  BY DEF Rows
<1>6. row'[k].id <= posted'[k] /\ posted'[k] > 0
  BY <1>1, <1>5
<1>. QED
  BY <1>3, <1>4, <1>6, LeavingKeeps DEF CardsOf

\* Going from the line into a call.
LEMMA WorkBegins ==
  ASSUME Typed, Roles, SnapsAreFrames, Lines, NEW a \in Actors, NEW k \in Keys,
         Works(a, k), Written(k), ChatSame(k), pc[a] = "queued", ~row[k].final,
         \/ pc'[a] \in {"sending", "rebuilding"} /\ row[k].id = 0
         \/ pc'[a] \in {"editing", "deleting"} /\ row[k].id > 0
  PROVE  Written(k)'
<1> USE DEF Typed, ChatTyped, Written
<1>1. /\ lock'[k] = lock[k] /\ a \in lock[k] /\ ~Midway(k)' /\ ~Midway(k)
      /\ \A b \in lock[k] : b # a => pc[b] = "queued" /\ pc'[b] = "queued"
  BY WorkingAlone DEF HasPosted
<1>2. Shown(k)' = Shown(k) /\ Named(k)' = Named(k)
  BY DEF ChatSame, Shown, Named
<1>3. RowOf(k)'
  BY <1>1 DEF RowOf, ChatSame
<1>4. CardsOf(k)'
  BY <1>1, <1>2 DEF CardsOf, ChatSame, HasPosted
<1>5. CountOf(k)'
  BY <1>1, <1>2 DEF CountOf, ChatSame
<1>6. TruthOf(k)'
  BY <1>1, <1>2 DEF TruthOf, ChatSame, HasPosted, Acted
<1>. QED
  BY <1>3, <1>4, <1>5, <1>6

\* Telegram posts a card for the one at work.
LEMMA WorkPosts ==
  ASSUME Typed, Roles, SnapsAreFrames, Lines, NEW a \in Actors, NEW k \in Keys,
         Works(a, k), Written(k), pc[a] \in {"sending", "rebuilding"}, pc'[a] \in {"sent",
              "reposted"},
         Post(k, snap[a].n, IF a \in Chats THEN banner[a] ELSE row[k].b)
  PROVE  Written(k)'
<1> USE DEF Typed, ChatTyped, Written
<1>1. /\ lock'[k] = lock[k] /\ a \in lock[k] /\ Midway(k)' /\ ~Midway(k)
      /\ \A b \in lock[k] : b # a => pc[b] = "queued" /\ pc'[b] = "queued"
  BY WorkingAlone DEF HasPosted
<1>2. row[k].id = 0 /\ ~row[k].final /\ Shown(k) = {}
  BY <1>1 DEF RowOf, CardsOf, Shown, Holding
<1> DEFINE new == NewCard(a, k)'
<1>3. /\ posted'[k] = posted[k] + 1 /\ cards'[k] = cards[k] \union {new}
      /\ row' = row /\ strays' = strays /\ hurt' = hurt
  BY DEF Post, NewCard, Works
<1>4. new.id = posted[k] + 1 /\ new \notin cards[k]
  BY <1>3 DEF NewCard, CardsOf
<1>5. RowOf(k)'
  BY <1>1, <1>2, <1>3 DEF RowOf, Rows, Holding
<1>6. CardsOf(k)'
  <2>1. IsFiniteSet(cards'[k])
    <3>1. IsFiniteSet(cards[k])
      BY DEF CardsOf
    <3>2. IsFiniteSet(cards[k] \union {new})
      BY <3>1, FS_AddElement
    <3>. QED
      BY <1>3, <3>2
  <2>2. Shown(k)' = {}
    BY <1>2, <1>3, <1>4 DEF Shown, CardsOf
  <2>3. \A x \in cards'[k] : x.id \in 1..posted'[k]
    BY <1>3, <1>4 DEF CardsOf
  <2>4. \A x, y \in cards'[k] : x.id = y.id => x = y
    BY <1>3, <1>4 DEF CardsOf
  <2>5. posted'[k] > 0 /\ new \in cards'[k]
    BY <1>3
  <2>. QED
    BY <1>1, <2>1, <2>2, <2>3, <2>4, <2>5 DEF CardsOf, HasPosted
<1>7. CountOf(k)'
  <2>1. Shown(k)' = {}
    BY <1>2, <1>3, <1>4 DEF Shown, CardsOf
  <2>2. Cardinality(cards[k]) \in Nat /\ Cardinality(cards[k]) <= strays[k]
    <3>1. cards[k] \ Shown(k) = cards[k]
      BY <1>2
    <3>2. Cardinality(cards[k] \ Shown(k)) = Cardinality(cards[k])
      BY <3>1
    <3>3. Cardinality(cards[k]) \in Nat
      BY FS_CardinalityType DEF CardsOf
    <3>. QED
      BY <1>1, <3>2, <3>3 DEF CountOf
  <2>3. Cardinality(cards[k] \union {new}) = Cardinality(cards[k]) + 1
    BY <1>4, FS_AddElement DEF CardsOf
  <2>4. Cardinality(cards[k] \ Shown(k))' = Cardinality(cards[k] \union {new})
    <3>1. cards'[k] \ Shown(k)' = cards[k] \union {new}
      BY <1>3, <2>1
    <3>. QED
      BY <3>1
  <2>. QED
    BY <1>1, <1>3, <2>2, <2>3, <2>4 DEF CountOf
<1>8. TruthOf(k)'
  <2>1. k \notin hurt => cards[k] = {}
    BY <1>1, <1>2 DEF TruthOf, Named, Acted
  <2>. QED
    BY <1>1, <1>3, <2>1 DEF TruthOf, HasPosted, Acted
<1>. QED
  BY <1>5, <1>6, <1>7, <1>8

\* Telegram edits the card the row names.
LEMMA WorkEdits ==
  ASSUME Typed, Roles, SnapsAreFrames, Lines, NEW a \in Writers, NEW k \in Keys,
         Works(a, k), Written(k), Edited(a)
  PROVE  Written(k)'
<1> DEFINE card == EditedCard(a, k)
<1> USE DEF Typed, ChatTyped, Written
<1>0. a \in Actors /\ a \notin Chats /\ KeyOf(a) = k /\ snap'[a] = snap[a]
  BY LiveCardAssumption DEF Actors, Writers, Works
<1>1. /\ lock'[k] = lock[k] /\ a \in lock[k] /\ ~Midway(k)' /\ ~Midway(k)
      /\ \A b \in lock[k] : b # a => pc[b] = "queued" /\ pc'[b] = "queued"
  BY <1>0, WorkingAlone, SMTT(30) DEF Edited, HasPosted, CoroutinesTyped
<1>2. /\ pc[a] = "editing" /\ pc'[a] = "edited" /\ Shown(k) # {}
      /\ cards'[k] = (cards[k] \ Shown(k)) \union {card}
      /\ row' = row /\ posted' = posted /\ strays' = strays /\ hurt' = hurt
  BY <1>0 DEF Edited, EditedCard, CoroutinesTyped
<1>3. card.id = row[k].id /\ row[k].id > 0 /\ ~row[k].final /\ row[k].id <= posted[k]
  BY <1>1, <1>2 DEF EditedCard, RowOf, Holding
<1>4. Shown(k)' = {card}
  <2>1. \A x \in cards[k] \ Shown(k) : x.id # row[k].id
    BY DEF Shown
  <2>. QED
    BY <1>2, <1>3, <2>1 DEF Shown
<1>5. RowOf(k)'
  BY <1>1, <1>2, <1>3 DEF RowOf
<1>6. CardsOf(k)'
  <2>1. IsFiniteSet(cards'[k])
    <3>1. IsFiniteSet(cards[k] \ Shown(k))
      BY FS_Subset DEF CardsOf
    <3>2. IsFiniteSet((cards[k] \ Shown(k)) \union {card})
      BY <3>1, FS_AddElement
    <3>. QED
      BY <1>2, <3>2
  <2>2. \A x \in cards[k] \ Shown(k) : x.id # row[k].id
    BY DEF Shown
  <2>3. row[k].id \in 1..posted[k]
    BY <1>3 DEF Rows
  <2>4. \A x \in cards'[k] : x.id \in 1..posted'[k]
    BY <1>2, <1>3, <2>3 DEF CardsOf
  <2>5. \A x, y \in cards'[k] : x.id = y.id => x = y
    BY <1>2, <1>3, <2>2 DEF CardsOf
  <2>. QED
    BY <1>1, <1>2, <2>1, <2>4, <2>5 DEF CardsOf, HasPosted
<1>7. CountOf(k)'
  <2>1. cards'[k] \ Shown(k)' = cards[k] \ Shown(k)
    BY <1>2, <1>3, <1>4 DEF Shown
  <2>2. Cardinality(cards[k] \ Shown(k))' = Cardinality(cards[k] \ Shown(k))
    BY <2>1
  <2>. QED
    BY <1>1, <1>2, <2>2 DEF CountOf
<1>8. TruthOf(k)'
  <2>1. k \notin hurt => cards[k] = Named(k)
    BY <1>1, <1>2 DEF TruthOf, Acted
  <2>2. k \notin hurt => cards[k] \ Shown(k) = {}
    BY <1>3, <2>1 DEF Named, Shown
  <2>3. EditedCard(a, k)' = card
    BY <1>0, <1>2 DEF EditedCard
  <2>. QED
    BY <1>1, <1>2, <2>2, <2>3 DEF TruthOf, HasPosted, Acted
<1>. QED
  BY <1>5, <1>6, <1>7, <1>8

\* Telegram deletes the card the row names.
LEMMA WorkDeletes ==
  ASSUME Typed, Roles, SnapsAreFrames, Lines, NEW c \in Chats, NEW k \in Keys,
         Works(c, k), Written(k), CardDeleted(c)
  PROVE  Written(k)'
<1> USE DEF Typed, ChatTyped, Written
<1>0. c \in Actors /\ KeyOf(c) = k
  BY DEF Actors, Works
<1>1. /\ lock'[k] = lock[k] /\ c \in lock[k] /\ ~Midway(k)' /\ ~Midway(k)
      /\ \A b \in lock[k] : b # c => pc[b] = "queued" /\ pc'[b] = "queued"
  BY <1>0, WorkingAlone, SMTT(30) DEF CardDeleted, HasPosted, CoroutinesTyped
<1>2. /\ pc[c] = "deleting" /\ pc'[c] = "deleted" /\ cards'[k] = cards[k] \ Shown(k)
      /\ row' = row /\ posted' = posted /\ strays' = strays /\ hurt' = hurt
  BY <1>0 DEF CardDeleted, CoroutinesTyped
<1>3. Shown(k)' = {}
  BY <1>2 DEF Shown
<1>4. RowOf(k)'
  BY <1>1, <1>2 DEF RowOf, Holding
<1>5. CardsOf(k)'
  <2>1. IsFiniteSet(cards[k] \ Shown(k))
    BY FS_Subset DEF CardsOf
  <2>. QED
    BY <1>1, <1>2, <1>3, <2>1 DEF CardsOf, HasPosted
<1>6. CountOf(k)'
  <2>1. cards'[k] \ Shown(k)' = cards[k] \ Shown(k)
    BY <1>2, <1>3
  <2>2. Cardinality(cards[k] \ Shown(k))' = Cardinality(cards[k] \ Shown(k))
    BY <2>1
  <2>. QED
    BY <1>1, <1>2, <2>2 DEF CountOf
<1>7. TruthOf(k)'
  <2>1. k \notin hurt => cards[k] = Named(k)
    BY <1>1, <1>2 DEF TruthOf, Acted
  <2>2. k \notin hurt => cards[k] \ Shown(k) = {}
    BY <2>1 DEF Named, Shown
  <2>. QED
    BY <1>1, <1>2, <2>2 DEF TruthOf, HasPosted, Acted
<1>. QED
  BY <1>4, <1>5, <1>6, <1>7

\* The id of the deleted card is set to NULL.
LEMMA WorkForgets ==
  ASSUME Typed, Roles, SnapsAreFrames, Lines, NEW c \in Chats, NEW k \in Keys,
         Works(c, k), Written(k), ForgetId(c)
  PROVE  Written(k)'
<1> USE DEF Typed, ChatTyped, Written
<1>0. c \in Actors /\ KeyOf(c) = k
  BY DEF Actors, Works
<1>1. /\ lock'[k] = lock[k] /\ c \in lock[k] /\ ~Midway(k)' /\ ~Midway(k)
      /\ \A b \in lock[k] : b # c => pc[b] = "queued" /\ pc'[b] = "queued"
  BY <1>0, WorkingAlone, ZenonT(30) DEF ForgetId, HasPosted, CoroutinesTyped
<1>2. /\ pc[c] = "deleted" /\ pc'[c] = "rebuilding"
      /\ cards' = cards /\ posted' = posted /\ strays' = strays /\ hurt' = hurt
  BY <1>0 DEF ForgetId, CoroutinesTyped
<1>3. row'[k].id = 0 /\ row'[k].n = row[k].n /\ row'[k].final = row[k].final
  BY <1>0 DEF ForgetId, Rows
<1>4. Shown(k) = {} /\ row[k].id > 0
  BY <1>1, <1>2 DEF CardsOf, RowOf
<1>5. \A x \in cards[k] : x.id # 0
  BY DEF CardsOf
<1>6. Shown(k)' = {}
  BY <1>2, <1>3, <1>5 DEF Shown
<1>7. RowOf(k)'
  <2>1. posted[k] \in Nat /\ ~row[k].final
    BY <1>1, <1>2 DEF RowOf, Holding
  <2>. QED
    BY <1>1, <1>2, <1>3, <1>4, <2>1 DEF RowOf, Holding
<1>8. CardsOf(k)'
  BY <1>1, <1>2, <1>6 DEF CardsOf, HasPosted
<1>9. CountOf(k)'
  <2>1. Cardinality(cards[k] \ Shown(k))' = Cardinality(cards[k] \ Shown(k))
    BY <1>2, <1>4, <1>6
  <2>. QED
    BY <1>1, <1>2, <2>1 DEF CountOf
<1>10. TruthOf(k)'
  <2>1. k \notin hurt => cards[k] = {}
    BY <1>1, <1>2 DEF TruthOf
  <2>. QED
    BY <1>1, <1>2, <1>3, <2>1 DEF TruthOf, HasPosted, Acted, Named
<1>. QED
  BY <1>7, <1>8, <1>9, <1>10

----------------------------------------------------------------------------
(* The cards through each step. *)

\* A writer at work keeps its card in order.
LEMMA WorkingKeeps ==
  ASSUME Typed, Roles, SnapsAreFrames, Lines, NEW a \in Writers, NEW k \in Keys, k = KeyOf(a),
         Working(a), Written(k)
  PROVE  Written(k)'
<1>0. Works(a, k) /\ a \in Actors /\ a \notin Chats
  BY WorkingWorks, LiveCardAssumption DEF Actors, Writers
<1>1. CASE Write(a)
  <2>1. ChatSame(k) /\ pc[a] = "queued" /\ ~row[k].final
    BY <1>1 DEF Write, Locked, MustWrite, ChatSame, chat
  <2>2. \/ pc'[a] = "sending" /\ row[k].id = 0
        \/ pc'[a] = "editing" /\ row[k].id > 0
    BY <1>0, <1>1 DEF Write, Typed, CoroutinesTyped, ChatTyped, Rows
  <2>. QED
    BY <1>0, <2>1, <2>2, WorkBegins
<1>2. CASE Posted(a)
  <2>1. pc[a] = "sending" /\ pc'[a] = "sent" /\ Post(k, snap[a].n, row[k].b)
    BY <1>0, <1>2 DEF Posted, Typed, CoroutinesTyped
  <2>. QED
    BY <1>0, <2>1, WorkPosts
<1>3. CASE Edited(a)
  BY <1>0, <1>3, WorkEdits
<1>. QED
  BY <1>1, <1>2, <1>3 DEF Working

\* A lane at work keeps its card in order.
LEMMA LaneWorkKeeps ==
  ASSUME Typed, Roles, SnapsAreFrames, Lines, NEW c \in Chats, NEW k \in Keys, k = KeyOf(c),
         WorkingLane(c), Written(k)
  PROVE  Written(k)'
<1>0. Works(c, k) /\ c \in Actors
  BY LaneWorks DEF Actors
<1>1. CASE Rebuild(c)
  <2>1. ChatSame(k) /\ pc[c] = "queued" /\ ~row[k].final
    BY <1>1 DEF Rebuild, Locked, ChatSame, chat
  <2>2. \/ pc'[c] = "rebuilding" /\ row[k].id = 0
        \/ pc'[c] = "deleting" /\ row[k].id > 0
    BY <1>0, <1>1 DEF Rebuild, Typed, CoroutinesTyped, ChatTyped, Rows
  <2>. QED
    BY <1>0, <2>1, <2>2, WorkBegins
<1>2. CASE CardDeleted(c)
  BY <1>0, <1>2, WorkDeletes
<1>3. CASE ForgetId(c)
  BY <1>0, <1>3, WorkForgets
<1>4. CASE Reposted(c)
  <2>1. pc[c] = "rebuilding" /\ pc'[c] = "reposted" /\ Post(k, snap[c].n, banner[c])
    BY <1>0, <1>4 DEF Reposted, Typed, CoroutinesTyped
  <2>. QED
    BY <1>0, <2>1, WorkPosts
<1>. QED
  BY <1>1, <1>2, <1>3, <1>4 DEF WorkingLane

\* A writer that leaves keeps its card in order.
LEMMA LeavingKeepsCard ==
  ASSUME Typed, Roles, SnapsAreFrames, Lines, NEW a \in Writers, NEW k \in Keys, k = KeyOf(a),
         Leaving(a), Written(k)
  PROVE  Written(k)'
<1>0. Leaves(a, k) /\ a \in Actors /\ a \notin Chats
  BY LeavingLeaves, LiveCardAssumption DEF Actors, Writers
<1>1. CASE WriteNothing(a) \/ WriteRefused(a)
  <2>1. ChatSame(k) /\ pc[a] \notin Acted
    BY <1>1 DEF WriteNothing, WriteRefused, Locked, ChatSame, chat, Acted
  <2>. QED
    BY <1>0, <2>1, LeavingAsItIs
<1>2. CASE Saved(a)
  <2>1. /\ cards' = cards /\ posted' = posted /\ strays' = strays /\ hurt' = hurt
        /\ pc[a] \in {"sent", "edited"}
        /\ row'[k].id = (IF pc[a] = "sent" THEN posted[k] ELSE row[k].id)
        /\ row'[k].n = snap[a].n /\ row'[k].b = row[k].b
    BY <1>2 DEF Saved, Typed, ChatTyped
  <2>2. CASE pc[a] = "sent"
    BY <1>0, <2>1, <2>2, LeavingWithNew DEF HasPosted, NewCard
  <2>3. CASE pc[a] = "edited"
    BY <1>0, <2>1, <2>3, LeavingWithEdit
  <2>. QED
    BY <2>1, <2>2, <2>3
<1>3. CASE WriteAnswerLost(a)
  <2>1. /\ row' = row /\ cards' = cards /\ posted' = posted /\ k \in hurt'
        /\ strays' = [strays EXCEPT ![k] = IF HasPosted(a) THEN @ + 1 ELSE @]
    BY <1>3 DEF WriteAnswerLost, HasPosted
  <2>. QED
    BY <1>0, <2>1, LeavingInDoubt
<1>. QED
  BY <1>1, <1>2, <1>3 DEF Leaving

\* A lane that leaves keeps its card in order.
LEMMA LaneLeavingKeeps ==
  ASSUME Typed, Roles, SnapsAreFrames, Lines, NEW c \in Chats, NEW k \in Keys, k = KeyOf(c),
         LeavingLane(c), Written(k)
  PROVE  Written(k)'
<1>0. Leaves(c, k) /\ c \in Actors
  BY LaneLeaves DEF Actors
<1>1. CASE LaneTooLate(c) \/ RebuildRefused(c)
  <2>1. ChatSame(k) /\ pc[c] \notin Acted
    BY <1>1 DEF LaneTooLate, RebuildRefused, Locked, ChatSame, chat, Acted
  <2>. QED
    BY <1>0, <2>1, LeavingAsItIs
<1>2. CASE Rebuilt(c)
  <2>1. /\ cards' = cards /\ posted' = posted /\ strays' = strays /\ hurt' = hurt
        /\ HasPosted(c)
        /\ row'[k].id = posted[k] /\ row'[k].n = snap[c].n /\ row'[k].b = banner[c]
    BY <1>2 DEF Rebuilt, HasPosted, Typed, ChatTyped
  <2>. QED
    BY <1>0, <2>1, LeavingWithNew DEF NewCard
<1>3. CASE RebuildAnswerLost(c)
  <2>1. /\ row' = row /\ cards' = cards /\ posted' = posted /\ k \in hurt'
        /\ strays' = [strays EXCEPT ![k] = IF HasPosted(c) THEN @ + 1 ELSE @]
    BY <1>3 DEF RebuildAnswerLost, HasPosted
  <2>. QED
    BY <1>0, <2>1, LeavingInDoubt
<1>. QED
  BY <1>1, <1>2, <1>3 DEF LeavingLane

\* Every step keeps every card in order.
LEMMA WrittenStep ==
  ASSUME Typed, Roles, SnapsAreFrames, Lines, Next, NEW j \in Keys, Written(j)
  PROVE  Written(j)'
<1>1. ASSUME Aside PROVE Written(j)'
  <2>1. ChatSame(j) /\ lock'[j] = lock[j] /\ \A b \in lock[j] : Same(b)
    BY <1>1 DEF Aside, line, Lines, LineOf, Typed, CoroutinesTyped
  <2>. QED
    BY <2>1, UntouchedKeeps
<1>2. ASSUME NEW a \in Actors, NEW k \in Keys, Joins(a, k) PROVE Written(j)'
  BY <1>2, JoiningKeeps, OthersKeep
<1>3. ASSUME NEW a \in Writers, Working(a) \/ Leaving(a) PROVE Written(j)'
  <2>1. PICK k \in Keys : k = KeyOf(a) /\ (Works(a, k) \/ Leaves(a, k))
    BY <1>3, WorkingWorks, LeavingLeaves
  <2>2. CASE j = k
    BY <1>3, <2>1, <2>2, WorkingKeeps, LeavingKeepsCard
  <2>3. CASE j # k
    BY <2>1, <2>3, OthersKeep DEF Actors
  <2>. QED
    BY <2>2, <2>3
<1>4. ASSUME NEW c \in Chats, WorkingLane(c) \/ LeavingLane(c) PROVE Written(j)'
  <2>1. PICK k \in Keys : k = KeyOf(c) /\ (Works(c, k) \/ Leaves(c, k))
    BY <1>4, LaneWorks, LaneLeaves
  <2>2. CASE j = k
    BY <1>4, <2>1, <2>2, LaneWorkKeeps, LaneLeavingKeeps
  <2>3. CASE j # k
    BY <2>1, <2>3, OthersKeep DEF Actors
  <2>. QED
    BY <2>2, <2>3
<1>5. ASSUME NEW a \in Writers, NEW c \in Chats, Visit(a, c) PROVE Written(j)'
  BY <1>1, <1>2, <1>5, VisitIsKind DEF Actors
<1>6. ASSUME NEW c \in Chats, LaneSettled(c) PROVE Written(j)'
  BY <1>2, <1>6, LaneSettledJoins DEF Actors
<1>7. CASE Stopping
  BY <1>7, StoppingStops, StoppingKeeps
<1>. QED
  BY <1>1, <1>3, <1>4, <1>5, <1>6, <1>7, NextIsOneOf, PassingIsAside

----------------------------------------------------------------------------
(* Who does what, and with which frame. *)

\* Every step keeps the coroutines to what they do.
LEMMA RolesStep ==
  ASSUME Typed, Roles, SnapsAreFrames, Next
  PROVE  Roles'
<1> USE LiveCardAssumption DEF Typed, Roles, vars, chat, messenger, round, feed, line
<1>1. ASSUME NEW m \in Maps, NEW s \in Snapshots, OrdinaryFrame(m, s) PROVE Roles'
  BY <1>1 DEF OrdinaryFrame, NewFrame, Begins, Submit, CoroutinesTyped, MessengerTyped, Actors,
       Writers
<1>2. ASSUME NEW m \in Maps, NEW s \in Snapshots, StartFrame(m, s) PROVE Roles'
  BY <1>2 DEF StartFrame, NewFrame, Begins, Settle, CoroutinesTyped, MessengerTyped, Actors, Writers
<1>3. ASSUME NEW m \in Maps, NEW s \in Snapshots, FinalFrame(m, s) PROVE Roles'
  BY <1>3 DEF FinalFrame, NewFrame, Begins, Settle, CoroutinesTyped, MessengerTyped, Actors, Writers
<1>4. ASSUME FeedSettled PROVE Roles'
  BY <1>4 DEF FeedSettled, CoroutinesTyped, MessengerTyped, Actors, Writers
<1>5. ASSUME FeedRoundOver PROVE Roles'
  BY <1>5 DEF FeedRoundOver, CoroutinesTyped, MessengerTyped, Actors, Writers
<1>6. ASSUME NEW d \in Draws, DrawNext(d) PROVE Roles'
  BY <1>6 DEF DrawNext, CoroutinesTyped, MessengerTyped, Actors, Writers
<1>7. ASSUME NEW d \in Draws, DrawOver(d) PROVE Roles'
  BY <1>7 DEF DrawOver, Finish, CoroutinesTyped, MessengerTyped, Actors, Writers
<1>8. ASSUME NEW d \in Draws, RoundOver(d) PROVE Roles'
  BY <1>8 DEF RoundOver, Finish, CoroutinesTyped, MessengerTyped, Actors, Writers
<1>9. ASSUME NEW d \in Draws, Wake(d) PROVE Roles'
  BY <1>9 DEF Wake, CoroutinesTyped, MessengerTyped, Actors, Writers
<1>10. ASSUME NEW d \in Draws, Nudged(d) PROVE Roles'
  BY <1>10 DEF Nudged, Finish, CoroutinesTyped, MessengerTyped, Actors, Writers
<1>11. ASSUME NEW k \in Keys, IntervalPasses(k) PROVE Roles'
  BY <1>11 DEF IntervalPasses, CoroutinesTyped, MessengerTyped, Actors, Writers
<1>12. ASSUME NEW a \in Writers, NEW c \in Chats, Visit(a, c) PROVE Roles'
  <2>1. pc' = [pc EXCEPT ![a] = "queued"] \/ pc' = pc
    BY <1>12 DEF Visit, Queue
  <2>. QED
    BY <1>12, <2>1 DEF Visit, CoroutinesTyped, Actors, Writers
<1>13. ASSUME NEW a \in Writers, WriteNothing(a) PROVE Roles'
  BY <1>13 DEF WriteNothing, Locked, Release, BackTo, CoroutinesTyped, MessengerTyped, Actors,
       Writers
<1>14. ASSUME NEW a \in Writers, Write(a) PROVE Roles'
  BY <1>14 DEF Write, Locked, CoroutinesTyped, MessengerTyped, Actors, Writers
<1>15. ASSUME NEW a \in Writers, Posted(a) PROVE Roles'
  BY <1>15 DEF Posted, Post, CoroutinesTyped, MessengerTyped, Actors, Writers
<1>16. ASSUME NEW a \in Writers, Edited(a) PROVE Roles'
  BY <1>16 DEF Edited, Shown, CoroutinesTyped, MessengerTyped, Actors, Writers
<1>17. ASSUME NEW a \in Writers, Saved(a) PROVE Roles'
  BY <1>17 DEF Saved, Release, BackTo, CoroutinesTyped, MessengerTyped, Actors, Writers
<1>18. ASSUME NEW a \in Writers, WriteRefused(a) PROVE Roles'
  BY <1>18 DEF WriteRefused, Misses, Release, BackTo, GoesWrong, Shown, CoroutinesTyped,
       MessengerTyped, Actors, Writers
<1>19. ASSUME NEW a \in Writers, WriteAnswerLost(a) PROVE Roles'
  BY <1>19 DEF WriteAnswerLost, Misses, Release, BackTo, GoesWrong, CoroutinesTyped,
       MessengerTyped, Actors, Writers
<1>20. ASSUME NEW c \in Chats, NEW m \in Maps, Offer(c, m) PROVE Roles'
  BY <1>20 DEF Offer, Settle, CoroutinesTyped, MessengerTyped, Actors, Writers
<1>21. ASSUME NEW c \in Chats, LaneSettled(c) PROVE Roles'
  BY <1>21 DEF LaneSettled, Queue, CoroutinesTyped, MessengerTyped, Actors, Writers
<1>22. ASSUME NEW c \in Chats, LaneTooLate(c) PROVE Roles'
  BY <1>22 DEF LaneTooLate, Locked, Release, CoroutinesTyped, MessengerTyped, Actors, Writers
<1>23. ASSUME NEW c \in Chats, Rebuild(c) PROVE Roles'
  BY <1>23 DEF Rebuild, Locked, CoroutinesTyped, MessengerTyped, Actors, Writers
<1>24. ASSUME NEW c \in Chats, CardDeleted(c) PROVE Roles'
  BY <1>24 DEF CardDeleted, Shown, CoroutinesTyped, MessengerTyped, Actors, Writers
<1>25. ASSUME NEW c \in Chats, ForgetId(c) PROVE Roles'
  BY <1>25 DEF ForgetId, CoroutinesTyped, MessengerTyped, Actors, Writers
<1>26. ASSUME NEW c \in Chats, Reposted(c) PROVE Roles'
  BY <1>26 DEF Reposted, Post, CoroutinesTyped, MessengerTyped, Actors, Writers
<1>27. ASSUME NEW c \in Chats, Rebuilt(c) PROVE Roles'
  BY <1>27 DEF Rebuilt, Release, CoroutinesTyped, MessengerTyped, Actors, Writers
<1>28. ASSUME NEW c \in Chats, RebuildRefused(c) PROVE Roles'
  <2>1. GiveUp(c)
    BY <1>28 DEF RebuildRefused
  <2>. QED
    BY <2>1 DEF GiveUp, Submit, CoroutinesTyped, Actors, Writers
<1>29. ASSUME NEW c \in Chats, RebuildAnswerLost(c) PROVE Roles'
  <2>1. GiveUp(c)
    BY <1>29 DEF RebuildAnswerLost
  <2>. QED
    BY <2>1 DEF GiveUp, Submit, CoroutinesTyped, Actors, Writers
<1>30. ASSUME FeedCancelled PROVE Roles'
  BY <1>30 DEF FeedCancelled, Stopped, GoesWrong, CoroutinesTyped, MessengerTyped, Actors, Writers
<1>31. ASSUME Crash PROVE Roles'
  BY <1>31 DEF Crash, Stopped, GoesWrong, CoroutinesTyped, MessengerTyped, Actors, Writers
<1> QED
  BY <1>1, <1>2, <1>3, <1>4, <1>5, <1>6, <1>7, <1>8, <1>9, <1>10, <1>11, <1>12, <1>13, <1>14,
       <1>15, <1>16, <1>17, <1>18, <1>19, <1>20, <1>21, <1>22, <1>23, <1>24, <1>25, <1>26, <1>27,
       <1>28, <1>29, <1>30, <1>31 DEF Next, Feeding, Drawing, Writing, Absorbing, Answers,
       Actors, Writers

\* Every step keeps frames in the hands of those who write.
LEMMA SnapsStep ==
  ASSUME Typed, Roles, SnapsAreFrames, Next
  PROVE  SnapsAreFrames'
<1> USE LiveCardAssumption DEF Typed, SnapsAreFrames, Shows, vars, chat, messenger, round, feed,
     line
<1>1. ASSUME NEW m \in Maps, NEW s \in Snapshots, OrdinaryFrame(m, s) PROVE SnapsAreFrames'
  <2> DEFINE moved == pc
  <2>1. moved \in [Actors -> PCs] /\ Submit(s, moved)
    BY <1>1 DEF OrdinaryFrame, CoroutinesTyped, Actors, PCs
  <2>2. \A b \in Actors :
          pc'[b] = moved[b] \/ (b \in Draws /\ pc[b] = "idle" /\ pc'[b] = "looping")
    BY <2>1, SubmitMoves DEF Typed
  <2>3. latest' = s /\ pending' = s
    BY <2>1 DEF Submit
  <2>4. \A b \in Actors : pc'[b] \notin {"idle", "looping"} => pc[b] \notin {"idle", "looping"}
    BY <2>2 DEF CoroutinesTyped
  <2>. QED
    BY <1>1, <2>3, <2>4 DEF OrdinaryFrame, NewFrame, round, CoroutinesTyped
<1>2. ASSUME NEW m \in Maps, NEW s \in Snapshots, StartFrame(m, s) PROVE SnapsAreFrames'
  BY <1>2 DEF StartFrame, NewFrame, Begins, Settle, CoroutinesTyped, MessengerTyped, FeedTyped,
       Roles, Actors, Writers, NoSnap, Snapshots
<1>3. ASSUME NEW m \in Maps, NEW s \in Snapshots, FinalFrame(m, s) PROVE SnapsAreFrames'
  BY <1>3 DEF FinalFrame, NewFrame, Begins, Settle, CoroutinesTyped, MessengerTyped, FeedTyped,
       Roles, Actors, Writers, NoSnap, Snapshots
<1>4. ASSUME FeedSettled PROVE SnapsAreFrames'
  BY <1>4 DEF FeedSettled, CoroutinesTyped, MessengerTyped, FeedTyped, Roles, Actors, Writers,
       NoSnap, Snapshots
<1>5. ASSUME FeedRoundOver PROVE SnapsAreFrames'
  BY <1>5 DEF FeedRoundOver, CoroutinesTyped, MessengerTyped, FeedTyped, Roles, Actors, Writers,
       NoSnap, Snapshots
<1>6. ASSUME NEW d \in Draws, DrawNext(d) PROVE SnapsAreFrames'
  BY <1>6 DEF DrawNext, CoroutinesTyped, MessengerTyped, FeedTyped, Roles, Actors, Writers,
       NoSnap, Snapshots
<1>7. ASSUME NEW d \in Draws, DrawOver(d) PROVE SnapsAreFrames'
  BY <1>7 DEF DrawOver, Finish, CoroutinesTyped, MessengerTyped, FeedTyped, Roles, Actors,
       Writers, NoSnap, Snapshots
<1>8. ASSUME NEW d \in Draws, RoundOver(d) PROVE SnapsAreFrames'
  BY <1>8, ZenonT(30) DEF RoundOver, Finish, CoroutinesTyped, MessengerTyped, FeedTyped, Roles, Actors,
       Writers, NoSnap, Snapshots
<1>9. ASSUME NEW d \in Draws, Wake(d) PROVE SnapsAreFrames'
  BY <1>9 DEF Wake, CoroutinesTyped, MessengerTyped, FeedTyped, Roles, Actors, Writers, NoSnap,
       Snapshots
<1>10. ASSUME NEW d \in Draws, Nudged(d) PROVE SnapsAreFrames'
  BY <1>10 DEF Nudged, Finish, CoroutinesTyped, MessengerTyped, FeedTyped, Roles, Actors,
       Writers, NoSnap, Snapshots
<1>11. ASSUME NEW k \in Keys, IntervalPasses(k) PROVE SnapsAreFrames'
  BY <1>11 DEF IntervalPasses, CoroutinesTyped, MessengerTyped, FeedTyped, Roles, Actors,
       Writers, NoSnap, Snapshots
<1>12. ASSUME NEW a \in Writers, NEW c \in Chats, Visit(a, c) PROVE SnapsAreFrames'
  BY <1>12 DEF Visit, Misses, Queue, CoroutinesTyped, MessengerTyped, FeedTyped, Roles, Actors,
       Writers, NoSnap, Snapshots
<1>13. ASSUME NEW a \in Writers, WriteNothing(a) PROVE SnapsAreFrames'
  BY <1>13 DEF WriteNothing, Locked, Release, BackTo, CoroutinesTyped, MessengerTyped, FeedTyped,
       Roles, Actors, Writers, NoSnap, Snapshots
<1>14. ASSUME NEW a \in Writers, Write(a) PROVE SnapsAreFrames'
  BY <1>14 DEF Write, Locked, CoroutinesTyped, MessengerTyped, FeedTyped, Roles, Actors, Writers,
       NoSnap, Snapshots
<1>15. ASSUME NEW a \in Writers, Posted(a) PROVE SnapsAreFrames'
  BY <1>15 DEF Posted, Post, CoroutinesTyped, MessengerTyped, FeedTyped, Roles, Actors, Writers,
       NoSnap, Snapshots
<1>16. ASSUME NEW a \in Writers, Edited(a) PROVE SnapsAreFrames'
  BY <1>16 DEF Edited, Shown, CoroutinesTyped, MessengerTyped, FeedTyped, Roles, Actors, Writers,
       NoSnap, Snapshots
<1>17. ASSUME NEW a \in Writers, Saved(a) PROVE SnapsAreFrames'
  BY <1>17 DEF Saved, Release, BackTo, CoroutinesTyped, MessengerTyped, FeedTyped, Roles, Actors,
       Writers, NoSnap, Snapshots
<1>18. ASSUME NEW a \in Writers, WriteRefused(a) PROVE SnapsAreFrames'
  BY <1>18 DEF WriteRefused, Misses, Release, BackTo, GoesWrong, Shown, CoroutinesTyped,
       MessengerTyped, FeedTyped, Roles, Actors, Writers, NoSnap, Snapshots
<1>19. ASSUME NEW a \in Writers, WriteAnswerLost(a) PROVE SnapsAreFrames'
  BY <1>19 DEF WriteAnswerLost, Misses, Release, BackTo, GoesWrong, CoroutinesTyped,
       MessengerTyped, FeedTyped, Roles, Actors, Writers, NoSnap, Snapshots
<1>20. ASSUME NEW c \in Chats, NEW m \in Maps, Offer(c, m) PROVE SnapsAreFrames'
  BY <1>20 DEF Offer, Settle, CoroutinesTyped, MessengerTyped, FeedTyped, Roles, Actors, Writers,
       NoSnap, Snapshots
<1>21. ASSUME NEW c \in Chats, LaneSettled(c) PROVE SnapsAreFrames'
  BY <1>21 DEF LaneSettled, Queue, CoroutinesTyped, MessengerTyped, FeedTyped, Roles, Actors,
       Writers, NoSnap, Snapshots
<1>22. ASSUME NEW c \in Chats, LaneTooLate(c) PROVE SnapsAreFrames'
  BY <1>22 DEF LaneTooLate, Locked, Release, CoroutinesTyped, MessengerTyped, FeedTyped, Roles,
       Actors, Writers, NoSnap, Snapshots
<1>23. ASSUME NEW c \in Chats, Rebuild(c) PROVE SnapsAreFrames'
  BY <1>23 DEF Rebuild, Locked, CoroutinesTyped, MessengerTyped, FeedTyped, Roles, Actors,
       Writers, NoSnap, Snapshots
<1>24. ASSUME NEW c \in Chats, CardDeleted(c) PROVE SnapsAreFrames'
  BY <1>24 DEF CardDeleted, Shown, CoroutinesTyped, MessengerTyped, FeedTyped, Roles, Actors,
       Writers, NoSnap, Snapshots
<1>25. ASSUME NEW c \in Chats, ForgetId(c) PROVE SnapsAreFrames'
  BY <1>25 DEF ForgetId, CoroutinesTyped, MessengerTyped, FeedTyped, Roles, Actors, Writers,
       NoSnap, Snapshots
<1>26. ASSUME NEW c \in Chats, Reposted(c) PROVE SnapsAreFrames'
  BY <1>26 DEF Reposted, Post, CoroutinesTyped, MessengerTyped, FeedTyped, Roles, Actors,
       Writers, NoSnap, Snapshots
<1>27. ASSUME NEW c \in Chats, Rebuilt(c) PROVE SnapsAreFrames'
  BY <1>27 DEF Rebuilt, Release, CoroutinesTyped, MessengerTyped, FeedTyped, Roles, Actors,
       Writers, NoSnap, Snapshots
<1>28. ASSUME NEW c \in Chats, RebuildRefused(c) PROVE SnapsAreFrames'
  <2> DEFINE moved == [pc EXCEPT ![c] = "idle"]
  <2>1. moved \in [Actors -> PCs] /\ Submit(snap[c], moved)
    BY <1>28 DEF RebuildRefused, GiveUp, CoroutinesTyped, Actors, PCs
  <2>2. \A b \in Actors :
          pc'[b] = moved[b] \/ (b \in Draws /\ pc[b] = "idle" /\ pc'[b] = "looping")
    BY <2>1, SubmitMoves DEF Typed
  <2>3. latest' = snap[c] /\ pending' = snap[c]
    BY <2>1 DEF Submit
  <2>4. \A b \in Actors : pc'[b] \notin {"idle", "looping"} => pc[b] \notin {"idle", "looping"}
    BY <2>2 DEF CoroutinesTyped
  <2>. QED
    BY <1>28, <2>3, <2>4 DEF RebuildRefused, GiveUp, round, CoroutinesTyped, Actors
<1>29. ASSUME NEW c \in Chats, RebuildAnswerLost(c) PROVE SnapsAreFrames'
  <2> DEFINE moved == [pc EXCEPT ![c] = "idle"]
  <2>1. moved \in [Actors -> PCs] /\ Submit(snap[c], moved)
    BY <1>29 DEF RebuildAnswerLost, GiveUp, CoroutinesTyped, Actors, PCs
  <2>2. \A b \in Actors :
          pc'[b] = moved[b] \/ (b \in Draws /\ pc[b] = "idle" /\ pc'[b] = "looping")
    BY <2>1, SubmitMoves DEF Typed
  <2>3. latest' = snap[c] /\ pending' = snap[c]
    BY <2>1 DEF Submit
  <2>4. \A b \in Actors : pc'[b] \notin {"idle", "looping"} => pc[b] \notin {"idle", "looping"}
    BY <2>2 DEF CoroutinesTyped
  <2>. QED
    BY <1>29, <2>3, <2>4 DEF RebuildAnswerLost, GiveUp, round, CoroutinesTyped, Actors
<1>30. ASSUME FeedCancelled PROVE SnapsAreFrames'
  BY <1>30 DEF FeedCancelled, Stopped, GoesWrong, CoroutinesTyped, MessengerTyped, FeedTyped,
       Roles, Actors, Writers, NoSnap, Snapshots
<1>31. ASSUME Crash PROVE SnapsAreFrames'
  BY <1>31 DEF Crash, Stopped, GoesWrong, CoroutinesTyped, MessengerTyped, FeedTyped, Roles,
       Actors, Writers, NoSnap, Snapshots
<1> QED
  BY <1>1, <1>2, <1>3, <1>4, <1>5, <1>6, <1>7, <1>8, <1>9, <1>10, <1>11, <1>12, <1>13, <1>14,
       <1>15, <1>16, <1>17, <1>18, <1>19, <1>20, <1>21, <1>22, <1>23, <1>24, <1>25, <1>26, <1>27,
       <1>28, <1>29, <1>30, <1>31 DEF Next, Feeding, Drawing, Writing, Absorbing, Answers,
       Actors, Writers

----------------------------------------------------------------------------
(* A map's start. *)

\* What was posted stays posted.
LEMMA PostedGrows ==
  ASSUME Typed, Roles, SnapsAreFrames, Lines, Next, NEW k \in Keys
  PROVE  posted[k] \in Nat /\ posted'[k] \in Nat /\ posted[k] <= posted'[k]
<1> USE DEF Typed, ChatTyped, chat
<1>0. posted[k] \in Nat
  OBVIOUS
<1>1. CASE Passing
  BY <1>1, <1>0, PassingIsAside DEF Aside, ChatSame
<1>2. ASSUME NEW a \in Writers, (\E c \in Chats : Visit(a, c)) \/ Leaving(a)
      PROVE  posted' = posted
  BY <1>2 DEF Visit, Leaving, WriteNothing, Saved, WriteRefused, WriteAnswerLost
<1>3. ASSUME NEW a \in Writers, Working(a) PROVE posted'[k] \in {posted[k], posted[k] + 1}
  <2>1. CASE Write(a) \/ Edited(a)
    BY <2>1 DEF Write, Edited
  <2>2. CASE Posted(a)
    BY <2>2 DEF Posted, Post
  <2>. QED
    BY <1>3, <2>1, <2>2 DEF Working
<1>4. ASSUME NEW c \in Chats, LaneSettled(c) \/ LeavingLane(c) PROVE posted' = posted
  BY <1>4 DEF LaneSettled, LeavingLane, LaneTooLate, Rebuilt, RebuildRefused, RebuildAnswerLost
<1>5. ASSUME NEW c \in Chats, WorkingLane(c) PROVE posted'[k] \in {posted[k], posted[k] + 1}
  <2>1. CASE Rebuild(c) \/ CardDeleted(c) \/ ForgetId(c)
    BY <2>1 DEF Rebuild, CardDeleted, ForgetId
  <2>2. CASE Reposted(c)
    BY <2>2 DEF Reposted, Post
  <2>. QED
    BY <1>5, <2>1, <2>2 DEF WorkingLane
<1>6. CASE Stopping
  BY <1>6 DEF Stopping, FeedCancelled, Crash
<1>. QED
  BY <1>0, <1>1, <1>2, <1>3, <1>4, <1>5, <1>6, NextIsOneOf

\* A step of somebody else.
FeedAside ==
  /\ pc'[Feed] = pc[Feed] /\ snap'[Feed] = snap[Feed]
  /\ at'[Feed] = at[Feed] /\ left'[Feed] = left[Feed]
  /\ mode' = mode /\ missed \subseteq missed' /\ announced' = announced /\ resent' = resent

\* A step that is not the feed's leaves the feed where it is.
LEMMA OthersLeaveFeedAlone ==
  ASSUME Typed, Roles, SnapsAreFrames, Lines, Next
  PROVE  \/ FeedAside
         \/ \E m \in Maps, s \in Snapshots : StartFrame(m, s) \/ FinalFrame(m, s)
         \/ FeedSettled \/ FeedRoundOver \/ Stopping
         \/ (\E c \in Chats : Visit(Feed, c)) \/ Working(Feed) \/ Leaving(Feed)
<1> USE LiveCardAssumption DEF FeedAside, Typed, CoroutinesTyped, Actors, Writers, round, feed
<1>1. ASSUME NEW m \in Maps, NEW s \in Snapshots, OrdinaryFrame(m, s) PROVE FeedAside
  <2>1. pc \in [Actors -> PCs] /\ Submit(s, pc)
    BY <1>1 DEF OrdinaryFrame
  <2>2. \A b \in Actors :
          pc'[b] = pc[b] \/ (b \in Draws /\ pc[b] = "idle" /\ pc'[b] = "looping")
    BY <2>1, SubmitMoves
  <2>. QED
    BY <1>1, <2>2 DEF OrdinaryFrame
<1>2. ASSUME NEW d \in Draws, DrawNext(d) \/ DrawOver(d) \/ RoundOver(d) \/ Wake(d) \/ Nudged(d)
      PROVE  FeedAside
  BY <1>2 DEF DrawNext, DrawOver, RoundOver, Wake, Nudged, Finish
<1>3. ASSUME NEW k \in Keys, IntervalPasses(k) PROVE FeedAside
  BY <1>3 DEF IntervalPasses
<1>4. ASSUME NEW c \in Chats, NEW m \in Maps, Offer(c, m) PROVE FeedAside
  BY <1>4 DEF Offer, Settle, Roles
<1>5. ASSUME NEW d \in Draws, NEW c \in Chats, Visit(d, c) PROVE FeedAside
  BY <1>5 DEF Visit, Misses, Queue
<1>6. ASSUME NEW d \in Draws, Working(d) PROVE FeedAside
  BY <1>6 DEF Working, Write, Posted, Edited
<1>7. ASSUME NEW d \in Draws, Leaving(d) PROVE FeedAside
  BY <1>7 DEF Leaving, WriteNothing, Saved, WriteRefused, WriteAnswerLost, BackTo, Misses
<1>8. ASSUME NEW c \in Chats, LaneSettled(c) \/ WorkingLane(c) PROVE FeedAside
  BY <1>8 DEF LaneSettled, Queue, WorkingLane, Rebuild, CardDeleted, ForgetId, Reposted
<1>9. ASSUME NEW c \in Chats, LaneTooLate(c) \/ Rebuilt(c) PROVE FeedAside
  BY <1>9 DEF LaneTooLate, Rebuilt
<1>10. ASSUME NEW c \in Chats, RebuildRefused(c) \/ RebuildAnswerLost(c) PROVE FeedAside
  <2> DEFINE moved == [pc EXCEPT ![c] = "idle"]
  <2>1. moved \in [Actors -> PCs]
    BY DEF PCs
  <2>2. Submit(snap[c], moved)
    BY <1>10 DEF RebuildRefused, RebuildAnswerLost, GiveUp
  <2>3. \A b \in Actors :
          pc'[b] = moved[b] \/ (b \in Draws /\ pc[b] = "idle" /\ pc'[b] = "looping")
    BY <2>1, <2>2, SubmitMoves
  <2>4. pc'[Feed] = pc[Feed]
    BY <2>3
  <2>. QED
    BY <1>10, <2>4 DEF RebuildRefused, RebuildAnswerLost
<1>11. Passing => FeedAside \/ (\E m \in Maps, s \in Snapshots : StartFrame(m, s) \/ FinalFrame(m, s))
                    \/ FeedSettled \/ FeedRoundOver
  BY <1>1, <1>2, <1>3, <1>4 DEF Passing
<1>12. ASSUME NEW a \in Writers, (\E c \in Chats : Visit(a, c)) \/ Working(a) \/ Leaving(a)
       PROVE  FeedAside \/ (\E c \in Chats : Visit(Feed, c)) \/ Working(Feed) \/ Leaving(Feed)
  BY <1>5, <1>6, <1>7, <1>12
<1>13. ASSUME NEW c \in Chats, LaneSettled(c) \/ WorkingLane(c) \/ LeavingLane(c) PROVE FeedAside
  BY <1>8, <1>9, <1>10, <1>13 DEF LeavingLane
<1>. QED
  BY <1>11, <1>12, <1>13, NextIsOneOf

Told(c, m) == posted[<<c, m>>] > 0 \/ <<c, m>> \in missed

\* Every step keeps the account of whom a start has reached.
LEMMA StartStep ==
  ASSUME Typed, Roles, SnapsAreFrames, Lines, \A k \in Keys : Written(k),
         StartInv, StartReachesAll, Next
  PROVE  StartInv' /\ StartReachesAll'
<1> USE LiveCardAssumption DEF Typed, CoroutinesTyped, FeedTyped, Actors, Writers, round, feed
<1>1. \A c \in Chats, m \in Maps : posted[<<c, m>>] > 0 => posted'[<<c, m>>] > 0
  BY PostedGrows DEF Keys
<1>2. ASSUME announced' = announced, resent' = resent PROVE StartReachesAll'
  BY <1>1, <1>2 DEF StartReachesAll
<1>3. CASE FeedAside
  <2>1. Passed' = Passed
    BY <1>3 DEF FeedAside, Passed
  <2>2. StartInv'
    <3> SUFFICES ASSUME pc'[Feed] \notin {"idle", "settling"}, mode' = "start", NEW c \in Passed
                 PROVE  Told(c, snap[Feed].map)'
      BY <1>3, <2>1 DEF StartInv, FeedAside, Told
    <3>1. Told(c, snap[Feed].map) /\ snap[Feed].map \in Maps /\ c \in Chats
      BY <1>3 DEF FeedAside, StartInv, Told, SnapsAreFrames, Passed, Roles
    <3>. QED
      BY <1>1, <1>3, <3>1 DEF FeedAside, Told
  <2>. QED
    BY <1>2, <1>3, <2>2 DEF FeedAside
<1>4. ASSUME NEW m \in Maps, NEW s \in Snapshots, StartFrame(m, s) \/ FinalFrame(m, s)
      PROVE  StartInv' /\ StartReachesAll'
  BY <1>2, <1>4 DEF StartFrame, FinalFrame, Settle, StartInv
<1>5. CASE FeedSettled
  BY <1>2, <1>5 DEF FeedSettled, StartInv, Passed
<1>6. CASE FeedRoundOver
  <2>1. StartInv'
    BY <1>6 DEF FeedRoundOver, StartInv
  <2>2. posted' = posted
    BY <1>6 DEF FeedRoundOver, chat
  <2>3. ASSUME mode = "start" PROVE \A c \in Chats : Told(c, snap[Feed].map)
    BY <1>6, <2>3 DEF FeedRoundOver, StartInv, Passed, Told, Lined, Holding
  <2>4. StartReachesAll'
    BY <1>6, <2>2, <2>3 DEF FeedRoundOver, StartReachesAll, Told
  <2>. QED
    BY <2>1, <2>4
<1>7. CASE Stopping
  <2>1. pc'[Feed] = "idle"
    BY <1>7 DEF Stopping, FeedCancelled, Crash, Stopped
  <2>. QED
    BY <1>2, <1>7, <2>1 DEF Stopping, FeedCancelled, Crash, StartInv
<1>8. ASSUME NEW c \in Chats, Visit(Feed, c) PROVE StartInv' /\ StartReachesAll'
  <2> DEFINE k == <<c, snap[Feed].map>>
  <2>1. k \in Keys /\ snap[Feed].map \in Maps
    BY <1>8, SomeoneToWrite DEF Visit, Keys
  <2>2. /\ pc[Feed] = "visiting" /\ left'[Feed] = left[Feed] \ {c} /\ at'[Feed] = c
        /\ snap'[Feed] = snap[Feed] /\ mode' = mode /\ posted' = posted
        /\ announced' = announced /\ resent' = resent
    BY <1>8 DEF Visit, chat
  <2>3. pc'[Feed] \in Lined \/ (mode = "start" => Told(c, snap[Feed].map)')
    <3>1. CASE row[k].final \/ row[k].n > 0
      BY <2>1, <2>2, <3>1 DEF Written, RowOf, Told
    <3>2. CASE TooEarly(Feed, k) /\ ~row[k].final
      BY <1>8, <2>1, <2>2, <3>2 DEF Visit, Misses, Told, Throttled, TooEarly
    <3>3. CASE Queue(Feed, k)
      BY <3>3 DEF Queue, Lined
    <3>. QED
      BY <1>8, <3>1, <3>2, <3>3 DEF Visit, Throttled
  <2>4. missed \subseteq missed'
    BY <1>8 DEF Visit, Misses
  <2>5. \A e \in Passed : mode = "start" => Told(e, snap[Feed].map)'
    BY <2>2, <2>4 DEF StartInv, Told
  <2>6. \A e \in Passed' : e \in Passed \/ (e = c /\ pc'[Feed] \notin Lined)
    BY <2>2 DEF Passed, Lined, Holding
  <2>7. StartInv'
    BY <2>2, <2>3, <2>5, <2>6 DEF StartInv, Told
  <2>. QED
    BY <1>2, <2>2, <2>7
<1>9. CASE Working(Feed)
  <2>1. /\ pc[Feed] \in Lined /\ pc'[Feed] \in Lined /\ snap' = snap /\ at' = at /\ left' = left
        /\ mode' = mode /\ missed' = missed /\ announced' = announced /\ resent' = resent
    BY <1>9 DEF Working, Write, Posted, Edited, Locked, Lined, Holding
  <2>2. Passed' = Passed /\ Passed \subseteq Chats
    BY <2>1 DEF Passed
  <2>3. snap[Feed].map \in Maps /\ pc[Feed] \notin {"idle", "settling"}
    BY <2>1, SomeoneToWrite DEF Lined, Holding
  <2>4. StartInv'
    BY <1>1, <2>1, <2>2, <2>3 DEF StartInv
  <2>. QED
    BY <1>2, <2>1, <2>4
<1>10. CASE Leaving(Feed)
  <2> DEFINE k == KeyOf(Feed)
  <2>1. /\ k \in Keys /\ Leaves(Feed, k) /\ k = <<at[Feed], snap[Feed].map>> /\ Feed \in lock[k]
        /\ snap[Feed].map \in Maps
    BY <1>10, LeavingLeaves, WorkingAlone, SomeoneToWrite, SMTT(30) DEF KeyOf, ChatOf, Leaves, Lined, Holding
  <2>2. /\ pc[Feed] \in Lined /\ pc'[Feed] \notin Lined /\ snap' = snap /\ at' = at /\ left' = left
        /\ mode' = mode /\ missed \subseteq missed' /\ announced' = announced /\ resent' = resent
        /\ posted' = posted
    BY <1>10, <2>1 DEF Leaves, Leaving, WriteNothing, Saved, WriteRefused, WriteAnswerLost,
         Misses, chat
  <2>3. mode = "start" => Told(at[Feed], snap[Feed].map)'
    <3>1. CASE WriteNothing(Feed)
      BY <2>1, <2>2, <3>1 DEF WriteNothing, MustWrite, Unchanged, Written, RowOf, Told
    <3>2. CASE Saved(Feed)
      BY <2>1, <2>2, <3>2 DEF Saved, Written, RowOf, CardsOf, HasPosted, Told
    <3>3. CASE WriteRefused(Feed) \/ WriteAnswerLost(Feed)
      BY <2>1, <3>3 DEF WriteRefused, WriteAnswerLost, Misses, Told
    <3>. QED
      BY <1>10, <3>1, <3>2, <3>3 DEF Leaving
  <2>4. \A e \in Passed' : e \in Passed \/ e = at[Feed]
    BY <2>2 DEF Passed
  <2>5. \A e \in Passed : mode = "start" => Told(e, snap[Feed].map)'
    BY <2>2 DEF StartInv, Told, Lined, Holding
  <2>6. StartInv'
    BY <2>2, <2>3, <2>4, <2>5 DEF StartInv, Told
  <2>. QED
    BY <1>2, <2>2, <2>6
<1>. QED
  BY <1>3, <1>4, <1>5, <1>6, <1>7, <1>8, <1>9, <1>10, OthersLeaveFeedAlone

----------------------------------------------------------------------------
(* The draws. *)

\* submit keeps the account of the draws.
LEMMA SubmitDraws ==
  ASSUME Typed, DrawInv, NEW s, NEW moved \in [Actors -> PCs], Submit(s, moved),
         waits' = waits,
         \A a \in Actors : moved[a] = pc[a] \/ (a \notin Draws /\ waits[a] = {})
  PROVE  DrawInv'
<1> USE LiveCardAssumption DEF Typed, CoroutinesTyped, MessengerTyped, Actors, Writers
<1>1. CASE \E d \in drawing : pc[d] # "idle"
  BY <1>1 DEF Submit, DrawInv
<1>2. ASSUME \A d \in drawing : pc[d] = "idle",
             NEW d \in Draws, pc[d] = "idle", drawing' = {d}, pc' = [moved EXCEPT ![d] = "looping"]
      PROVE  DrawInv'
  <2>1. \A a \in Actors : pc'[a] = IF a = d THEN "looping" ELSE moved[a]
    BY <1>2
  <2>. QED
    BY <1>2, <2>1 DEF DrawInv
<1>. QED
  BY <1>1, <1>2 DEF Submit

\* So does _settle: whoever drops the current draw waits for it.
LEMMA SettleDraws ==
  ASSUME Typed, DrawInv, NEW a \in Actors, a \notin Draws, pc[a] = "idle", Settle(a)
  PROVE  DrawInv'
<1> USE LiveCardAssumption DEF Typed, CoroutinesTyped, MessengerTyped, Actors, Writers
<1> DEFINE running == {d \in drawing : pc[d] # "idle"}
<1>1. /\ drawing' = {} /\ waits'[a] = running /\ pc'[a] = "settling"
      /\ \A b \in Actors : b # a => waits'[b] = waits[b]
      /\ \A b \in Actors : b \notin Draws /\ b # a => pc'[b] = pc[b]
      /\ \A d \in Draws : pc'[d] # "idle" => pc[d] # "idle"
  BY DEF Settle
<1>2. waits[a] = {}
  BY DEF DrawInv
<1>3. ASSUME NEW d \in Draws, pc'[d] # "idle" PROVE \E b \in Actors : d \in waits'[b]
  <2>1. CASE d \in drawing
    BY <1>1, <1>3, <2>1
  <2>2. CASE d \notin drawing
    BY <1>1, <1>2, <1>3, <2>2 DEF DrawInv
  <2>. QED
    BY <2>1, <2>2
<1>4. \A b \in Actors : waits'[b] # {} => b \notin Draws /\ pc'[b] = "settling"
  BY <1>1 DEF DrawInv
<1>5. \A b \in Actors : \A d, e \in waits'[b] : d = e
  BY <1>1 DEF DrawInv
<1>. QED
  BY <1>1, <1>3, <1>4, <1>5 DEF DrawInv

\* So does a draw that returns.
LEMMA FinishDraws ==
  ASSUME Typed, DrawInv, NEW d \in Draws, Finish(d), drawing' = drawing
  PROVE  DrawInv'
<1> USE LiveCardAssumption DEF Typed, CoroutinesTyped, MessengerTyped, Actors, Writers
<1>1. /\ \A a \in Actors : waits'[a] = waits[a] \ {d}
      /\ \A a \in Actors : pc'[a] = IF a = d THEN "idle" ELSE pc[a]
  BY DEF Finish
<1>2. \A a \in Actors : waits'[a] # {} => a \notin Draws /\ pc'[a] = "settling"
  BY <1>1 DEF DrawInv
<1>3. \A a \in Actors : \A x, y \in waits'[a] : x = y
  BY <1>1 DEF DrawInv
<1>4. ASSUME NEW e \in Draws, pc'[e] # "idle", e \notin drawing
      PROVE  \E a \in Actors : e \in waits'[a]
  <2>1. pc[e] # "idle" /\ e # d
    BY <1>1, <1>4
  <2>2. PICK a \in Actors : e \in waits[a]
    BY <1>4, <2>1 DEF DrawInv
  <2>. QED
    BY <1>1, <2>1, <2>2
<1>. QED
  BY <1>2, <1>3, <1>4 DEF DrawInv

\* The draws and those who wait for them stay where they are.
LEMMA DrawsUndisturbed ==
  ASSUME Typed, DrawInv, waits' = waits, drawing' = drawing,
         \A d \in Draws : pc'[d] # "idle" => pc[d] # "idle",
         \A a \in Actors : pc'[a] = pc[a] \/ waits[a] = {}
  PROVE  DrawInv'
BY DEF Typed, CoroutinesTyped, Actors, Writers, DrawInv

\* Every step keeps the account of the draws.
LEMMA DrawStep ==
  ASSUME Typed, Roles, DrawInv, Next
  PROVE  DrawInv'
<1> USE LiveCardAssumption DEF Typed, CoroutinesTyped, MessengerTyped, Roles, Actors, Writers,
        vars, messenger, round
<1>0. \A a \in Actors : pc[a] # "settling" => waits[a] = {}
  BY DEF DrawInv
<1>1. ASSUME NEW m \in Maps, NEW s \in Snapshots, OrdinaryFrame(m, s) PROVE DrawInv'
  <2>1. pc \in [Actors -> PCs] /\ Submit(s, pc) /\ waits' = waits
    BY <1>1 DEF OrdinaryFrame
  <2>. QED
    BY <2>1, SubmitDraws
<1>2. ASSUME NEW m \in Maps, NEW s \in Snapshots, StartFrame(m, s) PROVE DrawInv'
  <2>1. Settle(Feed) /\ pc[Feed] = "idle"
    BY <1>2 DEF StartFrame, NewFrame
  <2>. QED
    BY <2>1, SettleDraws
<1>3. ASSUME NEW m \in Maps, NEW s \in Snapshots, FinalFrame(m, s) PROVE DrawInv'
  <2>1. Settle(Feed) /\ pc[Feed] = "idle"
    BY <1>3 DEF FinalFrame, NewFrame
  <2>. QED
    BY <2>1, SettleDraws
<1>4. ASSUME FeedSettled PROVE DrawInv'
  BY <1>0, <1>4, DrawsUndisturbed DEF FeedSettled
<1>5. ASSUME FeedRoundOver PROVE DrawInv'
  BY <1>0, <1>5, DrawsUndisturbed DEF FeedRoundOver
<1>6. ASSUME NEW d \in Draws, DrawNext(d) PROVE DrawInv'
  BY <1>0, <1>6, DrawsUndisturbed DEF DrawNext
<1>7. ASSUME NEW d \in Draws, DrawOver(d) PROVE DrawInv'
  <2>1. Finish(d) /\ drawing' = drawing
    BY <1>7 DEF DrawOver
  <2>. QED
    BY <2>1, FinishDraws
<1>8. ASSUME NEW d \in Draws, RoundOver(d) PROVE DrawInv'
  <2>1. CASE Finish(d)
    BY <1>8, <2>1, FinishDraws DEF RoundOver
  <2>2. CASE waits' = waits /\ pc' \in {[pc EXCEPT ![d] = "looping"], [pc EXCEPT ![d] = "sleeping"]}
    BY <1>8, <2>2, <1>0, DrawsUndisturbed DEF RoundOver
  <2>. QED
    BY <1>8, <2>1, <2>2 DEF RoundOver
<1>9. ASSUME NEW d \in Draws, Wake(d) PROVE DrawInv'
  BY <1>0, <1>9, DrawsUndisturbed DEF Wake
<1>10. ASSUME NEW d \in Draws, Nudged(d) PROVE DrawInv'
  <2>1. Finish(d) /\ drawing' = drawing
    BY <1>10 DEF Nudged
  <2>. QED
    BY <2>1, FinishDraws
<1>11. ASSUME NEW k \in Keys, IntervalPasses(k) PROVE DrawInv'
  BY <1>0, <1>11, DrawsUndisturbed DEF IntervalPasses
<1>12. ASSUME NEW a \in Writers, NEW c \in Chats, Visit(a, c) PROVE DrawInv'
  BY <1>0, <1>12, DrawsUndisturbed DEF Visit, Queue
<1>13. ASSUME NEW a \in Writers, WriteNothing(a) PROVE DrawInv'
  BY <1>0, <1>13, DrawsUndisturbed DEF WriteNothing, Locked, Release, BackTo
<1>14. ASSUME NEW a \in Writers, Write(a) PROVE DrawInv'
  BY <1>0, <1>14, DrawsUndisturbed DEF Write, Locked
<1>15. ASSUME NEW a \in Writers, Posted(a) PROVE DrawInv'
  BY <1>0, <1>15, DrawsUndisturbed DEF Posted
<1>16. ASSUME NEW a \in Writers, Edited(a) PROVE DrawInv'
  BY <1>0, <1>16, DrawsUndisturbed DEF Edited
<1>17. ASSUME NEW a \in Writers, Saved(a) PROVE DrawInv'
  BY <1>0, <1>17, DrawsUndisturbed DEF Saved, BackTo
<1>18. ASSUME NEW a \in Writers, WriteRefused(a) PROVE DrawInv'
  BY <1>0, <1>18, DrawsUndisturbed DEF WriteRefused, BackTo
<1>19. ASSUME NEW a \in Writers, WriteAnswerLost(a) PROVE DrawInv'
  BY <1>0, <1>19, DrawsUndisturbed DEF WriteAnswerLost, BackTo
<1>20. ASSUME NEW c \in Chats, NEW m \in Maps, Offer(c, m) PROVE DrawInv'
  <2>1. Settle(c) /\ pc[c] = "idle"
    BY <1>20 DEF Offer
  <2>. QED
    BY <2>1, SettleDraws
<1>21. ASSUME NEW c \in Chats, LaneSettled(c) PROVE DrawInv'
  BY <1>0, <1>21, DrawsUndisturbed DEF LaneSettled, Queue
<1>22. ASSUME NEW c \in Chats, LaneTooLate(c) PROVE DrawInv'
  BY <1>0, <1>22, DrawsUndisturbed DEF LaneTooLate, Locked
<1>23. ASSUME NEW c \in Chats, Rebuild(c) PROVE DrawInv'
  BY <1>0, <1>23, DrawsUndisturbed DEF Rebuild, Locked
<1>24. ASSUME NEW c \in Chats, CardDeleted(c) PROVE DrawInv'
  BY <1>0, <1>24, DrawsUndisturbed DEF CardDeleted
<1>25. ASSUME NEW c \in Chats, ForgetId(c) PROVE DrawInv'
  BY <1>0, <1>25, DrawsUndisturbed DEF ForgetId
<1>26. ASSUME NEW c \in Chats, Reposted(c) PROVE DrawInv'
  BY <1>0, <1>26, DrawsUndisturbed DEF Reposted
<1>27. ASSUME NEW c \in Chats, Rebuilt(c) PROVE DrawInv'
  BY <1>0, <1>27, DrawsUndisturbed DEF Rebuilt
<1>28. ASSUME NEW c \in Chats, RebuildRefused(c) PROVE DrawInv'
  <2> DEFINE moved == [pc EXCEPT ![c] = "idle"]
  <2>1. moved \in [Actors -> PCs] /\ \A a \in Actors : moved[a] = pc[a] \/ a = c
    BY DEF PCs
  <2>2. Submit(snap[c], moved) /\ waits' = waits /\ pc[c] # "settling"
    BY <1>28 DEF RebuildRefused, GiveUp
  <2>3. \A a \in Actors : moved[a] = pc[a] \/ (a \notin Draws /\ waits[a] = {})
    BY <1>0, <2>1, <2>2
  <2>. HIDE DEF moved
  <2>. QED
    BY <2>1, <2>2, <2>3, SubmitDraws
<1>29. ASSUME NEW c \in Chats, RebuildAnswerLost(c) PROVE DrawInv'
  <2> DEFINE moved == [pc EXCEPT ![c] = "idle"]
  <2>1. moved \in [Actors -> PCs] /\ \A a \in Actors : moved[a] = pc[a] \/ a = c
    BY DEF PCs
  <2>2. Submit(snap[c], moved) /\ waits' = waits /\ pc[c] # "settling"
    BY <1>29 DEF RebuildAnswerLost, GiveUp
  <2>3. \A a \in Actors : moved[a] = pc[a] \/ (a \notin Draws /\ waits[a] = {})
    BY <1>0, <2>1, <2>2
  <2>. HIDE DEF moved
  <2>. QED
    BY <2>1, <2>2, <2>3, SubmitDraws
<1>30. ASSUME FeedCancelled PROVE DrawInv'
  <2>1. Stopped({Feed} \union waits[Feed]) /\ drawing' = drawing
    BY <1>30 DEF FeedCancelled
  <2> DEFINE dead == {Feed} \union waits[Feed]
  <2>2. /\ \A a \in Actors : pc'[a] = IF a \in dead THEN "idle" ELSE pc[a]
        /\ \A a \in Actors : waits'[a] = IF a \in dead THEN {} ELSE waits[a] \ dead
    BY <2>1 DEF Stopped
  <2>. HIDE DEF dead
  <2>3. \A a \in Actors : waits'[a] # {} => a \notin Draws /\ pc'[a] = "settling"
    <3> SUFFICES ASSUME NEW a \in Actors, waits'[a] # {}
                 PROVE  a \notin Draws /\ pc'[a] = "settling"
      OBVIOUS
    <3>1. a \notin dead
      BY <2>2
    <3>2. waits[a] # {}
      BY <2>2, <3>1, ZenonT(30)
    <3>. QED
      BY <2>2, <3>1, <3>2 DEF DrawInv
  <2>4. \A a \in Actors : \A x, y \in waits'[a] : x = y
    <3>1. ASSUME NEW a \in Actors, NEW x \in waits'[a] PROVE x \in waits[a]
      <4>1. waits'[a] = {} \/ waits'[a] = waits[a] \ dead
        BY <2>2
      <4>. QED
        BY <3>1, <4>1
    <3>. QED
      BY <3>1 DEF DrawInv
  <2>5. ASSUME NEW d \in Draws, pc'[d] # "idle", d \notin drawing
        PROVE  \E a \in Actors : d \in waits'[a]
    <3>1. pc[d] # "idle" /\ d \notin dead
      BY <2>2, <2>5 DEF PCs
    <3>2. PICK a \in Actors : d \in waits[a]
      BY <2>5, <3>1 DEF DrawInv
    <3>3. a \notin dead
      BY <3>1, <3>2 DEF DrawInv, dead
    <3>4. waits'[a] = waits[a] \ dead
      BY <2>2, <3>3
    <3>. QED
      BY <3>1, <3>2, <3>4
  <2>. QED
    BY <2>1, <2>3, <2>4, <2>5 DEF DrawInv
<1>31. ASSUME Crash PROVE DrawInv'
  <2>. QED
    BY <1>31 DEF Crash, Stopped, DrawInv
<1>. QED
  BY <1>1, <1>2, <1>3, <1>4, <1>5, <1>6, <1>7, <1>8, <1>9, <1>10, <1>11, <1>12, <1>13, <1>14,
       <1>15, <1>16, <1>17, <1>18, <1>19, <1>20, <1>21, <1>22, <1>23, <1>24, <1>25, <1>26, <1>27,
       <1>28, <1>29, <1>30, <1>31
     DEF Next, Feeding, Drawing, Writing, Absorbing, Answers

----------------------------------------------------------------------------
(* One coroutine runs, and there is a draw left. *)

\* Every step leaves one coroutine running at most.
LEMMA TurnStep ==
  ASSUME Typed, AtMostOne(turn), Next
  PROVE  AtMostOne(turn')
<1> USE DEF Typed, CoroutinesTyped
<1>1. ASSUME NEW a, turn' \subseteq {a} PROVE AtMostOne(turn')
  BY <1>1 DEF AtMostOne
<1>2. ASSUME Passing PROVE turn' = turn \/ \E a : turn' \subseteq {a}
  BY <1>2 DEF Passing, OrdinaryFrame, StartFrame, FinalFrame, FeedSettled, FeedRoundOver,
              DrawNext, DrawOver, RoundOver, Wake, Nudged, IntervalPasses, Offer, Settle, Finish
<1>3. ASSUME NEW a \in Writers, NEW c \in Chats, Visit(a, c)
      PROVE  turn' = turn \/ \E b : turn' \subseteq {b}
  BY <1>3 DEF Visit, Queue
<1>4. ASSUME NEW a \in Writers, Working(a) \/ Leaving(a)
      PROVE  turn' = turn \/ \E b : turn' \subseteq {b}
  BY <1>4 DEF Working, Write, Posted, Edited, Leaving, WriteNothing, Saved, WriteRefused,
              WriteAnswerLost, BackTo
<1>5. ASSUME NEW c \in Chats, LaneSettled(c) \/ WorkingLane(c) \/ LeavingLane(c)
      PROVE  turn' = turn \/ \E b : turn' \subseteq {b}
  BY <1>5 DEF LaneSettled, Queue, WorkingLane, Rebuild, CardDeleted, ForgetId, Reposted,
              LeavingLane, LaneTooLate, Rebuilt, RebuildRefused, RebuildAnswerLost
<1>6. ASSUME Stopping PROVE turn' = {}
  BY <1>6 DEF Stopping, FeedCancelled, Crash, Stopped
<1>7. turn' = turn \/ \E a : turn' \subseteq {a}
  BY <1>2, <1>3, <1>4, <1>5, <1>6, NextIsOneOf
<1>. QED
  BY <1>1, <1>7

\* The draws that are not idle and not the current one are waited for by different
\* coroutines, and one that may submit a frame waits for none: so one is left.
LEMMA SomeDrawIsLeft ==
  ASSUME Typed, Roles, DrawInv
  PROVE  DrawLeft
<1> USE LiveCardAssumption DEF Typed, CoroutinesTyped, Actors, Writers
<1>1. SUFFICES ASSUME NEW u \in {Feed} \union Chats, pc[u] \in {"idle", "deleting", "rebuilding"},
                      \A d \in Draws : d \notin drawing /\ pc[d] # "idle"
               PROVE  FALSE
  BY DEF DrawLeft
<1> DEFINE Waiters == ({Feed} \union Chats) \ {u}
           f == [d \in Draws |-> CHOOSE a \in Actors : d \in waits[a]]
<1>2. \A d \in Draws : \E a \in Actors : d \in waits[a]
  BY <1>1 DEF DrawInv
<1>3. \A d \in Draws : f[d] \in Actors /\ d \in waits[f[d]]
  BY <1>2
<1>4. \A d \in Draws : f[d] \in Waiters
  BY <1>1, <1>3 DEF DrawInv
<1>5. IsFiniteSet(Waiters) /\ Cardinality(Waiters) = Cardinality(Chats)
  <2> DEFINE T == Chats \union {Feed}
  <2>1. IsFiniteSet(T) /\ Cardinality(T) = Cardinality(Chats) + 1 /\ Cardinality(Chats) \in Nat
    BY FS_AddElement, FS_CardinalityType
  <2>2. u \in T /\ Waiters = T \ {u}
    OBVIOUS
  <2>. HIDE DEF T
  <2>3. IsFiniteSet(T \ {u}) /\ Cardinality(T \ {u}) = Cardinality(T) - 1
    BY <2>1, <2>2, FS_RemoveElement
  <2>4. Cardinality(T \ {u}) = Cardinality(Chats)
    BY <2>1, <2>3
  <2>. QED
    BY <2>2, <2>3, <2>4
<1>6. f \in [Draws -> Waiters]
  BY <1>4
<1> HIDE DEF f, Waiters
<1>7. PICK d \in Draws, e \in Draws : d # e /\ f[d] = f[e]
  BY <1>5, <1>6, FS_PigeonHole
<1>. QED
  BY <1>3, <1>7 DEF DrawInv

\* What has no two elements has at most one.
LEMMA AtMostOneIsCounted ==
  ASSUME NEW S, AtMostOne(S)
  PROVE  Cardinality(S) <= 1
<1>1. CASE S = {}
  BY <1>1, FS_EmptySet
<1>2. ASSUME NEW x \in S PROVE Cardinality(S) <= 1
  <2>1. S = {x}
    BY DEF AtMostOne
  <2>2. Cardinality({x}) = 1
    BY FS_Singleton
  <2>. QED
    BY <2>1, <2>2
<1>. QED
  BY <1>1, <1>2

----------------------------------------------------------------------------
(* What the invariant gives, and why it is one. *)

\* The invariant gives the properties.
LEMMA CardInvImplies ==
  ASSUME CardInv
  PROVE  TypeOK /\ OneCard /\ RowTellsTheTruth /\ StartReachesAll
<1> USE DEF CardInv
<1>1. TypeOK
  <2>1. OneAtATime
    BY AtMostOneIsCounted DEF OneAtATime, DrawInv, AtMostOne
  <2>. QED
    BY <2>1, SomeDrawIsLeft DEF TypeOK, Typed
<1>2. ASSUME NEW k \in Keys PROVE Cardinality(cards[k]) <= 1 + strays[k]
  <2> USE DEF Written
  <2>1. IsFiniteSet(cards[k]) /\ strays[k] \in Nat /\ Shown(k) \subseteq cards[k]
    BY DEF CardsOf, Typed, ChatTyped, Shown
  <2>2. CASE Shown(k) = {}
    <3>1. cards[k] \ Shown(k) = cards[k]
      BY <2>2
    <3>2. Cardinality(cards[k]) \in Nat
      BY <2>1, FS_CardinalityType
    <3>. QED
      BY <2>1, <3>1, <3>2 DEF CountOf
  <2>3. ASSUME NEW x \in Shown(k) PROVE Cardinality(cards[k]) <= 1 + strays[k]
    <3>1. Shown(k) = {x} /\ row[k].id > 0
      BY <2>1, <2>3 DEF Shown, CardsOf, Typed, ChatTyped
    <3>2. ~Midway(k)
      BY <3>1 DEF Midway, RowOf, HasPosted
    <3>3. Cardinality(cards[k] \ {x}) <= strays[k]
      <4>1. Cardinality(cards[k] \ Shown(k)) <= strays[k] + 0
        BY <3>2 DEF CountOf
      <4>. QED
        BY <2>1, <3>1, <4>1
    <3>4. Cardinality(cards[k] \ {x}) = Cardinality(cards[k]) - 1 /\ Cardinality(cards[k]) \in Nat
      BY <2>1, <2>3, FS_RemoveElement, FS_CardinalityType
    <3>. QED
      BY <2>1, <3>3, <3>4
  <2>. QED
    BY <2>2, <2>3
<1>3. RowTellsTheTruth
  BY DEF RowTellsTheTruth, Written, TruthOf, Named
<1>. QED
  BY <1>1, <1>2, <1>3 DEF OneCard

\* It holds at the start.
LEMMA InitCardInv ==
  ASSUME Init
  PROVE  CardInv
<1> USE LiveCardAssumption DEF Init
<1>1. NoRow \in Rows /\ NoSnap \in Snapshots
  BY DEF NoRow, Rows, NoSnap, Snapshots
<1>2. ChatTyped /\ MessengerTyped
  BY <1>1 DEF ChatTyped, MessengerTyped
<1>3. CoroutinesTyped /\ FeedTyped
  BY <1>1 DEF CoroutinesTyped, FeedTyped, PCs, Maps
<1>4. Roles /\ SnapsAreFrames /\ Lines
  BY DEF Roles, SnapsAreFrames, Shows, NoSnap, Lines, AllInLine, LineOf, Lined, Holding, Actors,
       Writers
<1>5. ASSUME NEW k \in Keys PROVE Written(k)
  <2>1. cards[k] = {} /\ lock[k] = {} /\ posted[k] = 0 /\ row[k] = NoRow /\ strays[k] = 0
    OBVIOUS
  <2>2. cards[k] \ Shown(k) = {}
    BY <2>1
  <2>3. Cardinality(cards[k] \ Shown(k)) = 0 /\ IsFiniteSet(cards[k])
    BY <2>1, <2>2, FS_EmptySet
  <2>4. CountOf(k)
    BY <2>1, <2>3 DEF CountOf
  <2>. QED
    BY <2>1, <2>3, <2>4 DEF Written, RowOf, CardsOf, TruthOf, Named, NoRow
<1>6. StartInv /\ StartReachesAll /\ DrawInv /\ AtMostOne(turn)
  BY DEF StartInv, StartReachesAll, DrawInv, AtMostOne, Actors, Writers
<1>. QED
  BY <1>2, <1>3, <1>4, <1>5, <1>6 DEF CardInv, Typed

\* Every step keeps it.
LEMMA NextCardInv ==
  ASSUME CardInv, [Next]_vars
  PROVE  CardInv'
<1>1. CASE Next
  <2> USE <1>1 DEF CardInv
  <2>1. Typed'
    BY MessengerStep, ChatStep, CoroutinesStep DEF Typed
  <2>2. Roles' /\ SnapsAreFrames'
    BY RolesStep, SnapsStep
  <2>3. Lines'
    BY KindStep, LineStep
  <2>4. \A k \in Keys : Written(k)'
    BY WrittenStep
  <2>5. StartInv' /\ StartReachesAll'
    BY StartStep
  <2>6. DrawInv' /\ AtMostOne(turn')
    BY DrawStep, TurnStep
  <2>. QED
    BY <2>1, <2>2, <2>3, <2>4, <2>5, <2>6 DEF AtMostOne
<1>2. CASE UNCHANGED vars
  <2> USE <1>2 DEF vars, chat, messenger, line, round, feed
  <2>1. Typed'
    BY DEF CardInv, Typed, ChatTyped, MessengerTyped, CoroutinesTyped, FeedTyped
  <2>2. Roles' /\ SnapsAreFrames'
    BY DEF CardInv, Roles, SnapsAreFrames, Shows
  <2>3. Lines'
    BY DEF CardInv, Lines, AllInLine, LineOf, KeyOf, ChatOf
  <2>4. ASSUME NEW k \in Keys PROVE Written(k)'
    <3>1. RowOf(k)'
      BY DEF CardInv, Written, RowOf
    <3>2. CardsOf(k)'
      BY DEF CardInv, Written, CardsOf, HasPosted, Shown, NewCard
    <3>3. CountOf(k)'
      BY DEF CardInv, Written, CountOf, Midway, HasPosted, Shown
    <3>4. TruthOf(k)'
      BY DEF CardInv, Written, TruthOf, Named, HasPosted, NewCard, EditedCard
    <3>. QED
      BY <3>1, <3>2, <3>3, <3>4 DEF Written
  <2>5. StartInv' /\ StartReachesAll' /\ DrawInv' /\ AtMostOne(turn)'
    BY DEF CardInv, StartInv, StartReachesAll, DrawInv, AtMostOne, Passed
  <2>. QED
    BY <2>1, <2>2, <2>3, <2>4, <2>5 DEF CardInv
<1>. QED
  BY <1>1, <1>2

\* Nobody with a frozen row gets into a call: a step leaves row and chat alone.
LEMMA FrozenStep ==
  ASSUME CardInv, Next, NEW k \in Keys, row[k].final
  PROVE  row'[k] = row[k] /\ cards'[k] = cards[k]
<1> USE DEF CardInv, Written
<1>1. ASSUME NEW a \in lock[k] PROVE pc[a] \notin Holding
  BY <1>1 DEF RowOf
<1>2. CASE Aside
  BY <1>2 DEF Aside, ChatSame
<1>3. ASSUME NEW a \in Actors, NEW j \in Keys, Joins(a, j)
      PROVE  row'[k] = row[k] /\ cards'[k] = cards[k]
  BY <1>3 DEF Joins, ChatSame
<1>4. ASSUME NEW a \in Writers, Working(a) \/ Leaving(a)
      PROVE  row'[k] = row[k] /\ cards'[k] = cards[k]
  <2>1. PICK j \in Keys : Works(a, j) \/ Leaves(a, j)
    BY <1>4, WorkingWorks, LeavingLeaves
  <2>2. CASE j # k
    BY <2>1, <2>2 DEF Works, Leaves, ChatSame
  <2>3. CASE j = k
    <3>1. pc[a] \notin Holding
      BY <1>1, <2>1, <2>3, WorkingAlone DEF Actors
    <3>2. CASE Write(a) \/ WriteNothing(a)
      BY <3>2 DEF Write, WriteNothing, chat
    <3>. QED
      BY <1>4, <3>1, <3>2
         DEF Working, Leaving, Posted, Edited, Saved, WriteRefused, WriteAnswerLost, Holding
  <2>. QED
    BY <2>2, <2>3
<1>5. ASSUME NEW c \in Chats, WorkingLane(c) \/ LeavingLane(c)
      PROVE  row'[k] = row[k] /\ cards'[k] = cards[k]
  <2>1. PICK j \in Keys : Works(c, j) \/ Leaves(c, j)
    BY <1>5, LaneWorks, LaneLeaves
  <2>2. CASE j # k
    BY <2>1, <2>2 DEF Works, Leaves, ChatSame
  <2>3. CASE j = k
    <3>1. pc[c] \notin Holding
      BY <1>1, <2>1, <2>3, WorkingAlone DEF Actors
    <3>2. CASE Rebuild(c) \/ LaneTooLate(c)
      BY <3>2 DEF Rebuild, LaneTooLate, chat
    <3>. QED
      BY <1>5, <3>1, <3>2 DEF WorkingLane, LeavingLane, CardDeleted, ForgetId, Reposted,
                               Rebuilt, RebuildRefused, RebuildAnswerLost, Holding
  <2>. QED
    BY <2>2, <2>3
<1>6. CASE Stopping
  BY <1>6, StoppingStops DEF Stops
<1>7. ASSUME NEW a \in Writers, NEW c \in Chats, Visit(a, c)
      PROVE  row'[k] = row[k] /\ cards'[k] = cards[k]
  BY <1>7 DEF Visit, chat
<1>8. ASSUME NEW c \in Chats, LaneSettled(c)
      PROVE  row'[k] = row[k] /\ cards'[k] = cards[k]
  BY <1>8 DEF LaneSettled, chat
<1>. QED
  BY <1>2, <1>4, <1>5, <1>6, <1>7, <1>8, NextIsOneOf, PassingIsAside

----------------------------------------------------------------------------
(* The results. *)

\* The invariant holds in every state.
THEOREM CardInvariant == Spec => []CardInv
BY InitCardInv, NextCardInv, PTL DEF Spec

\* Every variable keeps its type, one draw is the current one at most, one coroutine
\* runs between two awaits, and submit always finds a draw when it needs one.
THEOREM LiveCardTypeCorrect == Spec => []TypeOK
BY CardInvariant, CardInvImplies, PTL

\* A chat sees one card per map, save one for every id that could not be written down
\* (_update_one, absorb): the lock and the NULLed id rule a second one out.
THEOREM OnlyOneCard == Spec => []OneCard
BY CardInvariant, CardInvImplies, PTL

\* While nobody has a card's lock, the chat shows exactly what the row of
\* live_messages says, unless an answer of Telegram's was lost.
THEOREM RowIsTrue == Spec => []RowTellsTheTruth
BY CardInvariant, CardInvImplies, PTL

\* A map's start, once dealt with, has been seen on the card or goes through the
\* queue (_refresh_live_message, missed), in every chat.
THEOREM NoStartIsLost == Spec => []StartReachesAll
BY CardInvariant, CardInvImplies, PTL

\* The final score stays: no step changes a frozen row or its chat (finalize).
THEOREM FrozenRowsStay == Spec => FrozenStays
<1>1. ASSUME CardInv, [Next]_vars
      PROVE  [\A k \in Keys : row[k].final => row'[k] = row[k] /\ cards'[k] = cards[k]]_vars
  BY <1>1, FrozenStep
<1>. QED
  BY <1>1, CardInvariant, PTL DEF Spec, FrozenStays
====
