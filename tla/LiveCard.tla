------------------------------ MODULE LiveCard ------------------------------
(***************************************************************************)
(* The live card: one message per chat and map, edited as the map goes on. *)
(*   notify/live_message.py  LiveMessenger: update, submit, _settle, _draw,*)
(*                           absorb, _drop, _update_one, finalize          *)
(*   live_worker.py          _refresh_live_message, release, _retire       *)
(*   state/db.py             live_message, save_live_message,              *)
(*                           forget_live_message_id                        *)
(*                                                                         *)
(* Three kinds of coroutine write to a card: the feed (which writes the    *)
(* frames that start and end a map itself), background draws, and the      *)
(* queue's lane of each chat, which rebuilds the card with a milestone on  *)
(* top.  They share one event loop: a step goes from one await to the next,*)
(* and "turn" names the coroutine that has not reached its next await yet. *)
(*                                                                         *)
(* One match.  A score is the number of the frame that brought it: how it  *)
(* is worded, and who gets a card, are left out.                           *)
(***************************************************************************)
EXTENDS Naturals, FiniteSets

CONSTANTS
  Chats,       \* who has the card
  Draws,       \* background redraws that can be running at the same time
  LastMap,     \* maps of the match
  MaxFrames,   \* bound: frames of the feed
  MaxBanners,  \* bound: milestones offered to the card
  MaxTrouble   \* bound: refused calls, lost answers, cancels and crashes

Feed == "feed"

\* Draws are tasks, made as they are needed: there is always one more.
ASSUME LiveCardAssumption ==
  /\ IsFiniteSet(Chats) /\ Chats # {}
  /\ IsFiniteSet(Draws) /\ Cardinality(Draws) > Cardinality(Chats)
  /\ Draws \cap Chats = {} /\ Feed \notin Draws \union Chats
  /\ LastMap \in Nat \ {0} /\ MaxFrames \in Nat
  /\ MaxBanners \in Nat /\ MaxTrouble \in Nat

Writers == Draws \union {Feed}
Actors == Writers \union Chats
Maps == 1..LastMap
Keys == Chats \X Maps

\* What a frame shows: its number (0: there is none), its map, and whether the
\* map is still warming up.
Snapshots == [n : 0..MaxFrames, map : 0..LastMap, warm : BOOLEAN]
NoSnap == [n |-> 0, map |-> 0, warm |-> FALSE]

\* A row of live_messages: the message id (0 for NULL), the score and the banner
\* of the last text, and the freeze.  With n = 0 there is no row.
NoRow == [id |-> 0, n |-> 0, b |-> 0, final |-> FALSE]

VARIABLES
  row,       \* table live_messages
  cards,     \* the card's messages one can see in the chat: [id, n, b]
  latest,    \* _latest
  pending,   \* _pending
  drawing,   \* _drawing: at most one task
  held,      \* _held: the cards the throttle has skipped
  asleep,    \* the cards whose interval a sleeping draw waits out
  fresh,     \* _last_edit is less than the interval ago
  lock,      \* _moving: who holds or awaits a card's lock
  ahead,     \* whom a coroutine awaits it behind; the holder, nobody
  pc,        \* where each coroutine is
  snap,      \* the snapshot it is writing
  at,        \* the chat it is writing to
  left,      \* the chats its round has not come to yet
  waits,     \* the draw it is waiting for in _settle
  banner,    \* the milestone a lane is handing over
  turn,      \* the coroutine between two awaits, if any
  mode,      \* what the feed is writing: a map's start or its end
  missed,    \* chats the start has not reached
  frames,    \* frames so far
  map,       \* the map being played
  begun,     \* maps of which a frame past the warmup has come
  ended,     \* maps whose end the feed has seen
  resent,    \* map starts sent through the queue instead
  offered,   \* milestones so far
  posted,    \* history: messages ever posted; Telegram's last id
  newest,    \* history: the newest score the chat has been shown
  strays,    \* history: cards whose id was never saved
  hurt,      \* history: something was done that is not known to have been
  announced, \* history: maps whose start has been dealt with
  trouble    \* how many things have gone wrong

chat      == <<row, cards, posted, newest, strays, hurt>>
messenger == <<latest, pending, drawing, held, fresh>>
round     == <<snap, at, left, banner, asleep>>
feed      == <<mode, missed, frames, map, begun, ended, resent, announced>>
line      == <<lock, ahead>>
vars == <<chat, messenger, line, pc, round, waits, turn, feed, offered, trouble>>

ChatOf(a) == IF a \in Chats THEN a ELSE at[a]
KeyOf(a) == <<ChatOf(a), snap[a].map>>
GoesWrong == trouble < MaxTrouble /\ trouble' = trouble + 1

\* a goes on, or is resumed while nothing else runs.
Runs(a) == turn \subseteq {a}
Quiet == turn = {}

----------------------------------------------------------------------------
Init ==
  /\ row = [k \in Keys |-> NoRow]
  /\ cards = [k \in Keys |-> {}]
  /\ latest = NoSnap
  /\ pending = NoSnap
  /\ drawing = {}
  /\ held = {}
  /\ asleep = [d \in Draws |-> {}]
  /\ fresh = [k \in Keys |-> FALSE]
  /\ lock = [k \in Keys |-> {}]
  /\ ahead = [a \in Actors |-> {}]
  /\ pc = [a \in Actors |-> "idle"]
  /\ snap = [a \in Actors |-> NoSnap]
  /\ at = [a \in Writers |-> CHOOSE c \in Chats : TRUE]
  /\ left = [a \in Writers |-> {}]
  /\ waits = [a \in Actors |-> {}]
  /\ banner = [c \in Chats |-> 0]
  /\ turn = {}
  /\ mode = "start"
  /\ missed = {}
  /\ frames = 0
  /\ map = 1
  /\ begun = {}
  /\ ended = {}
  /\ resent = {}
  /\ offered = 0
  /\ posted = [k \in Keys |-> 0]
  /\ newest = [k \in Keys |-> 0]
  /\ strays = [k \in Keys |-> 0]
  /\ hurt = {}
  /\ announced = {}
  /\ trouble = 0

----------------------------------------------------------------------------
\* Helpers of the messenger.

\* submit: s is the frame to draw, by the draw that runs or by a new one.
\* moved is pc after the caller's own step.
Submit(s, moved) ==
  /\ latest' = s
  /\ pending' = s
  /\ IF \E d \in drawing : pc[d] # "idle"
       THEN pc' = moved /\ UNCHANGED drawing
       ELSE \E d \in Draws :
              /\ pc[d] = "idle"
              /\ drawing' = {d}
              /\ pc' = [moved EXCEPT ![d] = "looping"]

\* _settle, up to its await: what waits to be drawn is dropped, a draw asleep
\* is told to stop, and a waits for the draw that is running.
Settle(a) ==
  /\ pending' = NoSnap
  /\ drawing' = {}
  /\ waits' = [waits EXCEPT ![a] = {d \in drawing : pc[d] # "idle"}]
  /\ pc' = [b \in Actors |->
              IF b = a THEN "settling"
              ELSE IF b \in Draws /\ pc[b] = "sleeping" THEN "nudged"
              ELSE pc[b]]
  /\ turn' = IF \E d \in drawing : pc[d] # "idle" THEN {} ELSE {a}

\* The draw d returns.
Finish(d) ==
  /\ pc' = [pc EXCEPT ![d] = "idle"]
  /\ waits' = [a \in Actors |-> waits[a] \ {d}]
  /\ turn' = {}

\* a asks for its card's lock; if it is free, a goes on at once.
Queue(a, k) ==
  /\ lock' = [lock EXCEPT ![k] = @ \union {a}]
  /\ ahead' = [ahead EXCEPT ![a] = lock[k]]
  /\ pc' = [pc EXCEPT ![a] = "queued"]
  /\ turn' = IF lock[k] = {} THEN {a} ELSE {}

\* Mutant: nobody waits for the lock.
NoLock(a) == pc[a] = "queued" /\ Runs(a)

\* The lock is a's: from here on the row is read again.
Locked(a) ==
  /\ pc[a] = "queued"
  /\ Runs(a)
  /\ ahead[a] = {}

\* a lets go of the lock: those behind it move up.
Release(a) ==
  /\ lock' = [lock EXCEPT ![KeyOf(a)] = @ \ {a}]
  /\ ahead' = [b \in Actors |-> ahead[b] \ {a}]

\* Telegram posts a card, saying n under the banner b.
Post(k, n, b) ==
  /\ posted' = [posted EXCEPT ![k] = @ + 1]
  /\ cards' = [cards EXCEPT ![k] = @ \union {[id |-> posted[k] + 1, n |-> n, b |-> b]}]
  /\ newest' = [newest EXCEPT ![k] = IF n > @ THEN n ELSE @]
  /\ UNCHANGED <<row, strays, hurt>>

----------------------------------------------------------------------------
\* The feed.

\* A frame of the map m, the current or the next one.
NewFrame(m, s) ==
  /\ Quiet /\ pc[Feed] = "idle"
  /\ frames < MaxFrames
  /\ frames' = frames + 1
  /\ m \in Maps /\ m \in {map, map + 1}
  /\ map' = m
  /\ s \in [n : {frames + 1}, map : {m}, warm : BOOLEAN]

Begins(s) == begun' = IF s.warm THEN begun ELSE begun \union {s.map}

\* An ordinary frame: handed over and not waited for.
OrdinaryFrame(m, s) ==
  /\ NewFrame(m, s)
  /\ Begins(s)
  /\ Submit(s, pc)
  /\ UNCHANGED <<chat, held, fresh, line, round, waits, turn, mode, missed,
                 ended, resent, announced, offered, trouble>>

\* The frame that starts the map, its first one past the warmup, or the one that
\* ends it: the feed settles the draws and then writes the cards itself.
StartFrame(m, s) ==
  /\ NewFrame(m, s)
  /\ ~s.warm /\ m \notin begun
  /\ Begins(s)
  /\ mode' = "start"
  /\ latest' = s
  /\ snap' = [snap EXCEPT ![Feed] = s]
  /\ Settle(Feed)
  /\ UNCHANGED <<chat, held, fresh, line, at, left, banner, asleep, missed, ended,
                 resent, announced, offered, trouble>>

FinalFrame(m, s) ==
  /\ NewFrame(m, s)
  /\ ~s.warm /\ m \notin ended
  /\ ended' = ended \union {m}
  /\ Begins(s)
  /\ mode' = "final"
  /\ latest' = s
  /\ snap' = [snap EXCEPT ![Feed] = s]
  /\ Settle(Feed)
  /\ UNCHANGED <<chat, held, fresh, line, at, left, banner, asleep, missed,
                 resent, announced, offered, trouble>>

\* The draw the feed waited for is over: its own round begins.
FeedSettled ==
  /\ Runs(Feed) /\ pc[Feed] = "settling" /\ waits[Feed] = {}
  /\ pc' = [pc EXCEPT ![Feed] = "visiting"]
  /\ left' = [left EXCEPT ![Feed] = Chats]
  /\ turn' = {Feed}
  /\ UNCHANGED <<chat, messenger, line, snap, at, banner, asleep, waits, feed, offered, trouble>>

\* The round is over: the chats the start has missed get it through the queue.
FeedRoundOver ==
  /\ Runs(Feed) /\ pc[Feed] = "visiting" /\ left[Feed] = {}
  /\ pc' = [pc EXCEPT ![Feed] = "idle"]
  /\ turn' = {}
  /\ resent' = resent \union missed
  /\ missed' = {}
  /\ announced' = IF mode = "start" THEN announced \union {snap[Feed].map} ELSE announced
  /\ UNCHANGED <<chat, messenger, line, round, waits, mode, frames, map, begun,
                 ended, offered, trouble>>

----------------------------------------------------------------------------
\* The background draw.

\* The next round: the newest frame that waits, or nothing more to do.
DrawNext(d) ==
  /\ Runs(d) /\ pc[d] = "looping" /\ pending.n > 0
  /\ pending' = NoSnap
  /\ held' = {}
  /\ latest' = pending
  /\ snap' = [snap EXCEPT ![d] = pending]
  /\ left' = [left EXCEPT ![d] = Chats]
  /\ pc' = [pc EXCEPT ![d] = "visiting"]
  /\ turn' = {d}
  /\ UNCHANGED <<chat, drawing, fresh, line, at, banner, asleep, waits, feed, offered, trouble>>

DrawOver(d) ==
  /\ Runs(d) /\ pc[d] = "looping" /\ pending.n = 0
  /\ Finish(d)
  /\ UNCHANGED <<chat, messenger, line, round, feed, offered, trouble>>

\* Mutant: a skipped frame is dropped.
RoundDone(d) ==
  /\ Runs(d) /\ pc[d] = "visiting" /\ left[d] = {}
  /\ held' = {}
  /\ pc' = [pc EXCEPT ![d] = "looping"] /\ turn' = {d} /\ UNCHANGED waits
  /\ UNCHANGED <<chat, latest, pending, drawing, fresh, line, round, feed, offered, trouble>>

\* After a round: go on, stop if somebody settled this draw, or sleep out the
\* interval of a frame that was skipped.
RoundOver(d) ==
  /\ Runs(d) /\ pc[d] = "visiting" /\ left[d] = {}
  /\ held' = {}
  /\ \/ /\ held = {} \/ pending.n > 0
        /\ pc' = [pc EXCEPT ![d] = "looping"] /\ turn' = {d}
        /\ UNCHANGED <<waits, asleep>>
     \/ /\ held # {} /\ pending.n = 0 /\ d \notin drawing
        /\ Finish(d)
        /\ UNCHANGED asleep
     \/ /\ held # {} /\ pending.n = 0 /\ d \in drawing
        /\ asleep' = [asleep EXCEPT ![d] = held]
        /\ pc' = [pc EXCEPT ![d] = "sleeping"] /\ turn' = {}
        /\ UNCHANGED waits
  /\ UNCHANGED <<chat, latest, pending, drawing, fresh, line, snap, at, left,
                 banner, feed, offered, trouble>>

\* The interval is out: the frame is drawn after all, if there is no newer one.
Wake(d) ==
  /\ Quiet /\ pc[d] = "sleeping"
  /\ \A k \in asleep[d] : ~fresh[k]
  /\ pending' = IF pending.n = 0 THEN snap[d] ELSE pending
  /\ asleep' = [asleep EXCEPT ![d] = {}]
  /\ pc' = [pc EXCEPT ![d] = "looping"]
  /\ turn' = {d}
  /\ UNCHANGED <<chat, latest, drawing, held, fresh, line, snap, at, left, banner,
                 waits, feed, offered, trouble>>

\* Somebody who writes the card themselves has told the draw to stop.
Nudged(d) ==
  /\ Quiet /\ pc[d] = "nudged"
  /\ Finish(d)
  /\ asleep' = [asleep EXCEPT ![d] = {}]
  /\ UNCHANGED <<chat, messenger, line, snap, at, left, banner, feed, offered, trouble>>

\* Time goes by for the throttle.
IntervalPasses(k) ==
  /\ Quiet /\ fresh[k]
  /\ fresh' = [fresh EXCEPT ![k] = FALSE]
  /\ UNCHANGED <<chat, latest, pending, drawing, held, line, pc, round, waits,
                 turn, feed, offered, trouble>>

----------------------------------------------------------------------------
\* A writer's visit to one chat: _update_one.

\* The throttle applies to edits, and not to the final one.
Throttled(a, k) == row[k].n > 0 /\ fresh[k] /\ ~(a = Feed /\ mode = "final")

\* A card is not opened during the warmup.
TooEarly(a, k) == row[k].n = 0 /\ snap[a].warm

\* Mutant: it is noted for the chat, whatever the map.
MissesChat(a, k) ==
  missed' = IF a = Feed /\ mode = "start" THEN missed \union {k[1]} ELSE missed

\* Mutant: a failed visit counts as one that went well.
NotesNothing(a, k) == UNCHANGED missed

\* The visit came to nothing: the start has not reached the chat.
Misses(a, k) == missed' = IF a = Feed /\ mode = "start" THEN missed \union {k} ELSE missed

\* On to the next chat.
BackTo(a) == pc' = [pc EXCEPT ![a] = "visiting"] /\ turn' = {a}

Visit(a, c) ==
  LET k == <<c, snap[a].map>> IN
  /\ Runs(a) /\ pc[a] = "visiting" /\ c \in left[a]
  /\ left' = [left EXCEPT ![a] = @ \ {c}]
  /\ at' = [at EXCEPT ![a] = c]
  /\ \/ /\ row[k].final
        /\ UNCHANGED <<missed, held, line, pc, turn>>
     \/ /\ ~row[k].final /\ TooEarly(a, k)
        /\ Misses(a, k)
        /\ UNCHANGED <<held, line, pc, turn>>
     \/ /\ ~row[k].final /\ ~TooEarly(a, k) /\ Throttled(a, k)
        /\ held' = held \union {k}
        /\ UNCHANGED <<missed, line, pc, turn>>
     \/ /\ ~row[k].final /\ ~TooEarly(a, k) /\ ~Throttled(a, k)
        /\ Queue(a, k)
        /\ UNCHANGED <<missed, held>>
  /\ UNCHANGED <<chat, latest, pending, drawing, fresh, snap, banner, asleep, waits,
                 mode, frames, map, begun, ended, resent, announced,
                 offered, trouble>>

\* The text is what the card says already, and this is not the final edit.
Unchanged(a, k) ==
  row[k].id > 0 /\ row[k].n = snap[a].n /\ ~(a = Feed /\ mode = "final")

\* Mutant: the freeze is not looked at again under the lock.
MustWriteFrozen(a, k) == ~Unchanged(a, k)

MustWrite(a, k) == ~row[k].final /\ ~Unchanged(a, k)

\* Under the lock there is nothing to write after all.
WriteNothing(a) ==
  LET k == KeyOf(a) IN
  /\ Locked(a)
  /\ ~MustWrite(a, k)
  /\ fresh' = IF row[k].final THEN fresh ELSE [fresh EXCEPT ![k] = TRUE]
  /\ Release(a) /\ BackTo(a)
  /\ UNCHANGED <<chat, latest, pending, drawing, held, round, waits, feed, offered, trouble>>

\* The call goes out: an edit, or a new message when the row has no id.
Write(a) ==
  LET k == KeyOf(a) IN
  /\ Locked(a)
  /\ MustWrite(a, k)
  /\ pc' = [pc EXCEPT ![a] = IF row[k].id = 0 THEN "sending" ELSE "editing"]
  /\ turn' = {}
  /\ UNCHANGED <<chat, messenger, line, round, waits, feed, offered, trouble>>

Posted(a) ==
  /\ Quiet /\ pc[a] = "sending"
  /\ Post(KeyOf(a), snap[a].n, row[KeyOf(a)].b)
  /\ pc' = [pc EXCEPT ![a] = "sent"]
  /\ UNCHANGED <<messenger, line, round, waits, turn, feed, offered, trouble>>

\* The message the row names, where it still exists.
Shown(k) == {card \in cards[k] : card.id = row[k].id}

Edited(a) ==
  LET k == KeyOf(a)
      card == [id |-> row[k].id, n |-> snap[a].n, b |-> row[k].b] IN
  /\ Quiet /\ pc[a] = "editing"
  /\ Shown(k) # {}
  /\ cards' = [cards EXCEPT ![k] = (@ \ Shown(k)) \union {card}]
  /\ newest' = [newest EXCEPT ![k] = IF card.n > @ THEN card.n ELSE @]
  /\ pc' = [pc EXCEPT ![a] = "edited"]
  /\ UNCHANGED <<row, posted, strays, hurt, messenger, line, round, waits, turn,
                 feed, offered, trouble>>

\* The answer is here: the row is saved.
Saved(a) ==
  LET k == KeyOf(a) IN
  /\ Quiet /\ pc[a] \in {"sent", "edited"}
  /\ row' = [row EXCEPT ![k] =
       [id |-> IF pc[a] = "sent" THEN posted[k] ELSE @.id,
        n |-> snap[a].n, b |-> @.b, final |-> a = Feed /\ mode = "final"]]
  /\ fresh' = [fresh EXCEPT ![k] = TRUE]
  /\ Release(a) /\ BackTo(a)
  /\ UNCHANGED <<cards, posted, newest, strays, hurt, latest, pending, drawing,
                 held, round, waits, feed, offered, trouble>>

\* Telegram refuses; an edit of a message that is gone it refuses every time.
WriteRefused(a) ==
  LET k == KeyOf(a) IN
  /\ Quiet /\ pc[a] \in {"sending", "editing"}
  /\ IF pc[a] = "editing" /\ Shown(k) = {} THEN UNCHANGED trouble ELSE GoesWrong
  /\ fresh' = [fresh EXCEPT ![k] = TRUE]
  /\ Misses(a, k)
  /\ Release(a) /\ BackTo(a)
  /\ UNCHANGED <<chat, latest, pending, drawing, held, round, waits, mode, frames,
                 map, begun, ended, resent, announced, offered>>

\* It was done, but the answer is lost: nothing is saved.
WriteAnswerLost(a) ==
  LET k == KeyOf(a) IN
  /\ Quiet /\ pc[a] \in {"sent", "edited"}
  /\ GoesWrong
  /\ fresh' = [fresh EXCEPT ![k] = TRUE]
  /\ strays' = [strays EXCEPT ![k] = IF pc[a] = "sent" THEN @ + 1 ELSE @]
  /\ hurt' = hurt \union {k}
  /\ Misses(a, k)
  /\ Release(a) /\ BackTo(a)
  /\ UNCHANGED <<row, cards, posted, newest, latest, pending, drawing, held, round,
                 waits, mode, frames, map, begun, ended, resent, announced, offered>>

----------------------------------------------------------------------------
\* The queue hands over a milestone of the map m: absorb.

\* There is a snapshot of that map in memory; without one the milestone goes
\* out as a message of its own and the card is not touched.  A map has its first
\* milestone after it has begun.
Offer(c, m) ==
  /\ Quiet /\ pc[c] = "idle"
  /\ offered < MaxBanners
  /\ offered' = offered + 1
  /\ m \in begun
  /\ latest.n > 0 /\ latest.map = m
  /\ snap' = [snap EXCEPT ![c] = latest]
  /\ banner' = [banner EXCEPT ![c] = offered + 1]
  /\ Settle(c)
  /\ UNCHANGED <<chat, latest, held, fresh, line, at, left, asleep, feed, trouble>>

LaneSettled(c) ==
  /\ Runs(c) /\ pc[c] = "settling" /\ waits[c] = {}
  /\ Queue(c, KeyOf(c))
  /\ UNCHANGED <<chat, messenger, round, waits, feed, offered, trouble>>

\* The card is frozen: not this way.
LaneTooLate(c) ==
  /\ Locked(c)
  /\ row[KeyOf(c)].final
  /\ Release(c)
  /\ pc' = [pc EXCEPT ![c] = "idle"] /\ turn' = {}
  /\ UNCHANGED <<chat, messenger, round, waits, feed, offered, trouble>>

\* The old card is deleted first, if there is one.
Rebuild(c) ==
  /\ Locked(c)
  /\ ~row[KeyOf(c)].final
  /\ pc' = [pc EXCEPT ![c] = IF row[KeyOf(c)].id > 0 THEN "deleting" ELSE "rebuilding"]
  /\ turn' = {}
  /\ UNCHANGED <<chat, messenger, line, round, waits, feed, offered, trouble>>

CardDeleted(c) ==
  LET k == KeyOf(c) IN
  /\ Quiet /\ pc[c] = "deleting"
  /\ Shown(k) # {}
  /\ cards' = [cards EXCEPT ![k] = @ \ Shown(k)]
  /\ pc' = [pc EXCEPT ![c] = "deleted"]
  /\ UNCHANGED <<row, posted, newest, strays, hurt, messenger, line, round, waits,
                 turn, feed, offered, trouble>>

\* Mutant: the id of the deleted message is kept.
RemembersId(c) ==
  /\ Quiet /\ pc[c] = "deleted"
  /\ pc' = [pc EXCEPT ![c] = "rebuilding"]
  /\ UNCHANGED <<chat, messenger, line, round, waits, turn, feed, offered, trouble>>

\* The message is gone, and that is written down before anything is sent.
ForgetId(c) ==
  /\ Quiet /\ pc[c] = "deleted"
  /\ row' = [row EXCEPT ![KeyOf(c)].id = 0]
  /\ pc' = [pc EXCEPT ![c] = "rebuilding"]
  /\ UNCHANGED <<cards, posted, newest, strays, hurt, messenger, line, round, waits,
                 turn, feed, offered, trouble>>

Reposted(c) ==
  /\ Quiet /\ pc[c] = "rebuilding"
  /\ Post(KeyOf(c), snap[c].n, banner[c])
  /\ pc' = [pc EXCEPT ![c] = "reposted"]
  /\ UNCHANGED <<messenger, line, round, waits, turn, feed, offered, trouble>>

Rebuilt(c) ==
  LET k == KeyOf(c) IN
  /\ Quiet /\ pc[c] = "reposted"
  /\ row' = [row EXCEPT ![k] =
       [id |-> posted[k], n |-> snap[c].n, b |-> banner[c], final |-> FALSE]]
  /\ fresh' = [fresh EXCEPT ![k] = TRUE]
  /\ Release(c)
  /\ pc' = [pc EXCEPT ![c] = "idle"]
  /\ UNCHANGED <<cards, posted, newest, strays, hurt, latest, pending, drawing, held,
                 round, waits, turn, feed, offered, trouble>>

\* Mutant: the lock is not let go of.
KeepsLock(c) ==
  /\ pc[c] \in {"deleting", "deleted", "rebuilding", "reposted"}
  /\ Submit(snap[c], [pc EXCEPT ![c] = "idle"])
  /\ UNCHANGED line

\* Not this way: the frame that _settle dropped goes back to the draws.
GiveUp(c) ==
  /\ pc[c] \in {"deleting", "deleted", "rebuilding", "reposted"}
  /\ Submit(snap[c], [pc EXCEPT ![c] = "idle"])
  /\ Release(c)

\* The card could not be deleted, or not be sent again.
RebuildRefused(c) ==
  LET k == KeyOf(c) IN
  /\ Quiet /\ pc[c] \in {"deleting", "rebuilding"}
  /\ IF pc[c] = "deleting" /\ Shown(k) = {} THEN UNCHANGED trouble ELSE GoesWrong
  /\ fresh' = IF pc[c] = "rebuilding" THEN [fresh EXCEPT ![k] = FALSE] ELSE fresh
  /\ GiveUp(c)
  /\ UNCHANGED <<chat, held, round, waits, turn, feed, offered>>

\* The same to absorb, but it was done and only the answer is lost.
RebuildAnswerLost(c) ==
  LET k == KeyOf(c) IN
  /\ Quiet /\ pc[c] \in {"deleted", "reposted"}
  /\ GoesWrong
  /\ fresh' = IF pc[c] = "reposted" THEN [fresh EXCEPT ![k] = FALSE] ELSE fresh
  /\ strays' = [strays EXCEPT ![k] = IF pc[c] = "reposted" THEN @ + 1 ELSE @]
  /\ hurt' = hurt \union {k}
  /\ GiveUp(c)
  /\ UNCHANGED <<row, cards, posted, newest, held, round, waits, turn, feed, offered>>

----------------------------------------------------------------------------
\* Cancels and crashes.

\* The coroutines in dead stop where they are.
Stopped(dead) ==
  /\ pc' = [a \in Actors |-> IF a \in dead THEN "idle" ELSE pc[a]]
  /\ waits' = [a \in Actors |-> IF a \in dead THEN {} ELSE waits[a] \ dead]
  /\ lock' = [k \in Keys |-> lock[k] \ dead]
  /\ ahead' = [a \in Actors |-> IF a \in dead THEN {} ELSE ahead[a] \ dead]
  /\ strays' = [k \in Keys |-> strays[k] +
       Cardinality({a \in dead : pc[a] \in {"sent", "reposted"} /\ KeyOf(a) = k})]
  /\ hurt' = hurt \union {KeyOf(a) : a \in
       {b \in dead : pc[b] \in {"sent", "edited", "deleted", "reposted"}}}
  /\ missed' = IF Feed \in dead THEN {} ELSE missed
  /\ turn' = {}

\* The worker is released and its two seconds are over: the feed is cancelled
\* in an await, and the draw it is waiting for with it.
FeedCancelled ==
  /\ Quiet /\ pc[Feed] # "idle"
  /\ GoesWrong
  /\ Stopped({Feed} \union waits[Feed])
  /\ UNCHANGED <<row, cards, posted, newest, messenger, round, mode, frames, map,
                 begun, ended, resent, announced, offered>>

\* The process dies and is started again.
Crash ==
  /\ GoesWrong
  /\ Stopped(Actors)
  /\ latest' = NoSnap /\ pending' = NoSnap
  /\ drawing' = {} /\ held' = {}
  /\ fresh' = [k \in Keys |-> FALSE]
  /\ UNCHANGED <<row, cards, posted, newest, round, mode, frames, map, begun,
                 ended, resent, announced, offered>>

----------------------------------------------------------------------------
Writing(a) ==
  \/ \E c \in Chats : Visit(a, c)
  \/ WriteNothing(a) \/ Write(a) \/ Saved(a)
Drawing(d) ==
  DrawNext(d) \/ DrawOver(d) \/ RoundOver(d) \/ Wake(d) \/ Nudged(d) \/ Writing(d)
Feeding == FeedSettled \/ FeedRoundOver \/ Writing(Feed)
Absorbing(c) ==
  LaneSettled(c) \/ LaneTooLate(c) \/ Rebuild(c) \/ ForgetId(c) \/ Rebuilt(c)

\* Telegram does what it was asked, or refuses.
Answers(a) ==
  IF a \in Chats THEN CardDeleted(a) \/ Reposted(a) \/ RebuildRefused(a)
                 ELSE Posted(a) \/ Edited(a) \/ WriteRefused(a)

Next ==
  \/ \E m \in Maps, s \in Snapshots :
       OrdinaryFrame(m, s) \/ StartFrame(m, s) \/ FinalFrame(m, s)
  \/ Feeding
  \/ \E d \in Draws : Drawing(d)
  \/ \E c \in Chats : Absorbing(c) \/ \E m \in Maps : Offer(c, m)
  \/ \E a \in Actors : Answers(a)
  \/ \E a \in Writers : WriteAnswerLost(a)
  \/ \E c \in Chats : RebuildAnswerLost(c)
  \/ \E k \in Keys : IntervalPasses(k)
  \/ FeedCancelled \/ Crash

Spec == Init /\ [][Next]_vars

\* The event loop runs whatever can run, calls to Telegram end, and intervals
\* pass.  Nothing is assumed of the feed, the queue, or what goes wrong.
Fairness ==
  /\ WF_vars(Feeding)
  /\ \A d \in Draws : WF_vars(Drawing(d))
  /\ \A c \in Chats : WF_vars(Absorbing(c))
  /\ \A a \in Actors : WF_vars(Answers(a))
  /\ \A k \in Keys : WF_vars(IntervalPasses(k))

FairSpec == Spec /\ Fairness
----------------------------------------------------------------------------
(* Properties *)

Rows == [id : Nat, n : 0..MaxFrames, b : 0..MaxBanners, final : BOOLEAN]
Card == [id : Nat, n : 1..MaxFrames, b : 0..MaxBanners]

PCs == {"idle", "settling", "visiting", "queued", "sending", "sent", "editing",
        "edited", "looping", "sleeping", "nudged", "deleting", "deleted",
        "rebuilding", "reposted"}

ChatTyped ==
  /\ row \in [Keys -> Rows] /\ cards \in [Keys -> SUBSET Card]
  /\ posted \in [Keys -> Nat] /\ newest \in [Keys -> 0..MaxFrames]
  /\ strays \in [Keys -> Nat] /\ hurt \subseteq Keys

MessengerTyped ==
  /\ latest \in Snapshots /\ pending \in Snapshots
  /\ drawing \subseteq Draws /\ held \subseteq Keys
  /\ asleep \in [Draws -> SUBSET Keys] /\ fresh \in [Keys -> BOOLEAN]

CoroutinesTyped ==
  /\ lock \in [Keys -> SUBSET Actors] /\ ahead \in [Actors -> SUBSET Actors]
  /\ pc \in [Actors -> PCs] /\ snap \in [Actors -> Snapshots]
  /\ at \in [Writers -> Chats] /\ left \in [Writers -> SUBSET Chats]
  /\ waits \in [Actors -> SUBSET Draws] /\ banner \in [Chats -> 0..MaxBanners]
  /\ turn \subseteq Actors

FeedTyped ==
  /\ mode \in {"start", "final"}
  /\ missed \subseteq Keys /\ resent \subseteq Keys
  /\ begun \subseteq Maps /\ ended \subseteq Maps /\ announced \subseteq Maps
  /\ frames \in 0..MaxFrames /\ map \in Maps
  /\ offered \in 0..MaxBanners /\ trouble \in 0..MaxTrouble

\* At most one draw is the current one, and one coroutine runs.
OneAtATime == Cardinality(drawing) <= 1 /\ Cardinality(turn) <= 1

\* Draws has a task left whenever submit may need one.
DrawLeft ==
  (pc[Feed] = "idle" \/ \E c \in Chats : pc[c] \in {"deleting", "rebuilding"}) =>
    \E d \in Draws : d \in drawing \/ pc[d] = "idle"

TypeOK ==
  ChatTyped /\ MessengerTyped /\ CoroutinesTyped /\ FeedTyped /\ OneAtATime /\ DrawLeft

\* One card per chat and map.  A second one has an excuse: a card that was
\* posted while its id could not be saved, because the answer was lost or the
\* coroutine was cancelled or killed in the middle of the call.
OneCard == \A k \in Keys : Cardinality(cards[k]) <= 1 + strays[k]

\* Between two writes the row tells the truth: the card is the message it names,
\* with the text it says, and where it names none there is no card -- whoever of
\* the feed, the draws and the queue has been at it, and whatever was refused.
RowTellsTheTruth ==
  \A k \in Keys : lock[k] = {} /\ k \notin hurt =>
    cards[k] = IF row[k].id = 0 THEN {}
                 ELSE {[id |-> row[k].id, n |-> row[k].n, b |-> row[k].b]}

\* The final score stays: once the row is frozen nobody touches it or the chat.
FrozenStays ==
  [][\A k \in Keys : row[k].final => row'[k] = row[k] /\ cards'[k] = cards[k]]_vars

\* A map's start is never lost on the way: when the feed is done with it, every
\* chat has seen the card that carries it or gets it through the queue.
StartReachesAll ==
  \A m \in announced, c \in Chats : posted[<<c, m>>] > 0 \/ <<c, m>> \in resent

\* The feed is never stuck behind the cards: a start or an end that it writes
\* itself is over at some point, whatever the draws and the queue are doing.
FeedGoesOn == pc[Feed] # "idle" ~> pc[Feed] = "idle"

\* The card of k has shown the score i, or need not: a newer frame came, the map
\* is over, or a call went wrong.
ShowsOrNeedNot(k, i) ==
  newest[k] >= i \/ frames > i \/ row[k].final \/ trouble > 0

\* The frame s is in hand: it waits to be drawn, or the feed writes it itself.
InHand(s) == pending = s \/ (pc[Feed] # "idle" /\ snap[Feed] = s)

\* A milestone takes the frame i from the chat c: its _settle drops what waits for any
\* chat, and the draw it waits for drops what it finds waiting.  Only c's own milestone
\* with the score i makes up for it: it brings that score itself.
TakesFrame(c, i) ==
  \E b \in Chats : pc[b] = "settling" /\ snap[b].n \in 1..(IF b = c THEN i - 1 ELSE i)

\* Only a milestone loses a frame: a score that the messenger has in hand reaches every
\* chat's card, through the throttle, the sleep of a draw, the feed's own writing and the
\* locks, unless a milestone settles the draws then or later.
UndisturbedFrameReachesAll ==
  \A c \in Chats, m \in Maps, i \in 1..MaxFrames :
    InHand([n |-> i, map |-> m, warm |-> FALSE]) ~>
      ShowsOrNeedNot(<<c, m>>, i) \/ TakesFrame(c, i)

\* A frame the throttle skips is drawn at the trailing edge
\* (docs/architecture.md:723): the last frame before the feed falls silent
\* reaches every chat that has the card.
LastFrameReachesAll ==
  \A c \in Chats, m \in Maps, i \in 1..MaxFrames :
    latest = [n |-> i, map |-> m, warm |-> FALSE] ~> ShowsOrNeedNot(<<c, m>>, i)

\* "The card deletes itself and comes back with the milestone on top and the
\* score as of now" (notify/outbox.py:366): no card says less than its chat has
\* been shown.
NeverGoesBack ==
  \A k \in Keys : k \notin hurt => \A card \in cards[k] : card.n = newest[k]
=============================================================================
