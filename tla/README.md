# HLTV notifier: formal models

The service watches HLTV for the matches of tracked teams and tells Telegram
subscribers about them. This directory holds TLA+ models of its parts, the
TLC configurations that check them on small instances, and proofs checked by
TLAPS. Paths are relative to `src/hltv_notify/`.

## 1. Inventory

| part | state | operations | hard behaviour | what makes it correct |
|---|---|---|---|---|
| Journal and queue (`notify/outbox.py`, `state/db.py`) | tables `sent_events`, `outbox`; `_arrived` | `enqueue`, passes, batches, one coroutine per chat, retry, final pass | crash between send and mark, lost answers, a lane that dies, deadline, cancel on shutdown | at most once unless an answer is lost; nothing dropped; order within a chat; no lost wake-up; everything settles |
| Live card (`notify/live_message.py`) | table `live_messages`; `_pending`, `_latest`, `_drawing`, `_held`, `_nudge`, `_moving`, `_last_edit` | `submit`, `_draw`, `update`, `finalize`, `absorb` | three kinds of coroutine write to one message; throttle; delete and re-send; cancel in a call | one card per map and chat; the row says what the chat shows; the final score stays; the start reaches everyone; the last frame is drawn |
| Telegram client (`notify/telegram.py`) | the pacing gate | send, edit, delete | refused for now or for good, done but unanswered | (external) |
| Live worker, supervisor (`live_worker.py`) | a task, a stop event per match; retiring tasks; the held map start | `ensure`, `release`, `_retire`, `reconcile`, `_consume` | two workers of one match; a cancel in an await; a start held in memory | one feed per live match; nothing held is lost |
| Live machine (`state/live_machine.py`) | `match_state` memos, `map_results` | `apply` a frame: E4, E5, E6, E7, E11, E12, E13 | repeated, reordered and partial frames; the page says the same in parallel | each milestone once, in order; a finished match stays finished |
| Match machine (`state/match_machine.py`) | the same rows, and when something last moved | `apply` a page: E4, E6, E7, E8 | the feed runs ahead of the page, or the page ahead of the feed; a feed that goes silent | the same; the stall alarm means blindness |
| Schedule machine (`state/machine.py`) | table `matches` | `apply` a team page: E1, E2, E3; debounce; disappeared matches | a time that flips back; a match that disappears and returns | every move announced once; no live match dropped |
| Scores (`scoring.py`) | none | overtime number, completed map, decided series | 12:12, 15:15, two-map series | agrees with the rules played round by round |
| Pollers (`scheduler.py`, `match_poller.py`) | next poll times, wake flags | rounds, forced rounds, modes | a wake-up during a round; one match failing | every active match polled; a forced round happens |
| Watchdog (`watchdog.py`) | counters, alarm keys in `meta` | report success/failure, check the queue | repeated alarms, recovery, keys used again | one alarm per episode, one recovery per alarm |
| Reminders, digest (`reminders.py`, `digest.py`) | `reminders`, `digest_times` | due ones, catch-up window | restart, moved match, zones, a clock that is moved | each once, for the time that holds |
| Highlights (`state/highlights.py`, `round_history.py`, `comeback.py`) | the round log in memory | per-round kills, clutches, comebacks | replayed and truncated logs | each round once, with all its kills |
| Audience, settings (`notify/audience.py`, `settings.py`, `bot.py`) | `subscribers`, `team_mutes`, `subscriber_settings` | who gets what | pause, mutes, two tracked teams in a match | nobody muted is told; nobody entitled is left out |
| Retention (`state/db.py`) | all tables | `prune`, migrations | a key pruned while the event can still come | no event twice because its key is gone |

How they interact: the pollers feed team and match pages to the machines, the
supervisor runs one live worker per running match, which feeds frames to the
live machine. The machines return events; their callers give them to
`Notifier.enqueue`, which writes journal and queue in one transaction per
recipient. The queue worker delivers, one coroutine per chat; milestones of a
map are offered to the live card first (`absorb`), which the worker's frames
redraw at the same time. Everything runs on one asyncio event loop and one
SQLite connection in autocommit mode: a step is what happens between two
awaits, and a crash leaves whatever was written.

The hazards, each at its line and with the properties that watch over it, are
listed in `PROJECT.json`.

## 2. Plan

1. `Outbox` with `NotifyPromise` and `OutboxProofs`: what everything else
   relies on. *Done.*
2. `LiveCard` with `LiveCardProofs`: the most concurrent part. *Done.*
3. `Scoring` and `MapScore` with `MapScoreProofs`: the score rules and the
   messages that hang on them, against a map played round by round. *Done.*
   `MatchLife` with `MatchLifeProofs`: live machine and match machine on the
   same rows. *Done.*
4. `Schedule` with `ScheduleProofs`: team pages, moved and disappeared matches,
   polling, reminders. *Done.* `Stall`: the match page of a match with no feed.
   *Done.*
5. `Watchdog` and `Feeds` (supervisor, workers, the end of the service). *Done.*
6. `Highlights` and `Story` with `RoundsProofs`: what is told of a round and of
   a map, against the map as it was played. *Done.*
7. `Subscribers` with `SubscribersProofs`: who a message is for. *Done.*
   `Digests`: the digest of one reader. *Done.*

No module declares a `RECURSIVE` operator, so that all of them can be proved
about. `MCMatchLife` and `MCService` run components that share nothing side by
side; `MatchLifeProofs` holds the proofs about `MatchLife` and `Feeds`,
`ServiceProofs` those about `Watchdog`, `Stall` and `Digests`, and each those about
its composition. Every invariant and every action property of the
passing runs is proved; what is only model-checked is named at the end of section 5.

## 3. The modules and the code

### NotifyPromise

What the queue owes to whoever enqueues: a notification is accepted once, shown
only while it is owed, and settled by having been shown or by a refusal for
good; nothing appears after that. `PSettled` says that nothing stays owed.

### Outbox

A key `<<c, e>>` is one event for one chat, the journal's idempotency key and,
because both are written in one transaction, the identity of the queue row.

| model | code |
|---|---|
| `journal`; `status`, `rowid`, `attempts`, `wait`, `lastId` | tables `sent_events`; `outbox` with its state, id, attempts and `next_attempt_utc` |
| `worker`, `stopping`, `arrived`, `todo`, `lanes`, `more`, `handled`, `call` | where `Notifier.run` is, the stop event, `_arrived`, the batch read last, and what each `_deliver` is waiting for |
| `Record`, `RecordInterrupted` | `enqueue`: one transaction per recipient, and the same with a later recipient's write failing |
| `StartPass`, `ReadMore`, `PassOver`, `StartFinalPass`, `Deadline` | `run`, `_drain` |
| `Begin` ... `RefusedForGood`, `LaneDies` | `_drain_chat`, `_deliver`, `absorb` as `_deliver` sees it; a database error in a chat's coroutine |
| `Stop`, `Exit`, `Crash`, `Boot` | `__main__.run` |

`copies`, `doubts`, `fatal`, `unread` and `trouble` are history: how often a
message is in the chat, how often it was and the database did not get to know,
what Telegram refused for good, whether something was queued since the last
read, and the count of mishaps.

Abstracted: time is "the next attempt has come round or not"; which chats an
event is for is nondeterministic; the semaphore over chats and Telegram's pacing
are covered by every interleaving of the chats. Left out: `DRY_RUN`, `prune` (it
deletes sent rows and old keys) and the texts.

### LiveCard

One match. A score is the number of the frame that brought it.

| model | code |
|---|---|
| `row` | table `live_messages`: message id (0 is NULL), last text (frame and banner), `final` |
| `latest`, `pending`, `drawing`, `held`, `fresh` | `_latest`, `_pending`, `_drawing`, `_held`, the age of `_last_edit` |
| `lock`, `ahead` | `_moving`: who holds or awaits the lock of a card, and whom a coroutine awaits it behind (`asyncio.Lock` is first come, first served) |
| `pc`, `snap`, `at`, `left`, `waits`, `asleep`, `banner`, `turn` | where each coroutine is and what it is writing; `turn` names the one that has not reached its next await yet, as all of them share one event loop |
| `cards` | what one can see in the chat |
| `OrdinaryFrame`, `StartFrame`, `FinalFrame`, `FeedSettled`, `FeedRoundOver` | `_refresh_live_message` with `submit`, `update(map_started=True)`, `finalize`, and the start that the missed chats get through the queue |
| `DrawNext`, `DrawOver`, `RoundOver`, `Wake`, `Nudged` | `_draw` |
| `Visit`, `WriteNothing`, `Write`, `Posted`, `Edited`, `Saved`, `WriteRefused`, `WriteAnswerLost` | `_update_one` |
| `Offer`, `LaneSettled`, `LaneTooLate`, `Rebuild`, `CardDeleted`, `ForgetId`, `Reposted`, `Rebuilt`, `RebuildRefused`, `RebuildAnswerLost` | `absorb`, `_drop` |
| `FeedCancelled`, `Crash` | `_retire` cancelling a worker in an await; the end of the process |

Abstracted: who has the card is fixed (its switch, pauses and mutes are not
modelled), `close()` is one of the crashes, and a milestone that is refused for
good by the card goes out as an ordinary message, which is `Outbox`'s.
`CHECK_DEADLOCK FALSE`: the feed and the milestones are bounded, so the system
stops when both are used up.

### Scoring

The functions of `scoring.py` as operators, name for name. They have no state;
`MapScore` and `MatchLife` use them where the machines do.

### MapScore

One map, twice. `section`, `took` and `over` are the game: regulation time or an
overtime is a section that is won with more than half of its rounds or else
ends level and is followed by another; `score` is what the frames carry. The
machine sees only `score` and the format.

| model | code |
|---|---|
| `Round` | the game (external) |
| `Frame` | `LiveMachine.apply` on a frame past the warmup: `map_completed`, else `_event_e12` and `_event_e11` |
| `HalfKeys`, `OvertimeKeys`, `PointKeys`, `Said` | the conditions, idempotency keys and overtime numbers of E12, E13 and E11 |
| `announced`, `told`, `recorded` | `_announced`, `sent_events`, the row in `map_results` |
| `wants`, `Change`, `Restart` | the lowest threshold in use, read on every frame; a worker that starts with an empty `_announced` |

`meant` and `noticed` are history: which moment of the game each message was
about, and which moments a frame has shown. Frames may be missed: `noticed`
holds only what was shown.

### MatchLife

One match and the two machines that tell it. `now` is the position of the game:
0 before it, then warmup, first round, later rounds and over for every map;
`winners` are the maps' winners, which stand for their scores.

| model | code |
|---|---|
| `Frame(p)` | `LiveMachine.apply` and the enqueueing in `_consume`, for a frame of the present position or the one before; frames of a recorded map return early and change nothing |
| `Page(d, bad, named)` | `_poll_match`: `MatchMachine.apply`, the enqueueing, and the release of the feed when the page does not say LIVE; the page shows `d` decided maps, those in `bad` with a wrong score |
| `BringUp`, `Disconnect`, `Silence` | `ensure`; `release`, `_retire` and lost connections; a phase older than `FEED_PHASE_FRESH_SECONDS` |
| `state`, `pageSeen`, `knowsFormat`, `memo`, `warming` | columns of `match_state`: `state`, `page_seen_utc`, `best_of`, `live_map_name`, and `live_round_state` with `live_frame_utc` |
| `lineup`, `pending`, `results`, `told` | the lineup and `start_event:<match>` in `meta`; `map_results`; the keys in `sent_events` |

Neither machine awaits anything, but every write commits by itself and the
events are enqueued after the machine has returned: `Lives` picks how many of
these the process lives to do, `lost` keeps the events that were not reached.
`met`, `misnumbered` and `lost` are history for the exceptions of the
properties. Abstracted: a wrong score is one that changes the winner; names and
format appear on the page together; the page does not go back to an older state
than it has shown. Highlights, broadcasts, the stall alarm and the schedule
machine's writes to `state` are left out. `CHECK_DEADLOCK FALSE` in both: a map
and a match end.

### Schedule

Teams, matches and the times a match may have. `truth` is when HLTV means to
play, `page` what the page of each team says: pages follow on their own and may
contradict each other.

| model | code |
|---|---|
| `row`, `links`, `booted`, `told` | `matches` with `match_state`; `match_teams`; the bootstrapped keys; `sent_events` |
| `phase`, `todo`, `force`, `nextPoll` | where `SchedulePoller.run` is, the teams left in its round, the flag of `request_poll`, the end of its wait |
| `rechecked`, `reminded` | `MatchPoller._start_rechecked`; the reminder loop's last look |
| `StartRound`, `PollTeam`, `EndRound`, `RequestPoll` | `run`, `poll_once` with a page that fails alone, `current_mode` and `interval_for`, `/check` |
| `Apply` with `EntryRow`, `Moved`, `VanishedRow` and the events | `ScheduleMachine.apply`: `_apply_entry`, `_check_time_change`, `_settle`, `_detect_disappeared` |
| `PollMatch`, `NoticeMovedStart`, `PageMode` | a poll of a match page: its state, the second look at the schedule it asks for, the mode of the loop |
| `Remind` | `ReminderScheduler.due` |

`unread` and `shown` are history: the teams not read since a poll was asked for;
since when the pages read have said the same, and when one dropped the match
since. A page shows other matches
besides this one, so that an empty page, which the parser refuses, does not
occur; names and links of an entry are left out.

### Watchdog

The keys of the four subsystems are disjoint, so one of them is watched.

| model | code |
|---|---|
| `since`, `alerted` | `degraded_since:` and `degraded_alerted:` in `meta` |
| `ReportFailure`, `ReportSuccess`, `Record` | the methods of these names, and their caller giving the event to the queue, which the process may not live to do |
| `Delay`, `Decisive`, `NormalDelay` | `urgency`, `_match_urgency`, `normal_delay` |
| `CheckPages`, `CheckLiveFeed`, `CheckOutbox` | the pollers' reports, `check_live_feed`, `check_outbox` every minute |
| `Enqueue`, `Deliver`, `TelegramTurns` | the queue, as much of it as `oldest_pending_utc` sees |

`outage` is history: since when every check has failed.

### Feeds

The supervisor's tables are keyed by match, so there is one match.

| model | code |
|---|---|
| `table`, `retiring` | `_tasks`, `_workers` and `_stops`; `_retiring` |
| `stage`, `stop`, `ready`, `polls` | the await a worker is in, its stop event, the client's `_ready`, what is left of the wait for packet 40 |
| `held`, `awaiting` | `_map_started`, `_awaiting_start_message` |
| `begun`, `finished` | the maps whose start and whose end the machine has seen: `live_map_name`, `map_results` |
| `Reconcile`, `Ensure`, `ReleaseWorker`, `Retire` | the match poller's `_reconcile_live_feed`; `ensure`, `release`, `_retire` |
| `Signal`, `Shutdown`, `Closed` | the end of `__main__.run`: the loops are cancelled, `shutdown` collects and waits, the store is closed |
| `Connect`, `Subscribe`, `Break`, `Leave`, `Reconnect` | `LiveWorker.run` and `ScorebotClient` |
| `FeedFrame` with `Readings`, `Pending`, `Keeps`, `Refresh` | `_consume`: what the machine sees in a frame, the start that waits for the opening message, and `_refresh_live_message` |
| `NextMap`, `OpeningSent` | the match; the queue |

A frame does not ask for the stop flag: `_consume` looks at it before a poll, and
what that poll brings is still applied. The frame that ends a map freezes the
cards and makes no use of a start, held or its own (`Refresh`).

`born`, `startsTold`, `forfeited` and `unused` are history: map starts that were
announced, those of them that were given to the card or the queue, those whose
worker was stopped or that the next map replaced, and those that were there when
the final frame came. The live message is switched on.

### Highlights and Story

Both play the map beside the code, and their properties hold what is told
against what was played; frames may be missing anywhere.

| model | code |
|---|---|
| `tracker`, `Observe`, `Track`, `Watch`, `Settled`, `Due`, `Report` | `RoundTracker`: `observe` and what it calls |
| `Highlight`, `reports` | `_highlights_for_team`, the journal |
| `SeeFrame`, `Forget` | a frame of the worker; a worker that starts anew |
| `history`, `ObserveHistory`, `Summary` | `round_history.observe` on the row in `meta`, `summary` |
| `swings`, `ObserveSwings`, `Verdict` | `ComebackTracker.observe`, `verdict` |
| `WarmupKill` ... `Freeze`; `RoundWon`, `Reset` | the game (external) |

Left out: the sides of the history's halves, and which player of two is named
first.

### Subscribers

| model | code |
|---|---|
| `env` | the chats of `.env`: whether there is a whitelist, who is on it, the main chat |
| `known`, `enabled`, `paused`, `following`, `muted`, `setting`, `matchTeams` | tables `subscribers`, `teams`, `subscriber_settings`, `match_teams` |
| `Start`, `Revoke`, `NewStart` | `__main__.run` before the tasks |
| `Pause`, `Follow`, `Untrack`, `Mute`, `Settings` | the commands and buttons that change a row |
| `Audience`, `ServiceAudience`, `Recipients`, `Only`, `Wants` | `notify/audience.py`, `Notifier._recipients`, `_wants` |
| `trackers`, `FirstFrame`, `AnotherMap`, `RoundTo` | the bars `_tracker` reads once for each map, and what a round comes to |
| `rows`, `Addressed`, `Delivered` | table `outbox`, as the chats for whom something waits in it; `enqueue`, which asks who reads, and `_deliver`, which does not ask again |

`leftover` is history: the chats for whom something waits that was queued before
their pause or before the last start. Retries, order and copies are `Outbox`'s.

### Stall

The page of one running match with a feed that comes and goes.

| model | code |
|---|---|
| `progress` | `match_state.progress_hash`, `progress_since_utc` |
| `CheckStall`, `StartsAfresh`, `Patience` | `MatchMachine._check_stall` |
| `ReadPage` | a round of `MatchPoller.run`, with the wait that `_mode_for` picks for a running match; the page may not be read |
| `alarms` | E8 in `sent_events`: its key has the page's signature |

`moved`, `turned` and `fed` are history: when the page changed last, when the
feed last came or went, and when it was last up, of the times it was up longer
than `LongestWait`, the longer of the loop's two waits.

### Digests

| model | code |
|---|---|
| `Wall`, `Date`, `TimeOfDay` | `_local`: the reader's clock, shifted by `/tz` and by the season |
| `DueNow`, `IsDue`, `Key`, `Enqueued` | `due`, the key of E14, the journal |
| `Attend`, `AttendInPart`, `Stopped`, `Restarted` | `DigestScheduler.run`, whole, failing between two events, or ended |
| `Toggle`, `ClockJumps` | buttons and commands, matches that come and go; `/tz` and daylight saving |

`passed` is history: when the reader's clock last showed a slot.

### MCMatchLife and MCService

Two compositions: `MCMatchLife` of `MatchLife`, `Feeds` and `Story`; `MCService` of
`MapScore` (its formats are in `MCMapScore`), `Watchdog`, `Highlights`, `Subscribers`,
`Stall` and `Digests`. Within each they
keep disjoint state, and a product of them would show nothing more: `part`, fixed in
the initial state, says which one moves, and the others rest in one initial state
each (up to the names of the chats, which are symmetric in `MCService`).

## 4. What the runs show

| run | instance | shows |
|---|---|---|
| `outbox` | 2 chats (symmetric), 2 events, batches of 2 and 2 rows a pass, 2 attempts, 1 mishap | at most one copy beyond the lost answers; nothing dropped; journal and queue agree; only a refused message is overtaken; no lost wake-up; every step is one `NotifyPromise` allows |
| `outbox_delivery` | 1 chat, 2 events, batches of 1, 3 mishaps | what is owed is settled |
| `outbox_order` (violation) | 1 chat, 2 events, 1 mishap | a refused message is overtaken |
| `livecard` | 1 chat, 2 draws, 3 frames, 1 milestone, 1 mishap | one card per map and chat, a row that tells the truth, a start that reaches everyone, a final score that stays; the feed is never stuck |
| `livecard_frames` | 2 chats, 3 draws, 2 frames, 1 milestone, no mishap | a score in hand reaches every chat, unless a milestone settles the draws |
| `livecard_back` (violation) | 1 chat, no mishap | a milestone takes the card back to an older score |
| `livecard_silence` (violation) | 2 chats, no mishap | a milestone in one chat costs another chat the last frame |
| `service` | six components, one moving at a time: | |
| - score | formats of 1 to 3 rounds a half and overtime half, and 12/3; 2 overtimes; 1 setting changed or restart | the score alone gives the verdict, the overtime and the rounds still to win; each half, overtime and map point wanted and shown is told, once, with its overtime |
| - watchdog | schedule, feed and queue; 5 minutes; 1 kill | an outage that lasts is reported, each one anew; a recovery follows an alarm |
| - highlights | 2 players, 2 opponents, 2 rounds, 1 restart | no highlight is invented |
| - subscribers | 2 chats (symmetric), 2 teams, limit 1, 2 commands, 1 restart | nobody who asked is left out; whoever is paused or removed gets only what was queued before |
| - stall | 9 minutes, 1 round, 1 page that fails | the stall alarm is blindness, and blindness is told |
| - digests | days of 6, an hour of 2, slots at the first and the last hour, 2 zones, daylight saving, 2 changes | a digest comes within its hour, and once a day |
| `matchlife` | three components, one moving at a time: | |
| - the two machines | a series of three maps, 1 mishap (a wrong page or a process killed between two writes) | a result once per map, none missing, no early end, the true end in the end, the start before all |
| - feeds | 2 workers, 2 maps, 3 looks of the poller, 1 fault | one worker that goes on; none left when the store is closed; a start that waits is kept or accounted for |
| - story | 4 rounds, 1 reset, 1 restart | no round of the history and no comeback is invented |
| `matchlife_start` (violation) | the two machines without mishaps | the start is told in the warmup at the page's first LIVE |
| `schedule` | 2 teams, 1 match, 4 times, 8 minutes, 2 mishaps | no request is slept on; a move is told when it was held; the reminder is for the time that holds; pages that agree are believed |
| `watchdog_stuck` (violation) | the queue alone | a second episode of a stuck queue is silent |

### Bounds

*Outbox.* Two rows of one chat are what ordering needs, two chats what lanes and
a dying neighbour need, and a batch of two with two rows a pass makes a batch
both full and split, so that `ReadMore`, `PassOver` with rows left and the end of
a pass by its limit all happen. `MaxAttempts = 2` reaches the hour's wait on the
second refusal. One mishap suffices to duplicate, overtake or lose; the delivery
run takes three so that a row meets a refusal, the hour and a crash in one
history. The proofs of section 5 hold for all values, here and below.

*LiveCard.* Draws are tasks, made as they are needed, so that there must always
be one more than can be in use: a draw that was replaced while still in a call has
somebody in `_settle` waiting for it, the feed or a chat, and each waits for one.
`LiveCardAssumption` therefore asks for more draws than chats (two with one chat,
three with two), and `DrawLeft`, a part of `TypeOK`, says that this is enough.
Three frames let one be drawn, one be overtaken and one end the map. Chats meet only
in the draws and in `_settle`, which are per match: the runs about these, `livecard_frames` and `livecard_silence`, have two.
With two chats a milestone of one meets a frame that the throttle holds for the
other, and two frames are the one that makes the throttle run and the one it holds.

*MapScore (in `service`).* The short formats put the half, the map point and the overtime on
the same scores (with one round a half the first round is both half time and map
point); 12/3 is what HLTV sends. Two overtimes are the first with a predecessor
of its own kind. The proofs hold for every format and any number of overtimes.

*MatchLife.* Three maps are the least with a map that may be missed between two
others and a series that ends before its last map. The first map is ours: the
sides are alike. One mishap of either kind; two add no new kind of state a single
one does not leave behind.


*Schedule.* Two teams are what contradiction needs, and one match, as the rows
of matches do not touch; the four times hold a shift too small to tell, a move
within the window, and two that are worth holding. Eight minutes are four
debounces. Edits come early (`LastEdit`) or at the slot itself, so that what they
lead to is seen.

*Watchdog.* Five minutes hold an outage as long as the normal delay and another
after it; scores at 4 and 12 are neither, one or both sides near the end.
*Feeds.* Two workers are the one in the table and one retiring; a third would be
another retiring one, and the proof has any number. Three looks stop a match and
start it again while the first worker retires; with two maps a held start may be
replaced. *Highlights.* A round played
to its end and the next, which carries its late kills. *Story.* Halves of one
round, so that overtime comes too. *Subscribers.* A chat that is changed and one
that must not suffer; two commands are a pause and its end, a mute and a bar, or a
team and its limit. A chat may switch multikills off or clutches on, and mute
results; higher bars are in the proof.
*Stall.* Long enough for the stretched patience, a feed before it and the
readings after it. *Digests.* Two days, with slots on both sides of midnight.

### Fairness

`FairSpec` of `Outbox` and `LiveCard` assumes that the event loop runs what can
run, that a call to Telegram ends (it has a timeout, `telegram.py` 71-76), that
due times come and, for the queue, that the service is started again after it has
ended (`Boot`; `restart: unless-stopped` in `docker-compose.yml`). Nothing is
assumed of the producers, the feed, the stop signal or what goes wrong; mishaps
are bounded by `MaxTrouble`, so that Telegram does not refuse for ever.

`ScheduleFairness` assumes that time passes and that the schedule loop and the
reminders run, which never end by themselves (`scheduler.py` 73-101 catches what
a round raises). HLTV owes nothing: no page need ever follow the truth.
`AgreedTimeIsStored` speaks of the end of time, and the clock stops at `Horizon`:
what has agreed early enough must be stored by then, so that the bound makes the
property stronger and not weaker.

### Findings

Five sentences of the repository are not what the code does: see `findings` in
`PROJECT.json`.
- `outbox_order`: "within a chat nothing overtakes anything". After a refusal
  the lane goes on with the next row. What does hold is `OvertakesOnlyRefused`.
- `livecard_back`: a card "comes back with ... the score as of now". `absorb`
  takes its snapshot before it waits for the draw; the draw may show a newer one.
- `livecard_silence`: a skipped frame is "drawn at the trailing edge, not
  dropped". `_settle` drops it for all chats, and a successful `absorb` hands
  nothing back. Nor is it only other chats' milestones: one that was taken with an
  older score waits for a draw which, being replaced, takes the newer frame and
  drops it for the throttle. What does hold is `UndisturbedFrameReachesAll`: without
  a milestone that settles the draws (`TakesFrame`) no score is lost.
- `matchlife_start`: E4 is told "not when the match page says LIVE" but with the
  first round, if the feed reports a warmup. The feed is brought up by the very
  poll that asks, so that it is never connected in time. What does hold is
  `StartIsToldFirst`.
- `watchdog_stuck`: "a new failure is reported afresh". A queue that drains and
  fills between two checks keeps the start of its first episode, which is in the
  alarm's key. Of the other subsystems it does hold: `OutageIsReported`.

Others are left without a run:
- The comment where a map start is held says that it "must not be lost while it
  waits" (`live_worker.py` 134-136). The frame that ends the map freezes the card
  and returns (167-169), and a start that is still held then, or that this very
  frame brought, is cleared (141): it is neither on a card as a start nor queued for
  those without a card. `HeldStartIsKept` therefore excepts it (`unused`).
- The answer to `/pause` is "Notifications will neither arrive nor pile up"
  (`bot.py` 926; `docs/operations.md` 296-298 and the repository's README, 592, say
  the same), and of a chat off the whitelist `docs/operations.md` 393-394 says that
  a start "switches its delivery off". Only `enqueue` asks who reads; `_deliver`
  sends what the queue has (`outbox.py` 355-399), an hour's back-off later too.
  `OnlyLeftoversForTheSilent` is what holds: it is never more than was queued before.
- The docstring of `_map_events` says that a corrected score "will not lead to
  silence", but a map that is recorded is skipped, whatever its score.
- `comeback.py` 22-24 says a comeback is "never invented"; its extremes survive a
  score that starts anew on the same map (`ComebackHappened` without the condition
  `resets = 0`).
- The team button "on" does not ask for the team limit (`bot.py` 535-565), whose
  docstring (682-684) says that each way of tracking does.
- `known-limitations.md` 444-450 says that when the clock is moved a digest comes
  an hour off. One whose slot is the first minute of the hour that is skipped does
  not come at all: at 03:00 its hour has just ended. `DigestComesOnce` therefore
  promises a digest only for a slot the reader's clock has shown.
- `match_machine.py` 234-236 keeps the stall timer from running while a feed is
  up, lest the alarm fire as soon as it goes. The page is only read once a wait,
  so that the alarm may come sooner after the feed than the threshold, by one
  wait; `POLL_LIVE_SECONDS` and `POLL_LIVE_WITH_FEED_SECONDS` are set
  independently (`config.py` 96-98), so it is the longer of the two.

## 5. What is proved

Every invariant and every action property that a passing run checks is a theorem
of its specification, for all values of the constants that the module's
assumption allows: all bounds, sizes, delays and numbers of mishaps. The
assumptions say that sets are finite where they are counted and that sizes and
times are naturals, positive where the code divides by them or would not move;
those that say more are named below. In each case the property is not inductive,
and most of the work is the invariant that is.

### `OutboxProofs`

`TypeOK`, `NoUnexcusedCopy`, `NothingDropped`, `JournalAndQueueAgree`,
`OvertakesOnlyRefused`, `NoLostWakeup`, and that the queue implements
`NotifyPromise!PSafe`. `QueueInv` adds what they rest on:
- `Discipline`: rows in hand are pending and due and there is a pass, and a row
  with a call is its chat's next one;
- `Accounts`: the tables and the history agree: a journaled key has a row with an
  id up to `lastId`, a key that is not journaled was never shown, a row that
  waits has been refused, and a message taken by Telegram is in the chat;
- `NothingLeftBehind`: a due, never refused row in front of one in hand is in
  hand itself. `OvertakesOnlyRefused` needs it: a batch is a prefix of the due
  rows (`BatchIsPrefix`), and only a refusal takes a row out of it.

`NoLostWakeup` has an invariant of its own, `FlagIsSet`. The refinement follows
from `QueueInv`: each action maps to one action of the promise or a stutter.

### `LiveCardProofs`

`TypeOK`, `OneCard`, `RowTellsTheTruth`, `StartReachesAll`, `FrozenStays`, from
one invariant, `CardInv`:
- `Lines`: whoever is in a card's line is behind or in front of each other one,
  and who is in a call has nobody ahead. Hence whoever writes is alone
  (`WorkingAlone`), and all other facts can speak of the one at work;
- `RowOf`: what he read of the row before his call is still so after it, so that
  a row that is frozen has nobody writing to it;
- `CardsOf`, `CountOf`: message ids are Telegram's, each posted once, and a card
  beyond the one the row names is just being saved or is one of the strays;
- `TruthOf`: the chat is what the row says, changed by what the one at work has
  done, unless something was cut off;
- `StartInv`: a start that is being written has reached the chats it has come by,
  or they are among the missed;
- `DrawInv`: a draw that was replaced has somebody waiting for it, and everybody
  waits for one. From this a draw is always left (`DrawLeft`), which is why
  `LiveCardAssumption` asks for more draws than chats: `asyncio.create_task` does
  not run out of tasks.

The lock is a set of coroutines with an order (`ahead`) and not a sequence: a
crash or a cancel takes anybody out of the line, and the proof needs only who is
in front of whom.

### `MatchLifeProofs`

*MatchLife*: `TypeOK`, `OneResultPerMap`, `ResultsAreTold`, `EndIsNotEarly`,
`StartIsToldFirst`, `EndIsTold`, for a series of any length. `LifeInv`:
- `Numbered`: a row's number is its map's or a lower one, no map has two, and
  without a lineup there is no gap. The number the live machine gives
  (`_map_number`: the lineup's, or how many rows there are and one) is therefore
  free (`NumberIsFree`): that a result is told once rests on it;
- `ResultsAreTrue` and `MatchTyped`: unless a page was wrong, a row names the
  winner of its map, and no shorter series was over. Then rows that decide the
  series mean that it is decided (`EndIsNotEarly`);
- `ToldInv`, `NewsIsTold`: what was told has its row, what is a row and was news
  has been told or was lost with the process, and the start came before.

`lost`, `misnumbered` and `misreads` are the exceptions, and the invariant says
that there are no others.

*Feeds*: `OneWorkerPerMatch`, `ShutdownLeavesNobody`, `HeldStartIsKept`, for
any number of workers. A start that was announced is held by one worker or is
accounted for (`Starts`, `OneHolder`), which each frame keeps, the final one
included (`FrameKeepsStarts`). `FeedsInv` adds what the shutdown rests on: once the
loops are cancelled nobody calls `ensure`, and a worker that still runs is
among those gathered.

`MCIsItsParts` says that a behaviour of the `matchlife` run satisfies the
specification of each of its components, because the others rest. `MCTypeOK` joins the
type invariants of the three, each a theorem (`LifeTypeCorrect`, `FeedsTypeCorrect`, and
`StoryTypeCorrect` in `RoundsProofs`).

### `MapScoreProofs`

The three properties of `MapScore`. The score alone carries no sections, so
`GameInv` puts them back: both sides' scores are a common `Base`, what the
sections before brought, plus the rounds of this one, in which nobody has won and
not both have reached its half. With `Quotient` that makes the trailing side's
score name the section (`OvertimeIsSection`). `MessageInv` adds that each message
has the key of the moment it was about, and `KeyOfIsInjective` that moments do
not share keys.

### `RoundsProofs`

`HighlightsAreReal`: `HighlightInv` holds the tracker against the game: what it
has of a round is no more than what was done in it (`TrackerTrue`), what is left
of it to be reported has not been (`TrackerQuiet`), and each report is of a
player who can do no more in that round. Telling a clutch rests on counting them:
a player's clutch credits on the scoreboard are the rounds he won alone, up to
the present one (`MatchInv`), so that a credit more is this round's.

`StoryIsTrue`: the known rounds of the history are as they were played and as
many as the score has, unless the score started anew and no frame has told so
(`HistoryInv`; the feed's own list is only taken when it does not count beyond the
score), and the extremes of the comeback tracker are leads that
did occur, in that order (`SwingsInv`), unless the score started anew.

### `SubscribersProofs`

`OnlyLeftoversForTheSilent`: the enabled chats are on the whitelist of the running
process and the main chat is one of them (`MailingInv`), so that the fallback is
never needed, each audience is made of enabled chats that are not paused
(`OccasionsAreActive`), and a row for any other chat is older than what silenced it
(`MailInv`).

`NobodyIsLeftOut`: `BarInv` says that a tracker's bar is at most the setting of
every reader who has not moved his since it was read. The lowest setting of a
finite set is one of them and least (`LowestIsLeast`).

### `ScheduleProofs`

`ScheduleTypeOK`, `NoRequestSleeps`, `MoveWasHeld`, `RemindedOfTheRightTime`.
`RequestInv`: a team not read since a request is still to be read in this round,
or the flag is up. `HeldInv`: a proposal that is being debounced is what the pages
have said since it was made, at least. `RemindInv`: the time that was read last
is the row's effective start, and once the minute before it has been looked at,
the reminders for it are told.

### `ServiceProofs`

- *Watchdog*: `OutageIsReported`, `RecoveryFollowsAlarm`. While a failure lasts,
  `since` is the start of the outage for every subsystem but the queue, and
  `alerted` means that the alarm with that start is in the journal or its process
  was killed. Nothing of the kind holds for the queue, which is what
  `watchdog_stuck` shows.
- *Stall*: `StallIsBlindness`. `StallInv`: the loop is never late, what it has
  noted was shown, a feed that was up longer than a wait keeps the timer from
  running, and without one the timer runs from a reading that is not far from the
  page's last move or the feed's last turn.
- *Digests*: `DigestComesOnce`. `DigestsInv`: unless the clock was moved since, it
  is less than a day that it showed a slot, with a midnight since just when it
  shows less than it did then (`ClockInv`); a digest since then is of that date;
  and what was due when the loop looked is in the journal. The key with its local
  date does the rest. Assumed: the hour of catching up is shorter than a day.
- *The composition*: `ServiceIsItsParts` says that a behaviour of the `service`
  run satisfies the specification of each component, because the others rest.
  Hence what is proved of a component holds of the run, `ServiceTypeOK` included.

### What the proofs changed

Some properties that the runs had found to hold held only within their bounds,
and the attempts to prove them said so:
- `RemindedOfTheRightTime` did not ask that the match be on the pages read before
  its start. One that is dropped from them is not upcoming, and nobody is reminded
  of it (`reminders.py` asks for upcoming matches), which takes more minutes than
  the run has.
- `StallIsBlindness` measured with the wait for a match that has a feed. Where
  `POLL_LIVE_SECONDS` is set to as much or more, a feed may come and go between
  two readings. It measures with the longer wait now (see also section 4).
- `DigestComesOnce` compared the turns of two digests of one slot. Between zones
  more than a day apart the local date can run ahead, so that a digest of another
  date comes soon; it compares with when the clock showed the slot.
- The draws a run of `LiveCard` has were thought to be enough at two. That holds
  for one chat: see `DrawLeft`.

### Only model-checked

`SettlesPromise`, `UndisturbedFrameReachesAll`, `FeedGoesOn` and
`AgreedTimeIsStored` are liveness under fairness, which needs `ENABLED` and is
beyond the prover. The safety part of what they rest on (nothing dropped, no lost
wake-up, no request slept on, a draw is always left) is proved. The run of `StartReachesAll`
has one chat; its proof has any number. The five
violations are TLC's counterexamples.

## 6. Not modelled

- Parsers and requests (`http.py`, `sources/`, `proxy.py`): pure functions and
  I/O. What a page or a session comes to is in `Schedule`, `MatchLife` and `Feeds`.
- Wording and layout (`notify/format.py`, `streams.py`, `menu.py`): no state.
- Of the bot: the rate limit, reminder settings, the card's switch, replies, the
  update offset.
- Of the live machine: the filter that drops incoherent frames and the snapshot a
  card is drawn from.
- Retention and migrations: `prune` works in weeks, far beyond the bounds of the
  runs, on keys of matches that are over; migrations run before all else.
- Telegram's pacing: every interleaving of calls is allowed, which covers it.
- Configuration, models and the replay tool: no state that outlives a call.
