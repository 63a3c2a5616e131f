------------------------------- MODULE Outbox -------------------------------
(***************************************************************************)
(* The journal of events, the outgoing queue and its worker:               *)
(*   state/db.py        record_event, due_outbox, mark_sent, mark_retry    *)
(*   notify/outbox.py   Notifier.enqueue (the write), run, _drain,         *)
(*                      _send_batch, _drain_chat, _deliver                 *)
(*   __main__.py        start and shutdown of the worker                   *)
(*                                                                         *)
(* A key <<c, e>> is one event addressed to one chat: the journal's        *)
(* idempotency key and, as they are written in one transaction, the        *)
(* identity of the queue row.  Who an event is addressed to (pause, mutes, *)
(* thresholds) is nondeterministic: Record may be taken for any chat.      *)
(* Time is abstracted to "the row's next attempt has come round or not",   *)
(* which is all due_outbox asks of it.                                     *)
(***************************************************************************)
EXTENDS Naturals, FiniteSets

CONSTANTS
  Chats,           \* recipients
  Events,          \* idempotency keys, before the recipient is prefixed
  CardEvents,      \* events carrying a banner: the live card may absorb them
  BatchSize,       \* BATCH_SIZE: rows read from the queue in one go
  MaxRowsPerPass,  \* MAX_ROWS_PER_PASS
  MaxAttempts,     \* MAX_ATTEMPTS: refusals before the row is put off an hour
  MaxTrouble       \* bound: refusals, lost answers, failed writes and crashes

ASSUME OutboxAssumption ==
  /\ IsFiniteSet(Chats) /\ IsFiniteSet(Events)
  /\ CardEvents \subseteq Events
  /\ BatchSize \in Nat \ {0}
  /\ MaxRowsPerPass \in Nat \ {0}
  /\ MaxAttempts \in Nat \ {0}
  /\ MaxTrouble \in Nat

Keys == Chats \X Events
ChatOf(k) == k[1]

VARIABLES
  \* The database.
  journal,     \* table sent_events: the keys ever recorded
  status,      \* table outbox: no row yet, pending, sent, or sent without a
               \* Telegram message id ("dropped": a fatal refusal)
  rowid,       \* table outbox: insertion order, 0 when there is no row
  attempts,    \* table outbox: refusals so far, counted up to MaxAttempts
  wait,        \* table outbox: next_attempt_utc -- passed, in minutes, in an hour
  lastId,      \* the largest row id given out
  \* The process.
  worker,      \* where Notifier.run is
  stopping,    \* the stop event
  arrived,     \* Notifier._arrived
  todo,        \* rows of the batch read last that no one has dealt with yet
  lanes,       \* the chats of that batch
  more,        \* the batch was full, so the pass reads another one
  handled,     \* rows this pass has taken on
  call,        \* what _deliver is in the middle of, per row
  \* History, for the properties only.
  copies,      \* times the message has appeared in the chat
  doubts,      \* times it had appeared while the database did not get to know
  fatal,       \* keys Telegram refused for good
  unread,      \* an enqueue ended well since the queue was read last
  trouble      \* how many things have gone wrong

database == <<journal, status, rowid, attempts, wait, lastId>>
process  == <<worker, stopping, arrived, todo, lanes, more, handled, call>>
history  == <<copies, doubts, fatal, unread, trouble>>
vars     == <<database, process, history>>

Up == worker # "down"

GoesWrong == trouble < MaxTrouble /\ trouble' = trouble + 1

----------------------------------------------------------------------------
\* Reading the queue.

\* Mutant: the query forgets the status.
RowsOfAnyStatus == {k \in Keys : status[k] # "none" /\ wait[k] = "due"}

DueRows == {k \in Keys : status[k] = "pending" /\ wait[k] = "due"}

\* The first BatchSize due rows in insertion order.
Batch ==
  {k \in DueRows : Cardinality({j \in DueRows : rowid[j] < rowid[k]}) < BatchSize}

ReadBatch ==
  /\ todo' = Batch
  /\ lanes' = {ChatOf(k) : k \in Batch}
  /\ more' = (Cardinality(Batch) = BatchSize)
  /\ unread' = FALSE

\* Nothing of c is in the middle of being delivered.
Idle(c) == \A k \in Keys : ChatOf(k) = c => call[k] = "none"

\* Mutant: c's rows are delivered in no particular order.
AnyOf(k) == k \in todo

\* c's coroutine delivers its rows in queue order.
NextFor(k) ==
  /\ k \in todo
  /\ \A j \in todo : ChatOf(j) = ChatOf(k) => rowid[k] <= rowid[j]

\* Every chat's coroutine has returned: the gather is over.
BatchOver == todo = {} /\ \A k \in Keys : call[k] = "none"

----------------------------------------------------------------------------
Init ==
  /\ journal = {}
  /\ status = [k \in Keys |-> "none"]
  /\ rowid = [k \in Keys |-> 0]
  /\ attempts = [k \in Keys |-> 0]
  /\ wait = [k \in Keys |-> "due"]
  /\ lastId = 0
  /\ worker = "down"
  /\ stopping = FALSE
  /\ arrived = FALSE
  /\ todo = {}
  /\ lanes = {}
  /\ more = FALSE
  /\ handled = 0
  /\ call = [k \in Keys |-> "none"]
  /\ copies = [k \in Keys |-> 0]
  /\ doubts = [k \in Keys |-> 0]
  /\ fatal = {}
  /\ unread = FALSE
  /\ trouble = 0

----------------------------------------------------------------------------
\* The producers.

\* Mutant: the transaction is split and the row can be missing.
RowMayBeMissing(k) ==
  \/ /\ status' = [status EXCEPT ![k] = "pending"]
     /\ rowid' = [rowid EXCEPT ![k] = lastId + 1]
     /\ lastId' = lastId + 1
     /\ UNCHANGED <<attempts, wait>>
  \/ UNCHANGED <<status, rowid, attempts, wait, lastId>>

\* The queue row of a new key.
InsertRow(k) ==
  /\ status' = [status EXCEPT ![k] = "pending"]
  /\ rowid' = [rowid EXCEPT ![k] = lastId + 1]
  /\ attempts' = [attempts EXCEPT ![k] = 0]
  /\ wait' = [wait EXCEPT ![k] = "due"]
  /\ lastId' = lastId + 1

\* Mutant: no unique index, an event observed again is queued again.
RecordAgain(k) ==
  /\ Up
  /\ journal' = journal \union {k}
  /\ InsertRow(k)
  /\ arrived' = TRUE
  /\ unread' = TRUE
  /\ UNCHANGED <<worker, stopping, todo, lanes, more, handled, call,
                 copies, doubts, fatal, trouble>>

\* enqueue, for one of the recipients: journal and queue row in one
\* transaction; a key already journaled violates the unique index, the
\* transaction is rolled back and nothing happens.  The recipients are
\* recorded one transaction each, so a crash can fall between two of them.
Record(k) ==
  /\ Up
  /\ k \notin journal
  /\ journal' = journal \union {k}
  /\ InsertRow(k)
  /\ arrived' = TRUE
  /\ unread' = TRUE
  /\ UNCHANGED <<worker, stopping, todo, lanes, more, handled, call,
                 copies, doubts, fatal, trouble>>

\* The same, but the write for the next recipient raises: enqueue never gets to
\* the flag, and the row waits for the worker to look by itself.
RecordInterrupted(k) ==
  /\ Up
  /\ k \notin journal
  /\ GoesWrong
  /\ journal' = journal \union {k}
  /\ InsertRow(k)
  /\ UNCHANGED <<process, copies, doubts, fatal, unread>>

\* Mutant: a row put off for an hour never comes round.
ComesRoundSoonOnly(k) ==
  /\ status[k] = "pending"
  /\ wait[k] = "backoff"
  /\ wait' = [wait EXCEPT ![k] = "due"]
  /\ UNCHANGED <<journal, status, rowid, attempts, lastId, process, history>>

\* The clock passes the row's next_attempt_utc.
ComesRound(k) ==
  /\ status[k] = "pending"
  /\ wait[k] # "due"
  /\ wait' = [wait EXCEPT ![k] = "due"]
  /\ UNCHANGED <<journal, status, rowid, attempts, lastId, process, history>>

----------------------------------------------------------------------------
\* The worker's passes.

\* The top of the loop, for whatever reason the wait ended: a new message,
\* the stop signal, or the five seconds.
StartPass ==
  /\ worker = "waiting"
  /\ ~stopping
  /\ arrived' = FALSE
  /\ worker' = "draining"
  /\ ReadBatch
  /\ handled' = Cardinality(Batch)
  /\ UNCHANGED <<database, stopping, call, copies, doubts, fatal, trouble>>

\* After the stop signal: one more pass, with a deadline.
StartFinalPass ==
  /\ worker = "waiting"
  /\ stopping
  /\ worker' = "final"
  /\ ReadBatch
  /\ handled' = Cardinality(Batch)
  /\ UNCHANGED <<database, stopping, arrived, call, copies, doubts, fatal, trouble>>

\* The batch was full and the pass has not had its share: read the next one.
ReadMore ==
  /\ worker \in {"draining", "final"}
  /\ BatchOver
  /\ more
  /\ handled < MaxRowsPerPass
  /\ ReadBatch
  /\ handled' = handled + Cardinality(Batch)
  /\ UNCHANGED <<database, worker, stopping, arrived, call,
                 copies, doubts, fatal, trouble>>

\* Mutant: the flag is cleared before the wait, not before the pass.
PassOverClearsFlag ==
  /\ worker \in {"draining", "final"}
  /\ BatchOver
  /\ ~(more /\ handled < MaxRowsPerPass)
  /\ worker' = IF worker = "draining" THEN "waiting" ELSE "exited"
  /\ more' = FALSE
  /\ handled' = 0
  /\ arrived' = FALSE
  /\ UNCHANGED <<database, stopping, todo, lanes, call, history>>

PassOver ==
  /\ worker \in {"draining", "final"}
  /\ BatchOver
  /\ ~(more /\ handled < MaxRowsPerPass)
  /\ worker' = IF worker = "draining" THEN "waiting" ELSE "exited"
  /\ more' = FALSE
  /\ handled' = 0
  /\ UNCHANGED <<database, stopping, arrived, todo, lanes, call, history>>

\* The final pass runs out of time: every chat stops before its next row.
Deadline ==
  /\ worker = "final"
  /\ todo # {} \/ more
  /\ todo' = {k \in todo : call[k] # "none"}
  /\ more' = FALSE
  /\ UNCHANGED <<database, worker, stopping, arrived, lanes, handled, call, history>>

----------------------------------------------------------------------------
\* Delivering one row.

\* mark_sent and the return from _deliver.
Settle(k, how) ==
  /\ status' = [status EXCEPT ![k] = how]
  /\ todo' = todo \ {k}
  /\ call' = [call EXCEPT ![k] = "none"]
  /\ UNCHANGED <<journal, rowid, attempts, wait, lastId>>

\* Mutant: the row is taken out of the queue instead of being put off.
MarkFailed(k) ==
  /\ status' = [status EXCEPT ![k] = "failed"]
  /\ todo' = todo \ {k}
  /\ call' = [call EXCEPT ![k] = "none"]
  /\ UNCHANGED <<journal, rowid, attempts, wait, lastId>>

\* mark_retry and the return from _deliver.
Retry(k) ==
  /\ attempts' = [attempts EXCEPT ![k] = IF @ < MaxAttempts THEN @ + 1 ELSE @]
  /\ wait' = [wait EXCEPT ![k] =
                IF attempts[k] + 1 >= MaxAttempts THEN "hour" ELSE "backoff"]
  /\ todo' = todo \ {k}
  /\ call' = [call EXCEPT ![k] = "none"]
  /\ UNCHANGED <<journal, status, rowid, lastId>>

\* The chat's next row: a milestone is offered to the live card first.
Begin(k) ==
  /\ worker \in {"draining", "final"}
  /\ NextFor(k)
  /\ Idle(ChatOf(k))
  /\ call' = [call EXCEPT ![k] = IF k[2] \in CardEvents THEN "absorbing" ELSE "sending"]
  /\ UNCHANGED <<database, worker, stopping, arrived, todo, lanes, more, handled, history>>

\* Telegram takes the message, on its own or on top of the rebuilt card; the
\* answer is still on its way.
Taken(k) ==
  /\ call[k] \in {"absorbing", "sending"}
  /\ call' = [call EXCEPT ![k] = IF @ = "absorbing" THEN "absorbed" ELSE "taken"]
  /\ copies' = [copies EXCEPT ![k] = @ + 1]
  /\ UNCHANGED <<database, worker, stopping, arrived, todo, lanes, more, handled,
                 doubts, fatal, unread, trouble>>

\* The answer arrives and the row is marked.
Answered(k) ==
  /\ call[k] \in {"absorbed", "taken"}
  /\ Settle(k, "sent")
  /\ UNCHANGED <<worker, stopping, arrived, lanes, more, handled, history>>

\* absorb says "not this way": the plain message goes out instead.
NotThisWay(k) ==
  /\ call[k] = "absorbing"
  /\ call' = [call EXCEPT ![k] = "sending"]
  /\ UNCHANGED <<database, worker, stopping, arrived, todo, lanes, more, handled, history>>

\* The card was posted but the answer was lost.  absorb cannot tell that from
\* a refusal: the plain message goes out as well.
CardAnswerLost(k) ==
  /\ call[k] = "absorbed"
  /\ GoesWrong
  /\ call' = [call EXCEPT ![k] = "sending"]
  /\ doubts' = [doubts EXCEPT ![k] = @ + 1]
  /\ UNCHANGED <<database, worker, stopping, arrived, todo, lanes, more, handled,
                 copies, fatal, unread>>

\* The message was posted but the answer was lost: it will be sent again.
AnswerLost(k) ==
  /\ call[k] = "taken"
  /\ GoesWrong
  /\ Retry(k)
  /\ doubts' = [doubts EXCEPT ![k] = @ + 1]
  /\ UNCHANGED <<worker, stopping, arrived, lanes, more, handled, copies, fatal, unread>>

\* Mutant: any refusal is taken for a fatal one.
RefusedIsFatal(k) ==
  /\ call[k] = "sending"
  /\ GoesWrong
  /\ Settle(k, "dropped")
  /\ UNCHANGED <<worker, stopping, arrived, lanes, more, handled,
                 copies, doubts, fatal, unread>>

\* Telegram does not take it now: 429, 5xx, or no connection.
Refused(k) ==
  /\ call[k] = "sending"
  /\ GoesWrong
  /\ Retry(k)
  /\ UNCHANGED <<worker, stopping, arrived, lanes, more, handled,
                 copies, doubts, fatal, unread>>

\* Telegram will never take it: 400, 401, 403.
RefusedForGood(k) ==
  /\ call[k] = "sending"
  /\ Settle(k, "dropped")
  /\ fatal' = fatal \union {k}
  /\ UNCHANGED <<worker, stopping, arrived, lanes, more, handled,
                 copies, doubts, unread, trouble>>

\* A database write of c's coroutine fails: the coroutine dies, its remaining
\* rows stay pending, and gather waits for the other chats all the same.  A
\* chat that had the batch to itself runs outside gather and takes the pass
\* down with it.
LaneDies(c) ==
  /\ ~Idle(c)
  /\ GoesWrong
  /\ todo' = {k \in todo : ChatOf(k) # c}
  /\ more' = (more /\ lanes # {c})
  /\ call' = [k \in Keys |-> IF ChatOf(k) = c THEN "none" ELSE call[k]]
  /\ doubts' = [k \in Keys |->
       IF ChatOf(k) = c /\ call[k] \in {"absorbed", "taken"}
         THEN doubts[k] + 1 ELSE doubts[k]]
  /\ UNCHANGED <<database, worker, stopping, arrived, lanes, handled,
                 copies, fatal, unread>>

----------------------------------------------------------------------------
\* The process.

\* SIGTERM.  The producers are being cancelled, but a live feed has a grace
\* period and may still enqueue: Record stays possible until the exit.
Stop ==
  /\ Up
  /\ ~stopping
  /\ stopping' = TRUE
  /\ UNCHANGED <<database, worker, arrived, todo, lanes, more, handled, call, history>>

Vanish ==
  /\ worker' = "down"
  /\ stopping' = FALSE
  /\ arrived' = FALSE
  /\ todo' = {}
  /\ lanes' = {}
  /\ more' = FALSE
  /\ handled' = 0
  /\ call' = [k \in Keys |-> "none"]

\* The worker is done and the process ends.
Exit ==
  /\ worker = "exited"
  /\ Vanish
  /\ UNCHANGED <<database, history>>

\* The process is killed, or the wait for the worker times out on shutdown and
\* cancels it wherever it is.
Crash ==
  /\ Up
  /\ GoesWrong
  /\ Vanish
  /\ doubts' = [k \in Keys |->
       IF call[k] \in {"absorbed", "taken"} THEN doubts[k] + 1 ELSE doubts[k]]
  /\ UNCHANGED <<database, copies, fatal, unread>>

\* The process starts: the worker's first pass reads the queue at once.
Boot ==
  /\ worker = "down"
  /\ worker' = "draining"
  /\ ReadBatch
  /\ handled' = Cardinality(Batch)
  /\ UNCHANGED <<database, stopping, arrived, call, copies, doubts, fatal, trouble>>

----------------------------------------------------------------------------
Deliver(k) ==
  \/ Begin(k) \/ Taken(k) \/ Answered(k) \/ NotThisWay(k)
  \/ CardAnswerLost(k) \/ AnswerLost(k) \/ Refused(k) \/ RefusedForGood(k)

Next ==
  \/ \E k \in Keys : Record(k) \/ RecordInterrupted(k) \/ ComesRound(k) \/ Deliver(k)
  \/ \E c \in Chats : LaneDies(c)
  \/ StartPass \/ StartFinalPass \/ ReadMore \/ PassOver \/ Deadline
  \/ Stop \/ Exit \/ Crash \/ Boot

Spec == Init /\ [][Next]_vars

\* The event loop runs the worker and the operator restarts the service; a
\* call to Telegram ends (it has a timeout) and a due time comes.  Nothing is
\* assumed of the producers, of Stop, or of what goes wrong.
Fairness ==
  /\ \A k \in Keys :
       /\ WF_vars(ComesRound(k))
       /\ WF_vars(Begin(k))
       /\ WF_vars(Taken(k) \/ NotThisWay(k) \/ RefusedForGood(k))
       /\ WF_vars(Answered(k))
  /\ WF_vars(StartPass \/ StartFinalPass)
  /\ WF_vars(ReadMore \/ PassOver)
  /\ WF_vars(Exit)
  /\ WF_vars(Boot)

FairSpec == Spec /\ Fairness
----------------------------------------------------------------------------
(* Properties *)

TypeOK ==
  /\ journal \subseteq Keys
  /\ status \in [Keys -> {"none", "pending", "sent", "dropped"}]
  /\ rowid \in [Keys -> Nat]
  /\ attempts \in [Keys -> 0..MaxAttempts]
  /\ wait \in [Keys -> {"due", "backoff", "hour"}]
  /\ lastId \in Nat
  /\ worker \in {"down", "draining", "waiting", "final", "exited"}
  /\ stopping \in BOOLEAN
  /\ arrived \in BOOLEAN
  /\ todo \subseteq Keys
  /\ lanes \subseteq Chats
  /\ more \in BOOLEAN
  /\ handled \in Nat
  /\ call \in [Keys -> {"none", "absorbing", "absorbed", "sending", "taken"}]
  /\ copies \in [Keys -> Nat]
  /\ doubts \in [Keys -> Nat]
  /\ fatal \subseteq Keys
  /\ unread \in BOOLEAN
  /\ trouble \in 0..MaxTrouble

\* A second copy of a notification has an excuse: an answer of Telegram's that
\* never reached the database -- lost on the way, or the process died before
\* mark_sent.  However often the event is observed again, whatever is refused,
\* retried, absorbed or restarted, there is nothing else that duplicates.
NoUnexcusedCopy ==
  \A k \in Keys :
    copies[k] <= doubts[k] + (IF status[k] = "sent" \/ call[k] \in {"absorbed", "taken"}
                                THEN 1 ELSE 0)

\* Nothing leaves the queue unseen: a row marked sent has been in the chat, and
\* a row given up without that was refused for good -- never merely because it
\* had been tried often enough.
NothingDropped ==
  \A k \in Keys :
    /\ status[k] = "sent" => copies[k] > 0
    /\ status[k] = "dropped" => k \in fatal

\* Journal and queue tell the same story across crashes: what the journal will
\* never let through again is in the queue, and nothing else is.
JournalAndQueueAgree == \A k \in Keys : k \in journal <=> status[k] # "none"

\* Earlier(j, k): j is in front of k in the queue of the same chat.
Earlier(j, k) ==
  /\ ChatOf(j) = ChatOf(k)
  /\ j \in journal /\ k \in journal
  /\ rowid[j] < rowid[k]

\* What of "within a chat nothing overtakes anything" the worker keeps, through
\* batches, passes, dead coroutines, deadlines and restarts: a message is only
\* ever overtaken after Telegram has refused it once.
OvertakesOnlyRefused ==
  \A j, k \in Keys :
    Earlier(j, k) /\ copies[k] > 0 => copies[j] > 0 \/ attempts[j] > 0 \/ j \in fatal

\* The comment on _send_batch (notify/outbox.py:305), "within a chat nothing
\* overtakes anything": a message is in the chat only when everything in front
\* of it is, save what Telegram will never take.
NothingOvertakes ==
  \A j, k \in Keys : Earlier(j, k) /\ copies[k] > 0 => copies[j] > 0 \/ j \in fatal

\* No message sleeps out the five seconds: whatever an enqueue that ended well
\* queued after the worker last read the queue has set the flag the worker is
\* waiting on.
NoLostWakeup == worker = "waiting" /\ unread => arrived

----------------------------------------------------------------------------
(* The queue implements its promise. *)

\* A row of the queue as the promise it stands for.
StageOf(k) ==
  CASE status[k] = "none" -> "unborn"
    [] status[k] = "pending" -> "owed"
    [] status[k] = "sent" -> "told"
    [] status[k] = "dropped" -> "refused"

Promise == INSTANCE NotifyPromise WITH
  stage <- [k \in Keys |-> StageOf(k)],
  shown <- copies

\* Every step of the queue is a step of the promise, or none: accepted once,
\* shown only while owed, settled only after it was shown or refused for good,
\* and silent from then on.
KeepsPromise == Promise!PSafe

\* What is owed is settled: no row is refused, parked, skipped by a dead
\* coroutine or cut off by a deadline into oblivion.
SettlesPromise == Promise!PSettled
=============================================================================
