---------------------------- MODULE OutboxProofs ----------------------------
(***************************************************************************)
(* What Outbox does for every number of recipients and events, every batch *)
(* size and any number of mishaps.                                         *)
(***************************************************************************)
EXTENDS Outbox, FiniteSetTheorems, TLAPS

----------------------------------------------------------------------------
\* Reading the queue.

LEMMA KeysFinite == IsFiniteSet(Keys)
  BY OutboxAssumption, FS_Product DEF Keys

\* A batch is a set of due rows, and has a size.
LEMMA BatchIsDue ==
  /\ Batch \subseteq DueRows
  /\ DueRows \subseteq Keys
  /\ Cardinality(Batch) \in Nat
<1>1. Batch \subseteq DueRows /\ DueRows \subseteq Keys
  BY DEF Batch, DueRows
<1>2. IsFiniteSet(Batch)
  BY <1>1, KeysFinite, FS_Subset
<1>3. QED
  BY <1>1, <1>2, FS_CardinalityType

\* A batch takes the rows from the front: with a row it takes every due row
\* inserted before it.
LEMMA BatchIsPrefix ==
  ASSUME rowid \in [Keys -> Nat],
         NEW k \in Batch, NEW j \in DueRows, rowid[j] < rowid[k]
  PROVE  j \in Batch
<1> DEFINE Before(i) == {h \in DueRows : rowid[h] < rowid[i]}
<1>1. k \in Keys /\ j \in Keys /\ DueRows \subseteq Keys
  BY BatchIsDue
<1>2. Before(j) \subseteq Before(k)
  BY <1>1
<1>3. IsFiniteSet(Before(k)) /\ IsFiniteSet(Before(j))
  BY <1>1, KeysFinite, FS_Subset
<1>4. Cardinality(Before(j)) <= Cardinality(Before(k))
  BY <1>2, <1>3, FS_Subset
<1>5. Cardinality(Before(j)) \in Nat /\ Cardinality(Before(k)) \in Nat
  BY <1>3, FS_CardinalityType
<1>6. Cardinality(Before(k)) < BatchSize
  BY DEF Batch
<1>7. Cardinality(Before(j)) < BatchSize
  BY <1>4, <1>5, <1>6, OutboxAssumption
<1>8. QED
  BY <1>7 DEF Batch

----------------------------------------------------------------------------
\* Type correctness.

LEMMA InitTypeOK == Init => TypeOK
<1> SUFFICES ASSUME Init PROVE TypeOK
  OBVIOUS
<1> USE OutboxAssumption DEF Init
<1>1. /\ journal \subseteq Keys /\ todo \subseteq Keys /\ fatal \subseteq Keys
      /\ lanes \subseteq Chats
  OBVIOUS
<1>2. /\ status \in [Keys -> {"none", "pending", "sent", "dropped"}]
      /\ wait \in [Keys -> {"due", "backoff", "hour"}]
      /\ call \in [Keys -> {"none", "absorbing", "absorbed", "sending", "taken"}]
  OBVIOUS
<1>3. /\ rowid \in [Keys -> Nat] /\ attempts \in [Keys -> 0..MaxAttempts]
      /\ copies \in [Keys -> Nat] /\ doubts \in [Keys -> Nat]
  OBVIOUS
<1>4. /\ stopping \in BOOLEAN /\ arrived \in BOOLEAN
      /\ more \in BOOLEAN /\ unread \in BOOLEAN
  BY Zenon
<1>5. /\ worker \in {"down", "draining", "waiting", "final", "exited"}
      /\ lastId \in Nat /\ handled \in Nat /\ trouble \in 0..MaxTrouble
  OBVIOUS
<1>6. QED
  BY <1>1, <1>2, <1>3, <1>4, <1>5, Zenon DEF TypeOK

LEMMA NextTypeOK ==
  ASSUME TypeOK, [Next]_vars
  PROVE  TypeOK'
<1> USE OutboxAssumption DEF TypeOK, database, process, history
<1>1. ASSUME NEW k \in Keys, Record(k) \/ RecordInterrupted(k)
      PROVE  TypeOK'
  <2> USE <1>1 DEF Record, RecordInterrupted, InsertRow, GoesWrong
  <2>1. arrived' \in BOOLEAN /\ unread' \in BOOLEAN
    BY Zenon
  <2>2. /\ UNCHANGED <<worker, stopping, todo, lanes, more, handled, call>>
        /\ UNCHANGED <<copies, doubts, fatal>>
        /\ trouble' \in 0..MaxTrouble
    OBVIOUS
  <2>3. QED
    BY <2>1, <2>2
<1>2. ASSUME NEW k \in Keys, ComesRound(k)
      PROVE  TypeOK'
  BY <1>2 DEF ComesRound
<1>3. ASSUME NEW k \in Keys, Begin(k) \/ Taken(k) \/ NotThisWay(k)
      PROVE  TypeOK'
  BY <1>3 DEF Begin, Taken, NotThisWay
<1>4. ASSUME NEW k \in Keys, Answered(k) \/ RefusedForGood(k)
      PROVE  TypeOK'
  BY <1>4 DEF Answered, RefusedForGood, Settle
<1>5. ASSUME NEW k \in Keys, AnswerLost(k) \/ Refused(k)
      PROVE  TypeOK'
  BY <1>5, OutboxAssumption DEF AnswerLost, Refused, Retry, GoesWrong
<1>6. ASSUME NEW k \in Keys, CardAnswerLost(k)
      PROVE  TypeOK'
  BY <1>6, OutboxAssumption DEF CardAnswerLost, GoesWrong
<1>7. ASSUME NEW c \in Chats, LaneDies(c)
      PROVE  TypeOK'
  BY <1>7, OutboxAssumption DEF LaneDies, GoesWrong
<1>8. ASSUME StartPass \/ StartFinalPass \/ ReadMore \/ Boot
      PROVE  TypeOK'
  <2> USE <1>8 DEF StartPass, StartFinalPass, ReadMore, Boot, ReadBatch
  <2>1. /\ stopping' \in BOOLEAN /\ arrived' \in BOOLEAN
        /\ more' \in BOOLEAN /\ unread' \in BOOLEAN
    BY Zenon
  <2>2. /\ worker' \in {"down", "draining", "waiting", "final", "exited"}
        /\ todo' \subseteq Keys /\ handled' \in Nat /\ lanes' \subseteq Chats
    BY BatchIsDue DEF Keys, ChatOf
  <2>3. UNCHANGED <<database, call, copies, doubts, fatal, trouble>>
    BY Zenon
  <2>4. QED
    BY <2>1, <2>2, <2>3
<1>9. ASSUME PassOver \/ Deadline \/ Stop
      PROVE  TypeOK'
  <2> USE <1>9 DEF PassOver, Deadline, Stop
  <2>1. /\ stopping' \in BOOLEAN /\ arrived' \in BOOLEAN
        /\ more' \in BOOLEAN /\ unread' \in BOOLEAN
    BY Zenon
  <2>2. /\ worker' \in {"down", "draining", "waiting", "final", "exited"}
        /\ todo' \subseteq Keys /\ handled' \in Nat /\ lanes' \subseteq Chats
    BY <1>2
  <2>3. UNCHANGED <<database, call, copies, doubts, fatal, trouble>>
    BY Zenon
  <2>4. QED
    BY <2>1, <2>2, <2>3
<1>10. ASSUME Exit
       PROVE  TypeOK'
  BY <1>10 DEF Exit, Vanish
<1>11. ASSUME Crash
       PROVE  TypeOK'
  <2> USE <1>11 DEF Crash, Vanish, GoesWrong
  <2>1. /\ stopping' \in BOOLEAN /\ arrived' \in BOOLEAN
        /\ more' \in BOOLEAN /\ unread' \in BOOLEAN
    BY Zenon
  <2>2. /\ worker' \in {"down", "draining", "waiting", "final", "exited"}
        /\ todo' \subseteq Keys /\ handled' \in Nat /\ lanes' \subseteq Chats
        /\ call' \in [Keys -> {"none", "absorbing", "absorbed", "sending", "taken"}]
        /\ doubts' \in [Keys -> Nat] /\ trouble' \in 0..MaxTrouble
    BY <1>2
  <2>3. UNCHANGED <<database, copies, fatal>>
    BY Zenon
  <2>4. QED
    BY <2>1, <2>2, <2>3
<1>12. CASE UNCHANGED vars
  BY <1>12 DEF vars
<1>13. QED
  BY <1>1, <1>2, <1>3, <1>4, <1>5, <1>6, <1>7, <1>8, <1>9, <1>10, <1>11, <1>12
     DEF Next, Deliver

\* The tables and the worker's memory always hold what the code thinks they
\* hold: no handler writes a value another handler does not expect.
THEOREM TypeCorrect == Spec => []TypeOK
  BY InitTypeOK, NextTypeOK, PTL DEF Spec


----------------------------------------------------------------------------
\* The inductive invariant behind the safety properties.

InPass == worker \in {"draining", "final"}
InChat(k) == call[k] \in {"absorbed", "taken"}

\* A row nothing has happened to yet.
Untouched(j) == copies[j] = 0 /\ attempts[j] = 0 /\ j \notin fatal

\* Only pending, due rows are being dealt with, and only during a pass; only
\* the chat's first row of the batch is in the middle of being delivered.
Discipline ==
  /\ \A k \in todo : status[k] = "pending" /\ wait[k] = "due" /\ InPass
  /\ \A k \in Keys : call[k] # "none" => NextFor(k)

\* The tables and the history agree.
Accounts ==
  \A k \in Keys :
    /\ k \in journal <=> status[k] # "none"
    /\ k \in journal => rowid[k] <= lastId
    /\ k \notin journal => copies[k] = 0
    /\ wait[k] # "due" => attempts[k] > 0
    /\ InChat(k) => copies[k] > 0

\* A batch that holds a row holds every untouched row in front of it.
NothingLeftBehind ==
  \A j, k \in Keys :
    Earlier(j, k) /\ k \in todo /\ Untouched(j) => j \in todo

\* From the moment a pass begins: what it has not read has set the flag.
FlagIsSet == worker \in {"draining", "waiting"} /\ unread => arrived

QueueInv ==
  /\ TypeOK
  /\ Discipline
  /\ Accounts
  /\ NothingLeftBehind
  /\ NoUnexcusedCopy
  /\ NothingDropped
  /\ OvertakesOnlyRefused

\* A row of the queue that nothing has happened to is due.
LEMMA UntouchedIsDue ==
  ASSUME QueueInv, NEW j \in journal, Untouched(j)
  PROVE  j \in DueRows
  BY DEF QueueInv, TypeOK, Accounts, NothingDropped, Untouched, DueRows, InChat

LEMMA InitQueueInv == Init => QueueInv
<1> SUFFICES ASSUME Init PROVE QueueInv
  OBVIOUS
<1>1. TypeOK
  BY InitTypeOK
<1>2. QED
  BY <1>1 DEF Init, QueueInv, Discipline, Accounts, NothingLeftBehind, Earlier,
     InChat, Untouched, NoUnexcusedCopy, NothingDropped, OvertakesOnlyRefused

\* The producers: a new row is the last of the queue.
LEMMA RecordKeepsInv ==
  ASSUME QueueInv, NEW n \in Keys, Record(n) \/ RecordInterrupted(n)
  PROVE  Discipline' /\ Accounts' /\ NothingLeftBehind'
         /\ NoUnexcusedCopy' /\ NothingDropped' /\ OvertakesOnlyRefused'
<1> USE DEF QueueInv, TypeOK, Record, RecordInterrupted, InsertRow, process
<1>1. /\ status[n] = "none" /\ copies[n] = 0 /\ n \notin todo
      /\ call[n] = "none"
  BY DEF Accounts, Discipline, NextFor
<1>2. /\ \A k \in Keys \ {n} :
           /\ status'[k] = status[k] /\ rowid'[k] = rowid[k]
           /\ attempts'[k] = attempts[k] /\ wait'[k] = wait[k]
      /\ status'[n] = "pending" /\ rowid'[n] = lastId + 1 /\ wait'[n] = "due"
      /\ UNCHANGED <<todo, call, copies, doubts, fatal, worker>>
  OBVIOUS
<1>3. Discipline'
  BY <1>1, <1>2 DEF Discipline, NextFor, InPass
<1>4. Accounts'
  BY <1>1, <1>2 DEF Accounts, InChat
<1>5. ASSUME NEW j \in Keys, NEW k \in Keys, k # n, Earlier(j, k)'
      PROVE  Earlier(j, k) /\ j # n
  BY <1>2, <1>5 DEF Earlier, Accounts
<1>6. NothingLeftBehind'
  BY <1>1, <1>2, <1>5 DEF NothingLeftBehind, Untouched
<1>7. NoUnexcusedCopy' /\ NothingDropped'
  BY <1>1, <1>2 DEF NoUnexcusedCopy, NothingDropped
<1>8. OvertakesOnlyRefused'
  BY <1>1, <1>2, <1>5 DEF OvertakesOnlyRefused
<1>9. QED
  BY <1>3, <1>4, <1>6, <1>7, <1>8

\* A read of the queue, with nothing being delivered.
LEMMA ReadKeepsInv ==
  ASSUME QueueInv, ReadBatch, BatchOver,
         UNCHANGED <<database, call, copies, doubts, fatal>>,
         worker' \in {"draining", "final"}
  PROVE  Discipline' /\ Accounts' /\ NothingLeftBehind'
         /\ NoUnexcusedCopy' /\ NothingDropped' /\ OvertakesOnlyRefused'
<1> USE DEF QueueInv, TypeOK, ReadBatch, database
<1>1. Discipline'
  BY BatchIsDue DEF Discipline, InPass, BatchOver, DueRows
<1>2. Accounts' /\ NoUnexcusedCopy' /\ NothingDropped' /\ OvertakesOnlyRefused'
  BY DEF Accounts, InChat, NoUnexcusedCopy, NothingDropped, OvertakesOnlyRefused,
         Earlier
<1>3. ASSUME NEW j \in Keys, NEW k \in Keys,
             Earlier(j, k), k \in Batch, Untouched(j)
      PROVE  j \in Batch
  <2>1. j \in DueRows
    BY <1>3, UntouchedIsDue DEF Earlier
  <2>2. QED
    BY <1>3, <2>1, BatchIsPrefix DEF Earlier
<1>4. NothingLeftBehind'
  BY <1>3 DEF NothingLeftBehind, Earlier, Untouched
<1>5. QED
  BY <1>1, <1>2, <1>4


\* A row in the middle of being delivered moves on, or its message appears.
LEMMA CallKeepsInv ==
  ASSUME QueueInv, NEW n \in Keys,
         \/ Begin(n) \/ Taken(n) \/ NotThisWay(n) \/ CardAnswerLost(n)
  PROVE  Discipline' /\ Accounts' /\ NothingLeftBehind'
         /\ NoUnexcusedCopy' /\ NothingDropped' /\ OvertakesOnlyRefused'
<1> USE DEF QueueInv, TypeOK, database, history
<1>0. NextFor(n) /\ n \in todo /\ status[n] = "pending" /\ InPass
  BY DEF Begin, Taken, NotThisWay, CardAnswerLost, Discipline, NextFor
<1>1. /\ NextFor(n) /\ status[n] = "pending" /\ InPass
      /\ UNCHANGED <<database, todo, worker, fatal>>
      /\ \A k \in Keys \ {n} : call'[k] = call[k] /\ copies'[k] = copies[k]
                               /\ doubts'[k] = doubts[k]
      /\ copies'[n] \in Nat /\ copies'[n] >= copies[n]
  BY <1>0 DEF Begin, Taken, NotThisWay, CardAnswerLost
<1>2. Discipline'
  BY <1>1 DEF Discipline, NextFor, InPass
<1>3. /\ InChat(n)' => copies'[n] > 0
      /\ copies'[n] <= doubts'[n] + (IF InChat(n)' THEN 1 ELSE 0)
  <2>1. /\ InChat(n) => copies[n] > 0
        /\ copies[n] <= doubts[n] + (IF InChat(n) THEN 1 ELSE 0)
    BY <1>0 DEF Accounts, NoUnexcusedCopy, InChat
  <2>2. CASE Begin(n)
    BY <1>0, <2>1, <2>2 DEF Begin, InChat, Idle, ChatOf
  <2>3. CASE Taken(n)
    BY <2>1, <2>3 DEF Taken, InChat
  <2>4. CASE NotThisWay(n) \/ CardAnswerLost(n)
    BY <2>1, <2>4 DEF NotThisWay, CardAnswerLost, InChat
  <2>5. QED
    BY <2>2, <2>3, <2>4
<1>4. Accounts'
  BY <1>1, <1>3 DEF Accounts, InChat
<1>5. NothingLeftBehind'
  BY <1>1 DEF NothingLeftBehind, Earlier, Untouched
<1>6. NoUnexcusedCopy' /\ NothingDropped'
  BY <1>1, <1>3 DEF NoUnexcusedCopy, NothingDropped, InChat
<1>7. ASSUME NEW j \in Keys, Earlier(j, n)
      PROVE  ~Untouched(j)
  BY <1>1, <1>7 DEF NothingLeftBehind, NextFor, Earlier
<1>8. OvertakesOnlyRefused'
  <2> SUFFICES ASSUME NEW j \in Keys, NEW k \in Keys, Earlier(j, k)', copies'[k] > 0
               PROVE  copies'[j] > 0 \/ attempts'[j] > 0 \/ j \in fatal'
    BY DEF OvertakesOnlyRefused
  <2>1. Earlier(j, k)
    BY <1>1 DEF Earlier
  <2>2. copies[j] > 0 \/ attempts[j] > 0 \/ j \in fatal
    <3>1. CASE k = n
      BY <3>1, <2>1, <1>7 DEF Untouched
    <3>2. CASE k # n
      BY <3>2, <2>1, <1>1 DEF OvertakesOnlyRefused
    <3>3. QED
      BY <3>1, <3>2
  <2>3. QED
    BY <2>2, <1>1
<1>9. QED
  BY <1>2, <1>4, <1>5, <1>6, <1>8

\* A row leaves the batch: sent, refused for good, or put off.  It is not
\* untouched any more.
LEMMA LeaveKeepsInv ==
  ASSUME QueueInv, TypeOK', NEW n \in Keys,
         \/ Answered(n) \/ AnswerLost(n) \/ Refused(n) \/ RefusedForGood(n)
  PROVE  Discipline' /\ Accounts' /\ NothingLeftBehind'
         /\ NoUnexcusedCopy' /\ NothingDropped' /\ OvertakesOnlyRefused'
<1> USE OutboxAssumption DEF QueueInv, TypeOK, database, history
<1>0. NextFor(n) /\ n \in todo /\ status[n] = "pending" /\ InPass
  BY DEF Answered, AnswerLost, Refused, RefusedForGood, Discipline, NextFor
<1>1. /\ NextFor(n) /\ status[n] = "pending" /\ InPass
      /\ todo' = todo \ {n} /\ call' = [call EXCEPT ![n] = "none"]
      /\ UNCHANGED <<journal, rowid, lastId, worker, copies>>
      /\ fatal \subseteq fatal' /\ fatal' \subseteq fatal \union {n}
      /\ \A k \in Keys \ {n} :
           /\ status'[k] = status[k] /\ attempts'[k] = attempts[k]
           /\ wait'[k] = wait[k] /\ doubts'[k] = doubts[k]
  BY <1>0 DEF Answered, AnswerLost, Refused, RefusedForGood, Settle, Retry
<1>2. /\ ~Untouched(n)'
      /\ attempts[n] > 0 => attempts'[n] > 0
      /\ wait'[n] # "due" => attempts'[n] > 0
      /\ status'[n] # "none"
      /\ status'[n] = "sent" => copies[n] > 0
      /\ status'[n] = "dropped" => n \in fatal'
      /\ copies[n] <= doubts'[n] + (IF status'[n] = "sent" THEN 1 ELSE 0)
  <2>1. /\ InChat(n) => copies[n] > 0
        /\ copies[n] <= doubts[n] + (IF InChat(n) THEN 1 ELSE 0)
        /\ wait[n] # "due" => attempts[n] > 0
    BY <1>0 DEF Accounts, NoUnexcusedCopy, InChat
  <2>2. CASE Answered(n)
    BY <1>0, <2>1, <2>2 DEF Answered, Settle, InChat, Untouched
  <2>3. CASE RefusedForGood(n)
    BY <1>0, <2>1, <2>3 DEF RefusedForGood, Settle, InChat, Untouched
  <2>4. CASE AnswerLost(n)
    BY <1>0, <2>1, <2>4 DEF AnswerLost, Retry, InChat, Untouched
  <2>5. CASE Refused(n)
    BY <1>0, <2>1, <2>5 DEF Refused, Retry, InChat, Untouched
  <2>6. QED
    BY <2>2, <2>3, <2>4, <2>5
<1>3. Discipline'
  BY <1>1 DEF Discipline, NextFor, InPass
<1>4. Accounts'
  BY <1>1, <1>2 DEF Accounts, InChat
<1>5. NothingLeftBehind'
  BY <1>1, <1>2 DEF NothingLeftBehind, Earlier, Untouched
<1>6. NoUnexcusedCopy' /\ NothingDropped'
  BY <1>1, <1>2 DEF NoUnexcusedCopy, NothingDropped
<1>7. OvertakesOnlyRefused'
  BY <1>1, <1>2 DEF OvertakesOnlyRefused, Earlier
<1>8. QED
  BY <1>3, <1>4, <1>5, <1>6, <1>7

\* A coroutine dies, or the deadline passes: rows leave the batch untouched,
\* but never from between two rows of one chat.
LEMMA CutKeepsInv ==
  ASSUME QueueInv, Deadline \/ \E c \in Chats : LaneDies(c)
  PROVE  Discipline' /\ Accounts' /\ NothingLeftBehind'
         /\ NoUnexcusedCopy' /\ NothingDropped' /\ OvertakesOnlyRefused'
<1> USE DEF QueueInv, TypeOK, database, history, ChatOf
<1>1. CASE Deadline
  <2> USE <1>1 DEF Deadline
  <2>1. Discipline'
    BY DEF Discipline, NextFor, InPass
  <2>2. NothingLeftBehind'
    <3>1. ASSUME NEW j \in Keys, NEW k \in Keys,
                 Earlier(j, k), k \in todo', Untouched(j)
          PROVE  FALSE
      BY <3>1 DEF NothingLeftBehind, Discipline, NextFor, Earlier
    <3>2. QED
      BY <3>1 DEF NothingLeftBehind, Earlier, Untouched
  <2>3. Accounts' /\ NoUnexcusedCopy' /\ NothingDropped' /\ OvertakesOnlyRefused'
    BY DEF Accounts, InChat, NoUnexcusedCopy, NothingDropped,
           OvertakesOnlyRefused, Earlier
  <2>4. QED
    BY <2>1, <2>2, <2>3
<1>2. ASSUME NEW c \in Chats, LaneDies(c)
      PROVE  Discipline' /\ Accounts' /\ NothingLeftBehind'
             /\ NoUnexcusedCopy' /\ NothingDropped' /\ OvertakesOnlyRefused'
  <2> USE <1>2 DEF LaneDies
  <2>1. Discipline'
    BY DEF Discipline, NextFor, InPass
  <2>2. NothingLeftBehind'
    BY DEF NothingLeftBehind, Earlier, Untouched
  <2>3. Accounts' /\ NothingDropped' /\ OvertakesOnlyRefused'
    BY DEF Accounts, InChat, NothingDropped, OvertakesOnlyRefused, Earlier
  <2>4. NoUnexcusedCopy'
    BY DEF NoUnexcusedCopy
  <2>5. QED
    BY <2>1, <2>2, <2>3, <2>4
<1>3. QED
  BY <1>1, <1>2

\* The process stops one way or another: the memory is gone.
LEMMA VanishKeepsInv ==
  ASSUME QueueInv, Exit \/ Crash
  PROVE  Discipline' /\ Accounts' /\ NothingLeftBehind'
         /\ NoUnexcusedCopy' /\ NothingDropped' /\ OvertakesOnlyRefused'
<1> USE DEF QueueInv, TypeOK, database, history, Exit, Crash, Vanish
<1>1. Discipline' /\ NothingLeftBehind'
  BY DEF Discipline, NothingLeftBehind
<1>2. Accounts' /\ NothingDropped' /\ OvertakesOnlyRefused'
  BY DEF Accounts, InChat, NothingDropped, OvertakesOnlyRefused, Earlier
<1>3. NoUnexcusedCopy'
  <2>1. CASE Exit
    BY <2>1 DEF NoUnexcusedCopy, Discipline, NextFor, InPass
  <2>2. CASE Crash
    BY <2>2 DEF NoUnexcusedCopy
  <2>3. QED
    BY <2>1, <2>2
<1>4. QED
  BY <1>1, <1>2, <1>3

\* Nothing is being delivered except during a pass.
LEMMA QuietOutsideAPass ==
  ASSUME QueueInv, ~InPass
  PROVE  BatchOver
  BY DEF QueueInv, Discipline, NextFor, BatchOver

LEMMA NextQueueInv ==
  ASSUME QueueInv, [Next]_vars
  PROVE  QueueInv'
<1> DEFINE Kept == /\ Discipline' /\ Accounts' /\ NothingLeftBehind'
                   /\ NoUnexcusedCopy' /\ NothingDropped' /\ OvertakesOnlyRefused'
<1>1. TypeOK'
  BY NextTypeOK DEF QueueInv
<1>2. ASSUME NEW k \in Keys, Record(k) \/ RecordInterrupted(k)
      PROVE  Kept
  BY <1>2, RecordKeepsInv
<1>3. ASSUME NEW k \in Keys, ComesRound(k)
      PROVE  Kept
  <2> USE <1>3 DEF QueueInv, TypeOK, ComesRound, process, history
  <2>1. Discipline' /\ NothingLeftBehind'
    BY DEF Discipline, NextFor, InPass, NothingLeftBehind, Earlier, Untouched
  <2>2. Accounts' /\ NoUnexcusedCopy' /\ NothingDropped' /\ OvertakesOnlyRefused'
    BY DEF Accounts, InChat, NoUnexcusedCopy, NothingDropped,
           OvertakesOnlyRefused, Earlier
  <2>3. QED
    BY <2>1, <2>2
<1>4. ASSUME NEW k \in Keys, Deliver(k)
      PROVE  Kept
  BY <1>1, <1>4, CallKeepsInv, LeaveKeepsInv DEF Deliver
<1>5. ASSUME Deadline \/ \E c \in Chats : LaneDies(c)
      PROVE  Kept
  BY <1>5, CutKeepsInv
<1>6. ASSUME StartPass \/ StartFinalPass \/ ReadMore \/ Boot
      PROVE  Kept
  <2>1. BatchOver
    BY <1>6, QuietOutsideAPass
       DEF StartPass, StartFinalPass, ReadMore, Boot, InPass
  <2>2. QED
    BY <1>6, <2>1, ReadKeepsInv
       DEF StartPass, StartFinalPass, ReadMore, Boot
<1>7. ASSUME PassOver \/ Stop \/ UNCHANGED vars
      PROVE  Kept
  <2> USE <1>7 DEF QueueInv, TypeOK, PassOver, Stop, vars, database, process, history
  <2>1. Discipline' /\ NothingLeftBehind'
    BY DEF Discipline, NextFor, InPass, NothingLeftBehind, Earlier, Untouched,
           BatchOver
  <2>2. Accounts' /\ NoUnexcusedCopy' /\ NothingDropped' /\ OvertakesOnlyRefused'
    BY DEF Accounts, InChat, NoUnexcusedCopy, NothingDropped,
           OvertakesOnlyRefused, Earlier
  <2>3. QED
    BY <2>1, <2>2
<1>8. ASSUME Exit \/ Crash
      PROVE  Kept
  BY <1>8, VanishKeepsInv
<1>9. Kept
  BY <1>2, <1>3, <1>4, <1>5, <1>6, <1>7, <1>8 DEF Next
<1>10. QED
  BY <1>1, <1>9 DEF QueueInv

LEMMA QueueInvariant == Spec => []QueueInv
  BY InitQueueInv, NextQueueInv, PTL DEF Spec

----------------------------------------------------------------------------
\* What the queue guarantees.

\* For any number of chats, rows and mishaps, a duplicate in a chat is always
\* matched by an answer of Telegram's that the database never got to know:
\* retries, repeated observations, cards, deadlines and restarts alone never
\* produce one.
THEOREM NoUnexcusedCopyHolds == Spec => []NoUnexcusedCopy
  BY QueueInvariant, PTL DEF QueueInv

\* A row marked sent has been in the chat; a row given up was refused for good.
THEOREM NothingDroppedHolds == Spec => []NothingDropped
  BY QueueInvariant, PTL DEF QueueInv

\* The journal and the queue hold the same keys, across crashes too.
THEOREM JournalAndQueueAgreeHolds == Spec => []JournalAndQueueAgree
<1>1. QueueInv => JournalAndQueueAgree
  BY DEF QueueInv, Accounts, JournalAndQueueAgree
<1>2. QED
  BY <1>1, QueueInvariant, PTL

\* Within a chat a message is overtaken only after it was refused once: neither
\* the boundary between two batches, nor a dead coroutine, nor the deadline of
\* the last pass, nor a restart lets a later message past an untouched one.
THEOREM OvertakesOnlyRefusedHolds == Spec => []OvertakesOnlyRefused
  BY QueueInvariant, PTL DEF QueueInv

\* The worker never goes to sleep over a message it has not read: the flag is
\* cleared before the queue is read, so a message enqueued during the pass
\* leaves it set.
THEOREM NoLostWakeupHolds == Spec => []NoLostWakeup
<1>1. Init => FlagIsSet
  BY DEF Init, FlagIsSet
<1>2. FlagIsSet /\ [Next]_vars => FlagIsSet'
  <2> SUFFICES ASSUME FlagIsSet, [Next]_vars, worker' \in {"draining", "waiting"},
                      unread'
               PROVE  arrived'
    BY DEF FlagIsSet
  <2> USE DEF FlagIsSet, process, history
  <2>1. ASSUME NEW k \in Keys, Record(k)
        PROVE  arrived'
    BY <2>1 DEF Record
  <2>2. ASSUME NEW k \in Keys, RecordInterrupted(k) \/ ComesRound(k) \/ Deliver(k)
        PROVE  arrived'
    BY <2>2 DEF RecordInterrupted, ComesRound, Deliver, Begin, Taken, Answered, NotThisWay,
                CardAnswerLost, AnswerLost, Refused, RefusedForGood
  <2>3. ASSUME NEW c \in Chats, LaneDies(c)
        PROVE  arrived'
    BY <2>3 DEF LaneDies
  <2>4. CASE StartPass \/ StartFinalPass \/ ReadMore \/ Boot
    BY <2>4 DEF StartPass, StartFinalPass, ReadMore, Boot, ReadBatch
  <2>5. CASE PassOver \/ Deadline \/ Stop \/ UNCHANGED vars
    BY <2>5 DEF PassOver, Deadline, Stop, vars
  <2>6. CASE Exit \/ Crash
    BY <2>6 DEF Exit, Crash, Vanish
  <2>7. QED
    BY <2>1, <2>2, <2>3, <2>4, <2>5, <2>6 DEF Next
<1>3. FlagIsSet => NoLostWakeup
  BY DEF FlagIsSet, NoLostWakeup
<1>4. QED
  BY <1>1, <1>2, <1>3, PTL DEF Spec

----------------------------------------------------------------------------
\* The queue implements NotifyPromise.

\* The rows' fate is decided by four actions; the rest is invisible.
LEMMA PromiseStep ==
  ASSUME QueueInv, TypeOK', [Next]_vars
  PROVE  [Promise!PNext]_(Promise!pvars)
<1> DEFINE stage == [k \in Keys |-> StageOf(k)]
<1> USE DEF QueueInv, TypeOK, database, process, history
<1>1. SUFFICES \/ UNCHANGED <<stage, copies>>
               \/ \E n \in Keys :
                    \/ /\ stage[n] = "unborn"
                       /\ stage' = [stage EXCEPT ![n] = "owed"]
                       /\ UNCHANGED copies
                    \/ /\ stage[n] = "owed"
                       /\ copies' = [copies EXCEPT ![n] = @ + 1]
                       /\ UNCHANGED stage
                    \/ /\ stage[n] = "owed"
                       /\ copies[n] > 0
                       /\ stage' = [stage EXCEPT ![n] = "told"]
                       /\ UNCHANGED copies
                    \/ /\ stage[n] = "owed"
                       /\ stage' = [stage EXCEPT ![n] = "refused"]
                       /\ UNCHANGED copies
  BY DEF Promise!PNext, Promise!pvars, Promise!Owe, Promise!Show,
         Promise!Keep, Promise!Refuse
<1>2. ASSUME UNCHANGED status
      PROVE  UNCHANGED stage
  BY <1>2 DEF StageOf
<1>3. ASSUME NEW n \in Keys, Record(n) \/ RecordInterrupted(n)
      PROVE  /\ stage[n] = "unborn" /\ stage' = [stage EXCEPT ![n] = "owed"]
             /\ UNCHANGED copies
  <2>1. /\ status[n] = "none" /\ status' = [status EXCEPT ![n] = "pending"]
        /\ UNCHANGED copies
    BY <1>3 DEF Record, RecordInterrupted, InsertRow, Accounts
  <2>2. QED
    BY <2>1, ZenonT(30) DEF StageOf
<1>4. ASSUME NEW n \in Keys, Taken(n)
      PROVE  /\ stage[n] = "owed" /\ UNCHANGED stage
             /\ copies' = [copies EXCEPT ![n] = @ + 1]
  <2>1. stage[n] = "owed"
    BY <1>4 DEF Taken, StageOf, Discipline, NextFor
  <2>2. QED
    BY <1>2, <1>4, <2>1 DEF Taken
<1>5. ASSUME NEW n \in Keys, Answered(n) \/ RefusedForGood(n)
      PROVE  stage[n] = "owed"
  BY <1>5 DEF Answered, RefusedForGood, StageOf, Discipline, NextFor
<1>6. ASSUME NEW n \in Keys, Answered(n)
      PROVE  /\ copies[n] > 0 /\ stage' = [stage EXCEPT ![n] = "told"]
             /\ UNCHANGED copies
  BY <1>6 DEF Answered, Settle, StageOf, Accounts, InChat
<1>7. ASSUME NEW n \in Keys, RefusedForGood(n)
      PROVE  stage' = [stage EXCEPT ![n] = "refused"] /\ UNCHANGED copies
  BY <1>7, ZenonT(30) DEF RefusedForGood, Settle, StageOf
<1>8. ASSUME NEW n \in Keys,
             \/ ComesRound(n) \/ Begin(n) \/ NotThisWay(n) \/ CardAnswerLost(n)
             \/ AnswerLost(n) \/ Refused(n)
      PROVE  UNCHANGED <<status, copies>>
  BY <1>8 DEF ComesRound, Begin, NotThisWay, CardAnswerLost, AnswerLost,
              Refused, Retry
<1>9. ASSUME \/ \E c \in Chats : LaneDies(c)
             \/ StartPass \/ StartFinalPass \/ ReadMore \/ PassOver \/ Deadline
             \/ Stop \/ Exit \/ Crash \/ Boot \/ UNCHANGED vars
      PROVE  UNCHANGED <<status, copies>>
  BY <1>9 DEF LaneDies, StartPass, StartFinalPass, ReadMore, PassOver, Deadline,
              Stop, Exit, Crash, Boot, vars
<1> HIDE DEF stage
<1>10. QED
  BY <1>2, <1>3, <1>4, <1>5, <1>6, <1>7, <1>8, <1>9 DEF Next, Deliver

\* The queue keeps the promise NotifyPromise states, for every value of the
\* constants: accepted once, shown only while owed, settled only after it was
\* shown or refused for good.
THEOREM QueueKeepsPromise == Spec => KeepsPromise
<1>1. Init => Promise!PInit
  BY DEF Init, Promise!PInit, StageOf
<1>2. QueueInv /\ [Next]_vars => [Promise!PNext]_(Promise!pvars)
  BY NextTypeOK, PromiseStep DEF QueueInv
<1>3. QED
  BY <1>1, <1>2, QueueInvariant, PTL DEF Spec, KeepsPromise, Promise!PSafe
=============================================================================
