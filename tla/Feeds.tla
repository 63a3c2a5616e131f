-------------------------------- MODULE Feeds --------------------------------
(***************************************************************************)
(* Who is connected to the live feed of a match:                           *)
(*   live_worker.py        a worker, and the supervisor that starts it,    *)
(*                         retires it and waits for it at the end          *)
(*   sources/scorebot.py   the session of a worker                         *)
(*   __main__.py           the order in which the service stops            *)
(* The supervisor's tables are keyed by match, so one match is looked at.  *)
(* A step is what a task does between two awaits.  The two seconds of a    *)
(* retirement and the pauses before a reconnect are any time.              *)
(***************************************************************************)
EXTENDS Naturals, FiniteSets

CONSTANTS
  Workers,      \* bound: workers that exist at a time
  NoWorker,     \* no worker
  LastMap,      \* bound
  MaxLooks,     \* bound: the match poller changes its mind
  MaxFaults,    \* bound: requests that fail
  WaitPolls     \* of subscribe

ASSUME FeedsAssumption ==
  /\ IsFiniteSet(Workers) /\ Workers # {} /\ NoWorker \notin Workers
  /\ {LastMap, MaxLooks, MaxFaults, WaitPolls} \subseteq Nat

NoMap == 0
Phases == {"ended", "connecting", "subscribing", "polling", "sleeping"}

VARIABLES
  playing,    \* the map being played
  table,      \* _tasks, _workers and _stops: the worker of the match
  retiring,   \* _retiring: workers whose cancellation is due
  stage,      \* the await a worker is in
  stop,       \* its stop event
  ready,      \* packet 40 has come
  polls,      \* left to wait for it
  held,       \* _map_started
  awaiting,   \* _awaiting_start_message
  begun,      \* table map_live: maps whose start the machine has seen
  finished,   \* table map_results: maps whose end the machine has seen
  opening,    \* "match has started": none, queued or sent
  process,    \* running, cancelling (the loops), releasing (the workers), gone
  gathered,   \* the tasks that shutdown waits for
  \* History, for the properties only.
  born,       \* map starts the machine has announced (E5)
  startsTold, \* of these, handed to the card or to the queue
  forfeited,  \* whose worker was stopped, or that a later one replaced
  unused,     \* that were there when the final frame froze the card
  looks, faults

supervisor == <<table, retiring>>
workers == <<stage, stop, ready, polls, held, awaiting>>
matchState == <<playing, begun, finished, opening, born, startsTold, unused>>
feedsVars == <<supervisor, workers, matchState, process, gathered, forfeited, looks, faults>>

Alive(w) == stage[w] # "ended"
Free == {w \in Workers : ~Alive(w) /\ w \notin retiring /\ w # table}
----------------------------------------------------------------------------
FeedsInit ==
  /\ table = NoWorker /\ retiring = {}
  /\ stage = [w \in Workers |-> "ended"]
  /\ stop = [w \in Workers |-> FALSE]
  /\ ready = [w \in Workers |-> FALSE]
  /\ polls = [w \in Workers |-> WaitPolls]
  /\ held = [w \in Workers |-> NoMap]
  /\ awaiting = [w \in Workers |-> FALSE]
  /\ playing = NoMap /\ begun = {} /\ finished = {}
  /\ born = {} /\ startsTold = {} /\ unused = {}
  /\ opening \in {"none", "sent"}  \* held back for the feed, or told by the match page
  /\ process = "running" /\ gathered = {}
  /\ forfeited = {} /\ looks = 0 /\ faults = 0

Fault == faults < MaxFaults /\ faults' = faults + 1
NoFault == UNCHANGED faults
----------------------------------------------------------------------------
\* LiveSupervisor.

\* Mutant: a worker is started at every call.
AtEveryCall == TRUE
\* ensure finds no task for the match, or one that is done.
NeedsWorker == \A w \in Workers : w = table => ~Alive(w)

Ensure ==
  /\ NeedsWorker
  /\ \E w \in Free :
       /\ table' = w
       /\ stage' = [stage EXCEPT ![w] = "connecting"]
       /\ stop' = [stop EXCEPT ![w] = FALSE]
       /\ ready' = [ready EXCEPT ![w] = FALSE]
       /\ polls' = [polls EXCEPT ![w] = WaitPolls]
       /\ held' = [held EXCEPT ![w] = NoMap]
       /\ awaiting' = [awaiting EXCEPT ![w] = FALSE]
  /\ UNCHANGED retiring

\* The flag goes up and the worker leaves the tables; its end is another task's.
ReleaseWorker ==
  /\ IF table = NoWorker THEN UNCHANGED <<stop, retiring>>
     ELSE /\ stop' = [stop EXCEPT ![table] = TRUE]
          /\ retiring' = IF Alive(table) THEN retiring \union {table} ELSE retiring
  /\ table' = NoWorker
  /\ UNCHANGED <<stage, ready, polls, held, awaiting>>

\* The match poller has looked whether the match is running.
Reconcile(running) ==
  /\ process = "running" /\ looks < MaxLooks /\ looks' = looks + 1
  /\ IF running THEN Ensure ELSE ReleaseWorker
  /\ UNCHANGED <<matchState, process, gathered, forfeited, faults>>

\* What a worker keeps in memory ends with it.
Ends(w) ==
  /\ stage' = [stage EXCEPT ![w] = "ended"]
  /\ held' = [held EXCEPT ![w] = NoMap]
  /\ forfeited' = forfeited \union ({held[w]} \ {NoMap})

\* _retire: the worker has ended by itself, or its time is up.
Retire(w) ==
  /\ w \in retiring
  /\ retiring' = retiring \ {w}
  /\ IF Alive(w) THEN Ends(w) ELSE UNCHANGED <<stage, held, forfeited>>
  /\ UNCHANGED <<table, stop, ready, polls, awaiting, matchState, process, gathered,
                 looks, faults>>
----------------------------------------------------------------------------
\* The end of the service: the loops that use the supervisor are cancelled first.
Signal ==
  /\ process = "running" /\ process' = "cancelling"
  /\ UNCHANGED <<supervisor, workers, matchState, gathered, forfeited, looks, faults>>

\* Mutant: the tasks are collected once release has emptied the table.
CollectedLate == {}
Collected == retiring \union ({table} \ {NoWorker})

Shutdown ==
  /\ process = "cancelling" /\ process' = "releasing"
  /\ ReleaseWorker
  /\ gathered' = Collected
  /\ UNCHANGED <<matchState, forfeited, looks, faults>>

Closed ==
  /\ process = "releasing" /\ gathered \intersect retiring = {}
  /\ \A w \in gathered : ~Alive(w)
  /\ process' = "gone"
  /\ UNCHANGED <<supervisor, workers, matchState, gathered, forfeited, looks, faults>>
----------------------------------------------------------------------------
\* LiveWorker.run and ScorebotClient.

To(w, next) == stage' = [stage EXCEPT ![w] = next]

\* FeedRejected, FeedUnavailable (an idle poll included) or anything else: a pause.
Drops(w) == Fault /\ To(w, "sleeping") /\ UNCHANGED <<ready, polls>>

\* connect: packet 40 may come along with the handshake.
Connect(w) ==
  /\ stage[w] = "connecting"
  /\ \/ /\ To(w, "subscribing") /\ NoFault
        /\ \E came \in BOOLEAN : ready' = [ready EXCEPT ![w] = came]
        /\ polls' = [polls EXCEPT ![w] = WaitPolls]
     \/ Drops(w)
  /\ UNCHANGED <<supervisor, stop, held, awaiting, matchState, process, gathered,
                 forfeited, looks>>

\* subscribe: one poll for packet 40, readyForMatch after it, or a pause without it.
Subscribe(w) ==
  /\ stage[w] = "subscribing"
  /\ \/ /\ ~ready[w] /\ polls[w] > 0
        /\ polls' = [polls EXCEPT ![w] = @ - 1]
        /\ \E came \in BOOLEAN : ready' = [ready EXCEPT ![w] = came]
        /\ UNCHANGED stage /\ NoFault
     \/ ready[w] /\ To(w, "polling") /\ UNCHANGED <<ready, polls>> /\ NoFault
     \/ ~ready[w] /\ polls[w] = 0 /\ To(w, "sleeping") /\ UNCHANGED <<ready, polls>> /\ NoFault
     \/ Drops(w)
  /\ UNCHANGED <<supervisor, stop, held, awaiting, matchState, process, gathered,
                 forfeited, looks>>

\* Mutant: a start that has to wait is used on the spot.
Forgets(w, start, waits) == held' = [held EXCEPT ![w] = NoMap]
Keeps(w, start, waits) == held' = [held EXCEPT ![w] = IF waits THEN start ELSE NoMap]

\* _start_message_pending: until the message has left the queue, or for 30 seconds
\* after it was put there.
Pending(w) == {awaiting[w] /\ opening = "queued", FALSE}

\* What the machine sees in a frame: nothing (the warm-up, a frame it refuses, a map
\* that is recorded already), a round, or the end of the map.
Readings == IF playing \in finished THEN {"nothing"} ELSE {"nothing", "round", "end"}

\* _refresh_live_message: the card or the queue gets the start, unless this is the end
\* of the map, which freezes the card and makes no use of it.
Refresh(start, reading) ==
  IF reading = "end" THEN unused' = unused \union ({start} \ {NoMap}) /\ UNCHANGED startsTold
  ELSE startsTold' = startsTold \union ({start} \ {NoMap}) /\ UNCHANGED unused

\* _consume: a frame, also of the poll that was under way when the stop flag went up.
\* The first one that is not of the warm-up has the machine queue the opening message
\* if it was held back, and announce the map, unless the match is new to the service
\* and the map well on its way.  With nobody to read it the message is not waited for.
FeedFrame(w) ==
  /\ stage[w] = "polling" /\ playing # NoMap
  /\ \E reading \in Readings, fresh \in BOOLEAN, waits \in BOOLEAN :
       LET first == reading # "nothing" /\ playing \notin begun
           releases == first /\ opening = "none"
           start == IF fresh THEN playing ELSE held[w]
       IN /\ begun' = IF first THEN begun \union {playing} ELSE begun
          /\ finished' = IF reading = "end" THEN finished \union {playing} ELSE finished
          /\ opening' \in IF releases THEN {"queued", "sent"} ELSE {opening}
          /\ (fresh => first) /\ (first => fresh \/ begun = {})
          /\ born' = IF fresh THEN born \union {playing} ELSE born
          /\ forfeited' = IF fresh THEN forfeited \union ({held[w]} \ {NoMap}) ELSE forfeited
          /\ waits \in IF releases THEN {opening' = "queued"} ELSE Pending(w)
          /\ awaiting' = [awaiting EXCEPT ![w] = waits]
          /\ Keeps(w, start, waits)
          /\ IF waits THEN UNCHANGED <<startsTold, unused>> ELSE Refresh(start, reading)
  /\ UNCHANGED <<supervisor, stage, stop, ready, polls, playing, process, gathered,
                 looks, faults>>

\* The session breaks; a long poll that ends with nothing changes nothing.
Break(w) ==
  /\ stage[w] = "polling" /\ Drops(w)
  /\ UNCHANGED <<supervisor, stop, held, awaiting, matchState, process, gathered,
                 forfeited, looks>>

\* The loops of run and _consume, and the pause, see the stop flag.
Leave(w) ==
  /\ stage[w] \in {"polling", "sleeping"} /\ stop[w]
  /\ Ends(w)
  /\ UNCHANGED <<supervisor, stop, ready, polls, awaiting, matchState, process,
                 gathered, looks, faults>>

Reconnect(w) ==
  /\ stage[w] = "sleeping" /\ ~stop[w]
  /\ To(w, "connecting")
  /\ UNCHANGED <<supervisor, stop, ready, polls, held, awaiting, matchState, process,
                 gathered, forfeited, looks, faults>>
----------------------------------------------------------------------------
\* The match is played, and the queue sends its opening message.
NextMap ==
  /\ playing < LastMap /\ playing' = playing + 1
  /\ UNCHANGED <<supervisor, workers, begun, finished, opening, born, startsTold, unused,
                 process, gathered, forfeited, looks, faults>>

OpeningSent ==
  /\ opening = "queued" /\ opening' = "sent"
  /\ UNCHANGED <<supervisor, workers, playing, begun, finished, born, startsTold, unused,
                 process, gathered, forfeited, looks, faults>>

FeedsNext ==
  \/ \E running \in BOOLEAN : Reconcile(running)
  \/ \E w \in Workers : \/ Connect(w) \/ Subscribe(w) \/ FeedFrame(w) \/ Break(w)
                        \/ Leave(w) \/ Reconnect(w) \/ Retire(w)
  \/ Signal \/ Shutdown \/ Closed \/ NextMap \/ OpeningSent

FeedsSpec == FeedsInit /\ [][FeedsNext]_feedsVars
----------------------------------------------------------------------------
FeedsTypeOK ==
  /\ table \in Workers \union {NoWorker} /\ retiring \subseteq Workers
  /\ stage \in [Workers -> Phases]
  /\ stop \in [Workers -> BOOLEAN] /\ ready \in [Workers -> BOOLEAN]
  /\ awaiting \in [Workers -> BOOLEAN]
  /\ polls \in [Workers -> 0..WaitPolls] /\ held \in [Workers -> 0..LastMap]
  /\ playing \in 0..LastMap
  /\ begun \union finished \union born \union startsTold \union forfeited \union unused
       \subseteq 1..LastMap
  /\ opening \in {"none", "queued", "sent"}
  /\ process \in {"running", "cancelling", "releasing", "gone"} /\ gathered \subseteq Workers

\* However fast the poller changes its mind, only the worker in the table goes on:
\* any other that still runs has been told to stop and will be cancelled (ensure
\* while a retirement is running).
OneWorkerPerMatch ==
  \A w \in Workers : Alive(w) /\ w # table => stop[w] /\ w \in retiring

\* When shutdown returns, no worker uses the store that is about to be closed: the
\* one in the table and those still retiring have been waited for.
ShutdownLeavesNobody == process = "gone" => \A w \in Workers : ~Alive(w)

\* A map start is not lost by waiting for the opening message, nor by a reconnect
\* meanwhile, and not told twice: it is told, or is still to be told by its worker, or
\* that worker was stopped, or the next map had begun, or the frame it would have been
\* told with was the map's last (_map_started).
HeldStartIsKept ==
  /\ \A map \in born :
       map \in startsTold \union forfeited \union unused \/ \E w \in Workers : held[w] = map
  /\ \A w \in Workers : held[w] \notin startsTold \union forfeited \union unused
=============================================================================
