------------------------------ MODULE DashQueue ------------------------------
(***************************************************************************)
(* The dashboard of a run (native_node/dash_writer.rs, dashboard.rs).  The *)
(* strategy and the stop watcher push updates into a queue each, which     *)
(* drops what does not fit; one thread applies them to the board and       *)
(* writes the board, with the events that are new, to a Redis of its own,  *)
(* if one is configured; model_live.rs closes the thread when the node has *)
(* stopped.                                                                *)
(*                                                                         *)
(* An update is a broker fill (Board::apply_fill) or an event              *)
(* (Board::event), numbered by its producer.                               *)
(***************************************************************************)
EXTENDS Integers, Sequences, Totals

CONSTANTS
  Queue,        \* updates a queue holds (QUEUE)
  PendingKept,  \* events that wait for the writer (PENDING_KEPT)
  Fills,        \* lots of a fill, signed
  MaxPushed,    \* bound: updates of a producer
  MaxFailures   \* bound: failures of the dashboard's Redis

\* Assumed by Services.
DashAssumption ==
  /\ Queue \in Nat \ {0} /\ PendingKept \in Nat \ {0}
  /\ Fills \subseteq Int \ {0}
  /\ MaxPushed \in Nat /\ MaxFailures \in Nat

Producers == {"strategy", "watcher"}

VARIABLES
  pushed,    \* of each producer: how many updates, and the lots of its fills
  queue,     \* of each producer: the updates that wait
  dropped,   \* updates that did not fit
  stop,      \* Publisher::close has been called
  late,      \* the watcher has pushed since
  thread,    \* where the thread is
  stopping,  \* the flag as the thread read it
  board,     \* the thread's board
  noted,     \* history: the events the board has taken, the oldest first
  redis,     \* the dashboard's Redis: whether its board is the thread's, its events
  sink,      \* whether there is a Redis, the connection, and whether RETRY runs
  failures

feedVars == <<pushed, queue, dropped, stop, late>>
vars == <<feedVars, thread, stopping, board, noted, redis, sink, failures>>

NewBoard == [position |-> 0, trips |-> 0, fills |-> 0, dropped |-> 0, pending |-> <<>>]

Init ==
  /\ pushed = [p \in Producers |-> [count |-> 0, lots |-> 0]] /\ queue = [p \in Producers |-> <<>>]
  /\ dropped = 0 /\ stop = FALSE /\ late = FALSE
  /\ thread = "flag" /\ stopping = FALSE
  /\ board = NewBoard /\ noted = <<>>
  /\ redis = [current |-> FALSE, events |-> <<>>]
  /\ sink \in [attached : BOOLEAN, connected : {FALSE}, waits : {FALSE}]
  /\ failures = 0

-----------------------------------------------------------------------------
(* Board *)

Sign(x) == CASE x > 0 -> 1 [] x < 0 -> -1 [] OTHER -> 0

\* Board::apply_fill
Filled(b, lots) ==
  LET after == b.position + lots
  IN  [b EXCEPT !.fills = @ + 1, !.position = after,
                !.trips = IF b.position # 0 /\ Sign(after) # Sign(b.position) THEN @ + 1 ELSE @]

\* Board::event: the oldest gives way, and nothing counts it.
Noted(b, event) ==
  LET all == Append(b.pending, event)
  IN  [b EXCEPT !.pending = IF Len(all) <= PendingKept THEN all ELSE Tail(all)]

Applied(b, p, u) ==
  IF u.lots # 0 THEN Filled(b, u.lots) ELSE Noted(b, <<p, u.n>>)

-----------------------------------------------------------------------------
(* The producers, and the end of the run. *)

\* Feed::push.  The strategy has ended when the run closes the thread; the watcher is
\* aborted and not joined: a poll of it that is under way makes its push all the same.
Push(p) ==
  /\ ~stop \/ (p = "watcher" /\ ~late)
  /\ late' = stop
  /\ pushed[p].count < MaxPushed
  /\ \E lots \in IF p = "strategy" THEN Fills \cup {0} ELSE {0} :
       LET u == [n |-> pushed[p].count + 1, lots |-> lots]
       IN  /\ pushed' = [pushed EXCEPT ![p] = [count |-> u.n, lots |-> @.lots + lots]]
           /\ IF Len(queue[p]) < Queue
                THEN queue' = [queue EXCEPT ![p] = Append(@, u)] /\ UNCHANGED dropped
                ELSE dropped' = dropped + 1 /\ UNCHANGED queue
  /\ UNCHANGED <<stop, thread, stopping, board, noted, redis, sink, failures>>

\* Publisher::close, or its drop.
Close ==
  /\ ~stop /\ stop' = TRUE
  /\ UNCHANGED <<pushed, queue, dropped, late, thread, stopping, board, noted, redis, sink, failures>>

-----------------------------------------------------------------------------
(* The thread: dash_writer::run *)

ReadsFlag ==
  /\ thread = "flag"
  /\ stopping' = stop /\ thread' = "strategy"
  /\ UNCHANGED <<feedVars, board, noted, redis, sink, failures>>

\* Each queue in turn, one update at a time until none is left.
Drains(p, then) ==
  /\ thread = p
  /\ IF queue[p] = <<>>
       THEN thread' = then /\ UNCHANGED <<queue, board, noted, redis>>
       ELSE /\ board' = Applied(board, p, Head(queue[p]))
            /\ noted' = IF Head(queue[p]).lots # 0 THEN noted
                        ELSE Append(noted, <<p, Head(queue[p]).n>>)
            /\ queue' = [queue EXCEPT ![p] = Tail(@)]
            /\ redis' = [redis EXCEPT !.current = FALSE]
            /\ UNCHANGED thread
  /\ UNCHANGED <<pushed, dropped, stop, late, stopping, sink, failures>>

\* Mutant: the flag is looked at again at the end of the round.
EndsByTheFlagNow == stop
\* The thread ends when the flag it read before it drained the queues was up.
Ends == stopping
Round == IF Ends THEN "done" ELSE "flag"

CountsDropped ==
  /\ thread = "counts"
  /\ board' = [board EXCEPT !.dropped = dropped]
  /\ redis' = [redis EXCEPT !.current = @ /\ board.dropped = dropped]
  /\ thread' = "flush"
  /\ UNCHANGED <<feedVars, noted, stopping, sink, failures>>

\* No Redis: the events go with the board alone.
Unpublished ==
  /\ thread = "flush" /\ ~sink.attached
  /\ board' = [board EXCEPT !.pending = <<>>]
  /\ thread' = Round
  /\ UNCHANGED <<feedVars, stopping, noted, redis, sink, failures>>

\* Neither MIN_FLUSH nor HEARTBEAT is over.
NothingToFlush ==
  /\ thread = "flush" /\ sink.attached /\ ~stopping
  /\ thread' = Round
  /\ UNCHANGED <<feedVars, stopping, board, noted, redis, sink, failures>>

Flushed == thread = "flush" /\ sink.attached /\ thread' = Round

\* Sink::flush without a connection: RETRY is not over, or connecting fails.
NoConnection ==
  /\ Flushed /\ ~sink.connected
  /\ \/ sink.waits /\ UNCHANGED failures
     \/ ~sink.waits /\ failures < MaxFailures /\ failures' = failures + 1
  /\ sink' = [sink EXCEPT !.waits = TRUE]
  /\ UNCHANGED <<feedVars, stopping, board, noted, redis>>

\* One pipeline: the snapshot, then the events.
Written ==
  /\ redis' = [current |-> TRUE, events |-> redis.events \o board.pending]
  /\ board' = [board EXCEPT !.pending = <<>>]
  /\ sink' = [sink EXCEPT !.connected = TRUE, !.waits = FALSE]

FlushSucceeds ==
  /\ Flushed /\ (sink.connected \/ ~sink.waits)
  /\ Written
  /\ UNCHANGED <<feedVars, stopping, noted, failures>>

\* The pipeline breaks off, or its answer does: any part of it was executed.
FlushFails ==
  /\ Flushed /\ (sink.connected \/ ~sink.waits)
  /\ failures < MaxFailures /\ failures' = failures + 1
  /\ \/ UNCHANGED redis
     \/ \E k \in 0..Len(board.pending) :
          redis' = [current |-> TRUE, events |-> redis.events \o SubSeq(board.pending, 1, k)]
  /\ sink' = [sink EXCEPT !.connected = FALSE, !.waits = TRUE]
  /\ UNCHANGED <<feedVars, stopping, board, noted>>

\* RETRY is over.
RetryDue ==
  /\ sink.waits /\ sink' = [sink EXCEPT !.waits = FALSE]
  /\ UNCHANGED <<feedVars, thread, stopping, board, noted, redis, failures>>

Next ==
  \/ \E p \in Producers : Push(p)
  \/ Close
  \/ ReadsFlag \/ Drains("strategy", "watcher") \/ Drains("watcher", "counts")
  \/ CountsDropped \/ Unpublished \/ NothingToFlush \/ NoConnection \/ FlushSucceeds \/ FlushFails \/ RetryDue

Spec == Init /\ [][Next]_vars

-----------------------------------------------------------------------------
LotsWaiting(p) == Total([i \in DOMAIN queue[p] |-> queue[p][i].lots])
Waiting == Len(queue["strategy"]) + Len(queue["watcher"])
Pushed == pushed["strategy"].count + pushed["watcher"].count
Kept(event) ==
  \E list \in {redis.events, board.pending} : \E i \in DOMAIN list : list[i] = event

\* Each update is applied once, waits in its queue or is counted as dropped, and while
\* none is dropped the board's position is that of the fills.  Of the events, the
\* latest PendingKept are in Redis or on their way there, through any failure of it: one
\* is lost only behind that many newer ones (dash_writer.rs:17-18).  When the thread has
\* ended, what still waits is at most the one push of the watcher that came after the
\* close, the board has the last count of what was dropped, and Redis shows the
\* thread's board and all that was pending, unless its connection is down.
UpdatesAccountedFor ==
  /\ board.fills + Len(noted) + Waiting + dropped = Pushed
  /\ dropped = 0 => board.position + LotsWaiting("strategy") = pushed["strategy"].lots
  /\ sink.attached =>
       \A i \in DOMAIN noted : i > Len(noted) - PendingKept => Kept(noted[i])
  /\ thread = "done" =>
       /\ Waiting <= IF late THEN 1 ELSE 0
       /\ queue["strategy"] = <<>>
       /\ board.dropped = dropped
       /\ sink.connected => redis.current /\ board.pending = <<>>
=============================================================================
