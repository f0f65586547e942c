----------------------------- MODULE OrderStream -----------------------------
(***************************************************************************)
(* The order-stream monitor of the Kite execution client                   *)
(* (native_client/order_stream.rs) and the account audit it drives         *)
(* (dispatch.rs).                                                          *)
(*                                                                         *)
(* One task runs two futures: the reader of Kite's order WebSocket, which  *)
(* notices silent and dropped connections and reconnects, and the          *)
(* reconciler, which a notification, two timers or a change of the         *)
(* connection sends through the dispatcher's lock to read Kite's books.    *)
(* They interleave at their awaits only.  Order commands of other tasks    *)
(* want the same lock and read the `ready` flag the two maintain.          *)
(*                                                                         *)
(* Simplifications:                                                        *)
(*  - Kite's books are a version number that every change raises; the      *)
(*    client has at most one unresolved order, and a read shows its end if *)
(*    it is recent enough and orders and trades do not disagree;           *)
(*  - timers are steps that may come at any time; elapsed time is counted  *)
(*    only where a bound depends on it (the grace of the audit in periods  *)
(*    of the 15 s timer, the reconnects that are still in the window).     *)
(***************************************************************************)
EXTENDS Integers

CONSTANTS
  MaxChanges,       \* bound: changes of Kite's books
  MaxGeneration,    \* bound: connections of the run
  MaxReconnects,    \* reconnects allowed in one window (MAX_RECONNECTS_PER_WINDOW)
  ConnectAttempts,  \* attempts per drop (CONNECT_ATTEMPTS)
  PositionsDiffer   \* whether a read of the positions ever differs

ASSUME ConfigAssumption ==
  /\ MaxChanges \in Nat /\ MaxGeneration \in Nat \ {0}
  /\ MaxReconnects \in Nat /\ ConnectAttempts \in Nat \ {0}
  /\ PositionsDiffer \in BOOLEAN

VARIABLES
  \* Kite and the network
  link,        \* the socket: up, halfOpen (dead without having closed), down
  books,       \* version of Kite's order and trade book
  inbox,       \* newest update on the wire (0: none)
  posOff,      \* Kite's position of the contract is not the owned fills
  \* the reader
  reader,      \* reading, probing (after the Ping), reconnecting
  attempt,     \* connection attempt after a drop
  drops,       \* reconnects inside the window
  told,        \* newest version an update was received for
  \* shared by the two futures
  permit,      \* Notify's one stored permit
  conn,        \* the connection watch: generation and connected
  news,        \* the watch has a value the reconciler has not seen
  \* the reconciler
  pass,        \* select, locking, reading, applying, auditing
  local,       \* its locals: the trigger, the connection when it took the lock,
               \* the books as it read them
  read,        \* history: version of the newest finished refresh
  atConnect,   \* history: books when the present connection was made
  mismatch,    \* the audit's first mismatch: -1 none, else timer periods ago
  \* shared with the order commands
  lock,        \* dispatcher lock: free, monitor, command
  unresolved,  \* the dispatcher has a record without an end
  endedAt,     \* version of the books that shows that order's end (0: none)
  ready,       \* entries are let through
  active,      \* the client takes commands
  poisoned,    \* the dispatcher takes nothing any more
  monitor      \* running, failing (error returned), flagged, ended

netVars == <<link, books, inbox, posOff>>
readerVars == <<reader, attempt, drops, told>>
sharedVars == <<permit, conn, news>>
passVars == <<pass, local, read, atConnect, mismatch>>
clientVars == <<lock, unresolved, endedAt, ready, active, poisoned>>
vars == <<netVars, readerVars, sharedVars, passVars, clientVars, monitor>>

-----------------------------------------------------------------------------
Connections == [generation : 1..MaxGeneration, connected : BOOLEAN]
First == [generation |-> 1, connected |-> TRUE]
Triggers == {"order_update", "fallback", "pending", "reconnect"}
NoPass == [trigger |-> "none", before |-> First, snap |-> 0]
Passes == [trigger : Triggers \cup {"none"}, before : Connections,
           snap : 0..MaxChanges]
Audits(t) == t \in {"fallback", "reconnect"}

Init ==
  /\ link = "up" /\ books = 0 /\ inbox = 0 /\ posOff = FALSE
  /\ reader = "reading" /\ attempt = 0 /\ drops = 0 /\ told = 0
  /\ permit = FALSE /\ conn = First /\ news = FALSE
  /\ pass = "select" /\ local = NoPass
  /\ read = 0 /\ atConnect = 0 /\ mismatch = -1
  /\ lock = "free" /\ unresolved = FALSE /\ endedAt = 0
  /\ ready = TRUE /\ active = TRUE /\ poisoned = FALSE
  /\ monitor = "running"

Running == monitor = "running" /\ active

-----------------------------------------------------------------------------
(* Kite and the network. *)

\* An order of the account changes; the update is sent on a live connection.
BooksChange(ours) ==
  /\ monitor = "running" /\ books < MaxChanges
  /\ ours => unresolved /\ endedAt = 0
  /\ books' = books + 1
  /\ endedAt' = IF ours THEN books + 1 ELSE endedAt
  /\ inbox' = IF link = "up" THEN books + 1 ELSE inbox
  /\ UNCHANGED <<link, posOff, readerVars, sharedVars, passVars, lock,
                 unresolved, ready, active, poisoned, monitor>>

LinkBreaks(how) ==
  /\ monitor = "running" /\ link = "up"
  /\ link' = how /\ inbox' = 0
  /\ UNCHANGED <<books, posOff, readerVars, sharedVars, passVars, clientVars, monitor>>

\* The position is traded outside the run.
Intrusion ==
  /\ monitor = "running" /\ PositionsDiffer /\ ~posOff
  /\ posOff' = TRUE
  /\ UNCHANGED <<link, books, inbox, readerVars, sharedVars, passVars, clientVars, monitor>>

-----------------------------------------------------------------------------
(* The reader. *)

\* Mutant: a notification that finds nobody waiting is gone.
NotifiedIfWaiting == permit' = (permit \/ pass = "select")
Notified == permit' = TRUE

UpdateArrives(v) ==
  /\ Running /\ reader \in {"reading", "probing"}
  /\ told < v /\ v <= inbox
  /\ told' = v
  /\ inbox' = IF v = inbox THEN 0 ELSE inbox
  /\ reader' = "reading"
  /\ Notified
  /\ UNCHANGED <<link, books, posOff, attempt, drops, conn, news, passVars, clientVars, monitor>>

\* Ten silent seconds: a Ping; any frame ends the probe.
Probe ==
  /\ Running /\ reader = "reading" /\ inbox = 0
  /\ reader' = "probing"
  /\ UNCHANGED <<netVars, attempt, drops, told, sharedVars, passVars, clientVars, monitor>>
Heartbeat ==
  /\ Running /\ reader = "probing" /\ link = "up"
  /\ reader' = "reading"
  /\ UNCHANGED <<netVars, attempt, drops, told, sharedVars, passVars, clientVars, monitor>>

PassEnds == pass' = "select" /\ local' = NoPass

\* An error of either future ends both: the other one is dropped where it
\* stands, and with it the lock it may hold.
Fails ==
  /\ monitor' = "failing"
  /\ PassEnds
  /\ lock' = IF lock = "monitor" THEN "free" ELSE lock

\* Mutant: the window is one reconnect too wide.
ReconnectAllowedOnceMore == drops <= MaxReconnects
ReconnectAllowed == drops < MaxReconnects

\* Closed, failed or silent for 15 s (which a live but slow connection may be):
\* entries pause, and the reader reconnects unless it did so too often.
Dropped ==
  /\ Running
  /\ \/ reader \in {"reading", "probing"} /\ link # "up"
     \/ reader = "probing"
  /\ link' = "down" /\ inbox' = 0
  /\ conn' = [conn EXCEPT !.connected = FALSE] /\ news' = TRUE
  /\ ready' = FALSE
  /\ IF ReconnectAllowed
       THEN /\ reader' = "reconnecting" /\ attempt' = 1 /\ drops' = drops + 1
            /\ UNCHANGED <<pass, local, lock, monitor>>
       ELSE Fails /\ UNCHANGED <<reader, attempt, drops>>
  /\ UNCHANGED <<books, posOff, told, permit, read, atConnect,
                 mismatch, unresolved, endedAt, active, poisoned>>

ConnectFails ==
  /\ Running /\ reader = "reconnecting"
  /\ IF attempt < ConnectAttempts
       THEN attempt' = attempt + 1 /\ UNCHANGED <<pass, local, lock, monitor>>
       ELSE Fails /\ UNCHANGED attempt
  /\ UNCHANGED <<netVars, reader, drops, told, sharedVars, read, atConnect, mismatch,
                 unresolved, endedAt, ready, active, poisoned>>

Connects ==
  /\ Running /\ reader = "reconnecting"
  /\ conn.generation < MaxGeneration
  /\ link' = "up" /\ reader' = "reading" /\ attempt' = 0
  /\ conn' = [generation |-> conn.generation + 1, connected |-> TRUE]
  /\ news' = TRUE
  /\ atConnect' = books
  /\ UNCHANGED <<books, inbox, posOff, drops, told, permit, pass, local, read, mismatch,
                 clientVars, monitor>>

\* The oldest reconnect leaves the ten-minute window.
WindowPasses ==
  /\ monitor = "running" /\ drops > 0
  /\ drops' = drops - 1
  /\ UNCHANGED <<netVars, reader, attempt, told, sharedVars, passVars, clientVars, monitor>>

\* A frame that is none of Kite's: invalid update, market data, failed Pong.
BadFrame ==
  /\ Running /\ reader \in {"reading", "probing"} /\ link = "up"
  /\ Fails
  /\ UNCHANGED <<netVars, readerVars, sharedVars, read, atConnect,
                 mismatch, unresolved, endedAt, ready, active, poisoned>>

-----------------------------------------------------------------------------
(* The reconciler. *)

\* Mutant: a dropped connection also stops the timers' passes.
WakesWhileConnected(t) ==
  /\ Running /\ pass = "select" /\ conn.connected
  /\ t = "order_update" => permit
  /\ t = "reconnect" => news
  /\ permit' = (permit /\ t # "order_update")
  /\ news' = (news /\ t # "reconnect")
  /\ pass' = "locking" /\ local' = [NoPass EXCEPT !.trigger = t]
  /\ mismatch' = IF t = "fallback" /\ mismatch \in 0..2 THEN mismatch + 1 ELSE mismatch
  /\ UNCHANGED <<netVars, readerVars, conn, read, atConnect, clientVars, monitor>>

Wakes(t) ==
  /\ Running /\ pass = "select"
  /\ t = "order_update" => permit
  /\ t = "reconnect" => news
  /\ permit' = (permit /\ t # "order_update")
  /\ news' = (news /\ t # "reconnect")
  /\ pass' = "locking" /\ local' = [NoPass EXCEPT !.trigger = t]
  /\ mismatch' = IF t = "fallback" /\ mismatch \in 0..2 THEN mismatch + 1 ELSE mismatch
  /\ UNCHANGED <<netVars, readerVars, conn, read, atConnect, clientVars, monitor>>

\* With no order in flight the pending timer has nothing to do.
Skipped(t) == t = "pending" /\ ~unresolved

Locks ==
  /\ Running /\ pass = "locking" /\ lock = "free"
  /\ IF Skipped(local.trigger)
       THEN PassEnds /\ UNCHANGED <<lock, news>>
       ELSE /\ pass' = "reading" /\ lock' = "monitor" /\ news' = FALSE
            /\ local' = [local EXCEPT !.before = conn]
  /\ UNCHANGED <<netVars, readerVars, permit, conn, read, atConnect, mismatch,
                 unresolved, endedAt, ready, active, poisoned, monitor>>

\* Kite answers the reads of the books.
Reads ==
  /\ Running /\ pass = "reading"
  /\ local' = [local EXCEPT !.snap = books] /\ pass' = "applying"
  /\ UNCHANGED <<netVars, readerVars, sharedVars, read, atConnect, mismatch,
                 clientVars, monitor>>

\* Mutant: only the connected flags are compared.
CurrentIfConnected == local.before.connected = conn.connected /\ conn.connected /\ active
Current == local.before = conn /\ conn.connected /\ active

\* Mutant: a pass can only keep entries open.
FinishesKeeping == PassEnds /\ lock' = "free" /\ ready' = (ready /\ Current)

\* The pass ends: entries reopen only from a pass of the present connection.
Finishes == PassEnds /\ lock' = "free" /\ ready' = Current

\* The answer is applied; after three lagging reads nothing is.
Applies(lag) ==
  /\ Running /\ pass = "applying"
  /\ lag => unresolved
  /\ read' = local.snap
  /\ IF ~lag /\ unresolved /\ endedAt \in 1..local.snap
       THEN unresolved' = FALSE /\ endedAt' = 0
       ELSE UNCHANGED <<unresolved, endedAt>>
  /\ IF Audits(local.trigger)
       THEN pass' = "auditing" /\ UNCHANGED <<local, lock, ready>>
       ELSE Finishes
  /\ UNCHANGED <<netVars, readerVars, sharedVars, atConnect, mismatch,
                 active, poisoned, monitor>>

\* Mutant: every audit starts the grace anew.
SinceAnew == 0
Since == IF mismatch = -1 THEN 0 ELSE mismatch

\* Twenty seconds are over at the second or third audit of the 15 s timer (a
\* reconnect's audit may come in between).
MayBeOver(periods) == periods >= 1
MustBeOver(periods) == periods >= 3

\* A mismatch may be lag: it is tolerated for the grace, a match forgets it.
AuditMatches ==
  /\ Running /\ pass = "auditing" /\ ~posOff
  /\ mismatch' = -1
  /\ Finishes
  /\ UNCHANGED <<netVars, readerVars, sharedVars, read, atConnect,
                 unresolved, endedAt, active, poisoned, monitor>>
AuditTolerates ==
  /\ Running /\ pass = "auditing" /\ PositionsDiffer
  /\ ~MustBeOver(Since)
  /\ mismatch' = Since
  /\ Finishes
  /\ UNCHANGED <<netVars, readerVars, sharedVars, read, atConnect,
                 unresolved, endedAt, active, poisoned, monitor>>
AuditFails ==
  /\ Running /\ pass = "auditing" /\ PositionsDiffer
  /\ MayBeOver(Since)
  /\ mismatch' = Since
  /\ Fails
  /\ UNCHANGED <<netVars, readerVars, sharedVars, read, atConnect,
                 unresolved, endedAt, ready, active, poisoned>>

\* A read fails for good, or shows something that is not the run's.
ReadFails ==
  /\ Running /\ pass \in {"reading", "auditing"}
  /\ Fails
  /\ UNCHANGED <<netVars, readerVars, sharedVars, read, atConnect,
                 mismatch, unresolved, endedAt, ready, active, poisoned>>

-----------------------------------------------------------------------------
(* The end of the monitor: the lock was given back before the flags fall, and *)
(* the dispatcher is faulted when the lock is next free.                      *)

Flagged ==
  /\ monitor = "failing"
  /\ ready' = FALSE /\ active' = FALSE
  /\ monitor' = "flagged"
  /\ UNCHANGED <<netVars, readerVars, sharedVars, passVars, lock, unresolved, endedAt, poisoned>>
Faulted ==
  /\ monitor = "flagged" /\ lock = "free"
  /\ poisoned' = TRUE
  /\ monitor' = "ended"
  /\ UNCHANGED <<netVars, readerVars, sharedVars, passVars, lock, unresolved, endedAt, ready, active>>

\* The client was stopped by somebody else.
Ended ==
  /\ monitor = "running" /\ ~active
  /\ ready' = FALSE
  /\ PassEnds
  /\ lock' = IF lock = "monitor" THEN "free" ELSE lock
  /\ monitor' = "ended"
  /\ UNCHANGED <<netVars, readerVars, sharedVars, read, atConnect,
                 mismatch, unresolved, endedAt, active, poisoned>>

-----------------------------------------------------------------------------
(* Order commands of other tasks. *)

OrderSent(reduce) ==
  /\ active /\ lock = "free" /\ ~poisoned
  /\ ~unresolved /\ (reduce \/ ready)
  /\ books < MaxChanges \* bound: this order can end, too
  /\ lock' = "command" /\ unresolved' = TRUE /\ endedAt' = 0
  /\ UNCHANGED <<netVars, readerVars, sharedVars, passVars, ready, active, poisoned, monitor>>

OrderAnswered ==
  /\ lock = "command"
  /\ lock' = "free"
  /\ UNCHANGED <<netVars, readerVars, sharedVars, passVars, unresolved, endedAt, ready, active,
                 poisoned, monitor>>

CommandFails ==
  /\ lock = "command"
  /\ lock' = "free" /\ poisoned' = TRUE /\ active' = FALSE
  /\ UNCHANGED <<netVars, readerVars, sharedVars, passVars, unresolved, endedAt, ready, monitor>>

-----------------------------------------------------------------------------
Kite == \/ \E ours \in BOOLEAN : BooksChange(ours)
        \/ \E how \in {"halfOpen", "down"} : LinkBreaks(how)
        \/ Intrusion
Reader == \/ \E v \in 1..MaxChanges : UpdateArrives(v)
          \/ Probe \/ Heartbeat \/ Dropped \/ ConnectFails \/ Connects
          \/ WindowPasses \/ BadFrame
Reconciler == \/ \E t \in Triggers : Wakes(t)
              \/ Locks \/ Reads \/ (\E lag \in BOOLEAN : Applies(lag))
              \/ AuditMatches \/ AuditTolerates \/ AuditFails \/ ReadFails
Commands == \/ \E reduce \in BOOLEAN : OrderSent(reduce)
            \/ OrderAnswered \/ CommandFails

Next == \/ Kite \/ Reader \/ Reconciler \/ Commands
        \/ Flagged \/ Faulted \/ Ended

Spec == Init /\ [][Next]_vars

\* The timers fire, select! chooses at random, reads return, the books settle
\* and a command gives the lock back.
Fairness ==
  /\ SF_vars(Wakes("pending")) /\ SF_vars(Wakes("fallback"))
  /\ SF_vars(Locks)
  /\ WF_vars(Reads \/ AuditMatches \/ AuditTolerates \/ AuditFails)
  /\ WF_vars(\E lag \in BOOLEAN : Applies(lag)) /\ SF_vars(Applies(FALSE))
  /\ WF_vars(OrderAnswered \/ CommandFails)
  /\ WF_vars(Flagged \/ Ended)

LiveSpec == Spec /\ Fairness

-----------------------------------------------------------------------------
\* Every variable keeps its type.
TypeOK ==
  /\ link \in {"up", "halfOpen", "down"}
  /\ books \in 0..MaxChanges /\ inbox \in 0..MaxChanges /\ posOff \in BOOLEAN
  /\ reader \in {"reading", "probing", "reconnecting"}
  /\ attempt \in 0..ConnectAttempts /\ drops \in 0..MaxReconnects
  /\ told \in 0..MaxChanges
  /\ permit \in BOOLEAN /\ conn \in Connections /\ news \in BOOLEAN
  /\ pass \in {"select", "locking", "reading", "applying", "auditing"}
  /\ local \in Passes
  /\ read \in 0..MaxChanges /\ atConnect \in 0..MaxChanges
  /\ mismatch \in -1..3
  /\ lock \in {"free", "monitor", "command"}
  /\ unresolved \in BOOLEAN /\ endedAt \in 0..MaxChanges
  /\ ready \in BOOLEAN /\ active \in BOOLEAN /\ poisoned \in BOOLEAN
  /\ monitor \in {"running", "failing", "flagged", "ended"}

\* While entries are let through, everything that changed at Kite before the
\* present connection was made has been read: a pass begun before a disconnect
\* never reopens entries, however many drops and reconnects it lives through.
ReadyMeansRead == ready /\ monitor = "running" => conn.connected /\ atConnect <= read

\* An update that was received is never forgotten: it has been read, or a pass
\* that will read it is under way or certain to start.
NoLostUpdate ==
  monitor = "running" =>
    \/ told <= read
    \/ permit
    \/ pass = "locking" /\ ~Skipped(local.trigger)
    \/ pass = "reading"
    \/ pass = "applying" /\ told <= local.snap

\* An order that ended at Kite is resolved although its update may be lost, the
\* connection half-open or down, and the books lagging: the pending timer reads.
EndedOrderResolved == unresolved /\ endedAt # 0 ~> ~unresolved \/ ~active

\* Entries reopen while the connection holds: no pass leaves them paused for good.
EntriesReopen == ~ready /\ conn.connected ~> ready \/ ~conn.connected \/ ~active

\* A position that is really not the run's stops the client: reconnects and
\* audits in between do not keep postponing the end of the grace.
MismatchStops == posOff ~> ~active
=============================================================================
