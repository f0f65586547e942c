-------------------------- MODULE OrderStream_proofs --------------------------
(***************************************************************************)
(* Proofs about OrderStream for any number of book changes, connections,   *)
(* reconnects and attempts, and whether or not positions differ: type      *)
(* correctness, that entries are let through only on a connection whose    *)
(* past has been read, and that no update received is forgotten.           *)
(***************************************************************************)
EXTENDS OrderStream, TLAPS

USE ConfigAssumption

-----------------------------------------------------------------------------
(* The inductive invariant *)

\* Nobody knows of books that Kite has not had yet.
KnownHasBeen ==
  /\ inbox <= books /\ told <= books /\ endedAt <= books
  /\ atConnect <= books /\ read <= books

\* A pass reads no older books than the pass before it, and the connection it
\* noted when it took the lock is not ahead of the present one.
PassMovesOn ==
  /\ pass = "applying" => read <= local.snap /\ local.snap <= books
  /\ pass \in {"reading", "applying", "auditing"} =>
       local.before.generation <= conn.generation

\* If the present connection is the one a pass noted, what the pass read is not
\* older than the connection: the generation would have moved.
PassReadsSinceConnect ==
  conn.connected /\ local.before.generation = conn.generation =>
    /\ pass = "applying" => atConnect <= local.snap
    /\ pass = "auditing" => atConnect <= read

\* While the reader reconnects the watch says so.
ReconnectingIsKnown == monitor = "running" /\ reader = "reconnecting" => ~conn.connected

IInv == /\ KnownHasBeen /\ PassMovesOn /\ PassReadsSinceConnect
        /\ ReconnectingIsKnown /\ ReadyMeansRead /\ NoLostUpdate

-----------------------------------------------------------------------------
(* Type correctness *)

\* Every step keeps every variable in its type.
LEMMA TypeStep == TypeOK /\ [Next]_vars => TypeOK'
<1> SUFFICES ASSUME TypeOK, [Next]_vars PROVE TypeOK'
  OBVIOUS
<1> USE DEF TypeOK, vars, netVars, readerVars, sharedVars, passVars, clientVars
<1>1. NoPass \in Passes
  BY DEF NoPass, Passes, Connections, First
<1>2. CASE Kite
  <2>1. ASSUME NEW ours \in BOOLEAN, BooksChange(ours) PROVE TypeOK'
    BY <2>1 DEF BooksChange
  <2>2. ASSUME NEW how \in {"halfOpen", "down"}, LinkBreaks(how) PROVE TypeOK'
    BY <2>2 DEF LinkBreaks
  <2>3. CASE Intrusion
    BY <2>3 DEF Intrusion
  <2>4. QED BY <1>2, <2>1, <2>2, <2>3 DEF Kite
<1>3. CASE Reader
  <2>1. ASSUME NEW v \in 1..MaxChanges, UpdateArrives(v) PROVE TypeOK'
    <3>1. permit' \in BOOLEAN
      BY <2>1, Zenon DEF UpdateArrives, Notified
    <3>2. QED BY <2>1, <3>1 DEF UpdateArrives
  <2>2. CASE Probe BY <2>2 DEF Probe
  <2>3. CASE Heartbeat BY <2>3 DEF Heartbeat
  <2>4. CASE Dropped
    <3>1. ready' \in BOOLEAN /\ news' \in BOOLEAN
      BY <2>4, Zenon DEF Dropped
    <3>2. conn' \in Connections
      BY <2>4 DEF Dropped, Connections
    <3>3. reader' \in {"reading", "probing", "reconnecting"}
          /\ attempt' \in 0..ConnectAttempts /\ drops' \in 0..MaxReconnects
      BY <2>4 DEF Dropped, ReconnectAllowed
    <3>4. pass' \in {"select", "locking", "reading", "applying", "auditing"}
          /\ local' \in Passes /\ lock' \in {"free", "monitor", "command"}
          /\ monitor' \in {"running", "failing", "flagged", "ended"}
      BY <1>1, <2>4 DEF Dropped, Fails, PassEnds
    <3>5. QED BY <2>4, <3>1, <3>2, <3>3, <3>4 DEF Dropped
  <2>5. CASE ConnectFails BY <1>1, <2>5 DEF ConnectFails, Fails, PassEnds
  <2>6. CASE Connects BY <2>6 DEF Connects, Connections
  <2>7. CASE WindowPasses BY <2>7 DEF WindowPasses
  <2>8. CASE BadFrame BY <1>1, <2>8 DEF BadFrame, Fails, PassEnds
  <2>9. QED BY <1>3, <2>1, <2>2, <2>3, <2>4, <2>5, <2>6, <2>7, <2>8 DEF Reader
<1>4. CASE Reconciler
  <2>1. ASSUME NEW t \in Triggers, Wakes(t) PROVE TypeOK'
    <3>1. local' \in Passes
      BY <1>1, <2>1 DEF Wakes, Passes, NoPass
    <3>2. QED BY <2>1, <3>1 DEF Wakes
  <2>2. CASE Locks
    <3>1. news' \in BOOLEAN
      BY <2>2, Zenon DEF Locks
    <3>2. local' \in Passes
      BY <1>1, <2>2 DEF Locks, PassEnds, Passes
    <3>3. QED BY <2>2, <3>1, <3>2 DEF Locks, PassEnds
  <2>3. CASE Reads
    BY <2>3 DEF Reads, Passes
  <2>4. ASSUME NEW lag \in BOOLEAN, Applies(lag) PROVE TypeOK'
    <3>1. local' \in Passes /\ local.snap \in 0..MaxChanges
      BY <1>1, <2>4 DEF Applies, Finishes, PassEnds, Passes
    <3>2. unresolved' \in BOOLEAN
      BY <2>4, Zenon DEF Applies
    <3>3. CASE Audits(local.trigger)
      BY <2>4, <3>1, <3>2, <3>3 DEF Applies
    <3>4. CASE ~Audits(local.trigger)
      <4>1. Finishes BY <2>4, <3>4 DEF Applies
      <4>2. ready' \in BOOLEAN
        BY <4>1 DEF Finishes, Current
      <4>3. QED BY <2>4, <3>1, <3>2, <4>1, <4>2 DEF Applies, Finishes, PassEnds
    <3>5. QED BY <3>3, <3>4
  <2>5. CASE AuditMatches
    BY <1>1, <2>5 DEF AuditMatches, Finishes, PassEnds, Current
  <2>6. CASE AuditTolerates
    BY <1>1, <2>6 DEF AuditTolerates, Finishes, PassEnds, Current, Since, MustBeOver
  <2>7. CASE AuditFails
    BY <1>1, <2>7 DEF AuditFails, Fails, PassEnds, Since
  <2>8. CASE ReadFails
    BY <1>1, <2>8 DEF ReadFails, Fails, PassEnds
  <2>9. QED BY <1>4, <2>1, <2>2, <2>3, <2>4, <2>5, <2>6, <2>7, <2>8 DEF Reconciler
<1>5. CASE Commands
  <2>1. unresolved' \in BOOLEAN /\ poisoned' \in BOOLEAN /\ active' \in BOOLEAN
    BY <1>5, Zenon DEF Commands, OrderSent, OrderAnswered, CommandFails
  <2>2. QED BY <1>5, <2>1 DEF Commands, OrderSent, OrderAnswered, CommandFails
<1>6. CASE Flagged
  <2>1. ready' \in BOOLEAN /\ active' \in BOOLEAN
    BY <1>6, Zenon DEF Flagged
  <2>2. QED BY <1>6, <2>1 DEF Flagged
<1>7. CASE Faulted BY <1>7 DEF Faulted
<1>8. CASE Ended BY <1>1, <1>8 DEF Ended, PassEnds
<1>9. CASE UNCHANGED vars BY <1>9
<1>10. QED
  BY <1>2, <1>3, <1>4, <1>5, <1>6, <1>7, <1>8, <1>9 DEF Next

\* A monitor that has just connected is well typed.
LEMMA TypeInit == Init => TypeOK
<1> SUFFICES ASSUME Init PROVE TypeOK
  OBVIOUS
<1>1. /\ posOff \in BOOLEAN /\ permit \in BOOLEAN /\ news \in BOOLEAN
      /\ unresolved \in BOOLEAN /\ ready \in BOOLEAN
      /\ active \in BOOLEAN /\ poisoned \in BOOLEAN
  BY Zenon DEF Init
<1>2. QED BY <1>1 DEF Init, TypeOK, NoPass, Passes, Connections, First

\* Every reachable state is well typed.
THEOREM TypeCorrect == Spec => []TypeOK
BY TypeInit, TypeStep, PTL DEF Spec

-----------------------------------------------------------------------------
(* What is read, and when *)

\* A monitor that has just connected has read everything.
LEMMA InitIInv == Init => IInv
BY DEF Init, IInv, KnownHasBeen, PassMovesOn, PassReadsSinceConnect,
       ReconnectingIsKnown, ReadyMeansRead, NoLostUpdate, NoPass, First

\* What Kite and the network do: the books only get newer.
LEMMA KiteStep ==
  ASSUME TypeOK, IInv, Kite
  PROVE  IInv'
<1> USE DEF TypeOK, readerVars, sharedVars, passVars, clientVars, IInv, KnownHasBeen,
            PassMovesOn, PassReadsSinceConnect, ReconnectingIsKnown, ReadyMeansRead,
            NoLostUpdate, Skipped
<1>1. ASSUME NEW ours \in BOOLEAN, BooksChange(ours) PROVE IInv'
  <2>1. KnownHasBeen'
    BY <1>1 DEF BooksChange
  <2>2. PassMovesOn' /\ PassReadsSinceConnect' /\ ReconnectingIsKnown'
    BY <1>1 DEF BooksChange, Passes
  <2>3. ReadyMeansRead' /\ NoLostUpdate'
    BY <1>1 DEF BooksChange
  <2>4. QED BY <2>1, <2>2, <2>3
<1>2. ASSUME NEW how \in {"halfOpen", "down"}, LinkBreaks(how) PROVE IInv'
  BY <1>2 DEF LinkBreaks
<1>3. CASE Intrusion
  BY <1>3 DEF Intrusion
<1>4. QED BY <1>1, <1>2, <1>3 DEF Kite

\* What the reader does: an update leaves a permit, a drop pauses entries, and
\* a new connection outdates the pass that is under way.
LEMMA ReaderStep ==
  ASSUME TypeOK, IInv, Reader
  PROVE  IInv'
<1> USE DEF TypeOK, netVars, readerVars, sharedVars, passVars, clientVars, IInv, KnownHasBeen,
            PassMovesOn, PassReadsSinceConnect, ReconnectingIsKnown, ReadyMeansRead,
            NoLostUpdate, Skipped
<1>1. ASSUME NEW v \in 1..MaxChanges, UpdateArrives(v) PROVE IInv'
  BY <1>1 DEF UpdateArrives, Notified
<1>2. CASE Probe \/ Heartbeat \/ WindowPasses
  BY <1>2 DEF Probe, Heartbeat, WindowPasses
<1>3. CASE Dropped
  BY <1>3 DEF Dropped, Fails, PassEnds, Connections, NoPass
<1>4. CASE ConnectFails
  BY <1>4 DEF ConnectFails, Fails, PassEnds, NoPass
<1>5. CASE Connects
  BY <1>5 DEF Connects, Passes, Connections
<1>6. CASE BadFrame
  BY <1>6 DEF BadFrame, Fails, PassEnds, NoPass
<1>7. QED BY <1>1, <1>2, <1>3, <1>4, <1>5, <1>6 DEF Reader

\* What the reconciler does: it gives up a permit only for a pass that reads,
\* and reopens entries only from a pass of the present connection.
LEMMA ReconcilerStep ==
  ASSUME TypeOK, IInv, Reconciler
  PROVE  IInv'
<1> USE DEF TypeOK, netVars, readerVars, sharedVars, passVars, clientVars, IInv, KnownHasBeen,
            PassMovesOn, PassReadsSinceConnect, ReconnectingIsKnown, ReadyMeansRead,
            NoLostUpdate, Skipped
<1>1. ASSUME NEW t \in Triggers, Wakes(t) PROVE IInv'
  BY <1>1 DEF Wakes, NoPass, Triggers
<1>2. CASE Locks
  BY <1>2 DEF Locks, PassEnds, Passes, Connections
<1>3. CASE Reads
  BY <1>3 DEF Reads, Passes
<1>4. ASSUME NEW lag \in BOOLEAN, Applies(lag) PROVE IInv'
  <2>1. /\ monitor = "running" /\ monitor' = "running" /\ pass = "applying"
        /\ read' = local.snap /\ read <= read'
        /\ UNCHANGED <<netVars, readerVars, sharedVars, atConnect>>
        /\ endedAt' = endedAt \/ endedAt' = 0
    BY <1>4 DEF Applies, Running, Passes
  <2>2. local.before \in Connections
    BY DEF Passes
  <2>3. CASE Audits(local.trigger)
    <3>1. pass' = "auditing" /\ local' = local /\ ready' = ready
      BY <1>4, <2>3 DEF Applies
    <3>2. QED BY <2>1, <2>2, <3>1 DEF Connections, Passes
  <2>4. CASE ~Audits(local.trigger)
    <3>1. pass' = "select" /\ ready' = Current
      BY <1>4, <2>4 DEF Applies, Finishes, PassEnds
    <3>2. QED BY <2>1, <2>2, <3>1 DEF Current, Connections, Passes
  <2>5. QED BY <2>3, <2>4
<1>5. CASE AuditMatches \/ AuditTolerates
  BY <1>5 DEF AuditMatches, AuditTolerates, Finishes, PassEnds, Current
<1>6. CASE AuditFails \/ ReadFails
  BY <1>6 DEF AuditFails, ReadFails, Fails, PassEnds
<1>7. QED BY <1>1, <1>2, <1>3, <1>4, <1>5, <1>6 DEF Reconciler

\* Order commands and the end of the monitor read nothing and reopen nothing.
LEMMA OtherStep ==
  ASSUME TypeOK, IInv, Commands \/ Flagged \/ Faulted \/ Ended
  PROVE  IInv'
<1> USE DEF TypeOK, netVars, readerVars, sharedVars, passVars, clientVars, IInv, KnownHasBeen,
            PassMovesOn, PassReadsSinceConnect, ReconnectingIsKnown, ReadyMeansRead,
            NoLostUpdate, Skipped
<1>1. CASE Commands
  BY <1>1 DEF Commands, OrderSent, OrderAnswered, CommandFails
<1>2. CASE Flagged \/ Faulted \/ Ended
  BY <1>2 DEF Flagged, Faulted, Ended, PassEnds
<1>3. QED BY <1>1, <1>2

\* The invariant is inductive.
THEOREM Invariance == Spec => []IInv
<1>1. TypeOK /\ IInv /\ [Next]_vars => IInv'
  <2> SUFFICES ASSUME TypeOK, IInv, [Next]_vars PROVE IInv'
    OBVIOUS
  <2>1. CASE UNCHANGED vars
    BY <2>1 DEF vars, netVars, readerVars, sharedVars, passVars, clientVars, IInv,
      KnownHasBeen, PassMovesOn, PassReadsSinceConnect, ReconnectingIsKnown,
      ReadyMeansRead, NoLostUpdate, Skipped
  <2>2. QED
    BY <2>1, KiteStep, ReaderStep, ReconcilerStep, OtherStep DEF Next
<1>2. QED BY <1>1, InitIInv, TypeCorrect, PTL DEF Spec

\* Entries are let through only on a connection everything before which is read,
\* however many drops and reconnects a pass lives through.
THEOREM ReadyMeansReadHolds == Spec => []ReadyMeansRead
BY Invariance, PTL DEF IInv

\* No update that was received is forgotten.
THEOREM NoLostUpdateHolds == Spec => []NoLostUpdate
BY Invariance, PTL DEF IInv

=============================================================================
