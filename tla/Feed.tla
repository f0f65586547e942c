--------------------------------- MODULE Feed ---------------------------------
(***************************************************************************)
(* The live market feed of a slot: Kite's tick WebSocket, its supervisor   *)
(* (websocket/supervisor.rs, transport.rs), the data client that turns     *)
(* packets into bars (KN/data.rs with the CandleAggregator) and the task   *)
(* that fetches the candles the stream joined too late for                 *)
(* (KN/live_backfill.rs).  Bars of the three sources (warm-up, backfill,   *)
(* stream) go into one channel to the strategy.                            *)
(*                                                                         *)
(* The supervisor and the data client are one task: the client's callback  *)
(* runs inside the supervisor's step.  The backfill is a task of its own;  *)
(* the two share one mutex-guarded state.                                  *)
(*                                                                         *)
(* Simplifications:                                                        *)
(*  - time is a whole number of one unit; 250 ms between Clock events are  *)
(*    less than one unit, so time does not pass over an untaken one;       *)
(*  - a candle's conversion to a bar cannot fail here: the stream's candle *)
(*    has a time the code made, the others were validated before.          *)
(***************************************************************************)
EXTENDS CandleAggregator, Totals

CONSTANTS
  Duration,      \* length of the observation; also bounds the clock
  MaxTrades,     \* bound: trades of the market
  MaxWire,       \* bound: packets in flight
  MaxGeneration, \* connections of a run (3: two reconnects)
  FrameIdle,     \* silence after which a socket is dead (FRAME_IDLE)
  DataIdle,      \* silence of fresh data after which it is broken (FRESH_DATA_IDLE)
  Finalization,  \* lag of Kite's history (FINALIZATION_DELAY_NS)
  Margin,        \* the backfill gives up this long before the first live bar
  Ahead          \* the exchange's clock against ours

ASSUME FeedAssumption ==
  /\ Duration \in Nat \ {0} /\ MaxTrades \in Nat /\ MaxWire \in Nat \ {0}
  /\ MaxGeneration \in Nat \ {0}
  /\ FrameIdle \in Nat \ {0} /\ DataIdle >= FrameIdle
  /\ Finalization \in Nat /\ Margin \in Nat /\ Ahead \in 0..MaxAhead

VARIABLES
  \* the market and the network
  clock,
  market,    \* Kite's side: newest trade, cumulative volume, periods traded in
  link,      \* the socket: up, dead (without having closed), down
  wire,      \* frames in flight
  \* the supervisor
  phase,     \* subscribing, reading, backoff, connecting, ended, cancelled
  gen,       \* connection generation
  heard,     \* [frame, usable]: when the last frame and the last fresh data came
  summary,   \* [ts, full]: newest full packet of this generation
  wakeAt,    \* end of the backoff
  ticked,    \* a Clock event was taken in this unit of time
  \* the data client
  agg,
  held,      \* the client still holds the backfill's shared state
  sent,      \* bars in the strategy's channel, in order
  \* run control
  fault,     \* Control.fail was called; it sets `stopping` too
  stopping,
  \* the backfill task
  fetcher,   \* none, waiting, over
  gap,       \* <<end of the warm-up, start of the first full bar>>
  fetchAt,   \* when its next read may start
  handover,  \* the shared state: none, Pending, Done, Abandoned
  \* history, read by properties only
  told,      \* periods whose trade a packet told in time
  unsent     \* volume before the first packet, and of the dropped part-seen bar

envVars == <<clock, market, link, wire>>
supVars == <<phase, gen, heard, summary, wakeAt, ticked>>
clientVars == <<agg, held, sent, told, unsent>>
controlVars == <<fault, stopping>>
taskVars == <<fetcher, gap, fetchAt, handover>>
vars == <<envVars, supVars, clientVars, controlVars, taskVars>>

-----------------------------------------------------------------------------
Live == phase \notin {"ended", "cancelled"}
Now == clock + Ahead                 \* the exchange's time
Bar(start, from, v) == [start |-> start, from |-> from, volume |-> v]

\* `Control::fail`.
Fail == fault' = TRUE /\ stopping' = TRUE

Fresh == summary.full /\ FreshAt(summary.ts, clock)
Blank == [ts |-> Unseen, full |-> FALSE]

\* The warm-up ends with the bar before the clock's zero; the client sent it
\* before the socket is read.
Init ==
  /\ clock = 0
  /\ market = [trade |-> 0, volume |-> 0, periods |-> {}]
  /\ link = "up" /\ wire = <<>>
  /\ phase = "subscribing" /\ gen = 1 /\ heard = [frame |-> 0, usable |-> 0]
  /\ summary = Blank /\ wakeAt = 0 /\ ticked = FALSE
  /\ agg = NewAggregator(0) /\ held = FALSE
  /\ sent = <<Bar(-Step, "warmup", 0)>>
  /\ fault = FALSE /\ stopping = FALSE
  /\ fetcher = "none" /\ gap = NoGap /\ fetchAt = 0 /\ handover = "none"
  /\ told = {} /\ unsent = 0

-----------------------------------------------------------------------------
(* Time, the market and the network. *)

\* When the next frame must have come.
ReceiveDeadline ==
  IF heard.frame + FrameIdle < heard.usable + DataIdle
  THEN heard.frame + FrameIdle ELSE heard.usable + DataIdle
Idle == wire = <<>> /\ clock >= ReceiveDeadline

\* The supervisor's timers are taken when they are due; connecting and
\* subscribing are over, one way or the other, within the unit.
Tick ==
  /\ clock < Duration
  /\ phase \notin {"subscribing", "connecting"}
  /\ phase = "reading" => ticked /\ ~Idle
  /\ clock' = clock + 1 /\ ticked' = FALSE
  /\ UNCHANGED <<market, link, wire, phase, gen, heard, summary, wakeAt,
                 clientVars, controlVars, taskVars>>

\* A trade, stamped now or (late-stamped) in the period that has just ended.
\* Bound: the market is quiet after a stop (the client takes nothing any more);
\* what is in flight may still come in.
Mattering == Live /\ ~stopping
Trade ==
  /\ market.volume < MaxTrades /\ Mattering
  /\ \E at \in {Now, Bucket(Now) - 1} :
       /\ at \in {Now, Now - 1} /\ at >= 0
       /\ market' = [trade |-> at, volume |-> market.volume + 1,
                     periods |-> market.periods \cup {Bucket(at)}]
  /\ UNCHANGED <<clock, link, wire, supVars, clientVars, controlVars, taskVars>>

\* Kite sends a full packet with the state of the market: what is new, or a
\* refresh if there was none in this unit (bound).
Send ==
  /\ link = "up" /\ phase = "reading" /\ Len(wire) < MaxWire
  /\ ~stopping
  /\ market.volume > agg.lastVolume \/ summary.ts < Now
  /\ wire' = Append(wire, [ts |-> Now, trade |-> market.trade, volume |-> market.volume])
  /\ UNCHANGED <<clock, market, link, supVars, clientVars, controlVars, taskVars>>

LinkBreaks ==
  /\ link = "up" /\ Live /\ ~stopping
  /\ link' \in {"dead", "down"} /\ wire' = <<>>
  /\ UNCHANGED <<clock, market, supVars, clientVars, controlVars, taskVars>>

-----------------------------------------------------------------------------
(* The data client's part of a step: what it does with an event. *)

\* `publish_bar`: the first bar takes the backfill's state away.
Publish(out) ==
  LET bars == HandedOut(out) IN
  /\ sent' = sent \o [i \in DOMAIN bars |-> Bar(bars[i].start, "stream", bars[i].volume)]
  /\ unsent' = unsent + Total([i \in DOMAIN out |-> IF out[i].partial THEN out[i].volume ELSE 0])
  /\ IF bars # <<>> /\ held
     THEN /\ held' = FALSE
          /\ handover' = IF handover = "Pending" THEN "Abandoned" ELSE handover
          /\ UNCHANGED <<fetcher, gap, fetchAt>>
     ELSE UNCHANGED <<held, taskVars>>

\* `spawn_backfill`: the first packet never closes a bar that is handed out.
Later(a, b) == IF a > b THEN a ELSE b
SpawnBackfill(g) ==
  /\ held' = TRUE /\ handover' = "Pending"
  /\ fetcher' = "waiting" /\ gap' = g
  /\ fetchAt' = Later(clock, g[2] + Finalization)
  /\ UNCHANGED sent

UnchangedClient == UNCHANGED <<clientVars, controlVars, taskVars>>

OnClock ==
  IF stopping THEN UnchangedClient
  ELSE \E out \in {Ripe(agg, clock)} :
       /\ agg' = Closed(agg, out)
       /\ Publish(out)
       /\ UNCHANGED <<told, controlVars>>

\* A trustworthy packet goes into the bars; then bars are closed, and the
\* first packet starts the backfill.
OnTrustedPacket(p) ==
  \E a \in {Observed(agg, p, gen)} : \E out \in {Ripe(a, clock)} :
  LET new == agg.started /\ IsNewTrade(agg, p)
      late == a.late > agg.late
  IN /\ agg' = [Closed(a, out) EXCEPT !.gap = NoGap]
     /\ told' = IF new /\ ~late THEN told \cup {Bucket(p.trade)} ELSE told
     /\ UNCHANGED controlVars
     /\ IF a.gap # NoGap
        THEN SpawnBackfill(a.gap) /\ unsent' = p.volume
        ELSE IF agg.started THEN Publish(out)
        ELSE unsent' = p.volume /\ UNCHANGED <<sent, held, taskVars>>

OnPacket(p) ==
  IF stopping THEN UnchangedClient
  ELSE IF Acceptable(agg, p, clock, gen) THEN OnTrustedPacket(p)
  ELSE /\ Fail
       /\ agg' = IF FreshAt(p.ts, clock) THEN Refused(agg, p, clock, gen) ELSE agg
       /\ UNCHANGED <<sent, held, told, unsent, taskVars>>

-----------------------------------------------------------------------------
(* The supervisor. *)

\* `feed_end_fault` after the supervisor has returned.
Ends(error, fresh) ==
  /\ phase' = "ended"
  /\ IF error \/ (~fresh /\ ~stopping) THEN Fail ELSE UNCHANGED controlVars

Subscribe ==
  /\ phase = "subscribing"
  /\ \/ /\ link = "up"
        /\ phase' = "reading" /\ summary' = Blank
        /\ heard' = [frame |-> clock, usable |-> clock] /\ ticked' = FALSE
        /\ UNCHANGED controlVars
     \/ /\ Ends(TRUE, FALSE)
        /\ UNCHANGED <<summary, heard, ticked>>
  /\ UNCHANGED <<envVars, gen, wakeAt, clientVars, taskVars>>

ClockEvent ==
  /\ phase = "reading" /\ ~ticked
  /\ ticked' = TRUE
  /\ OnClock
  /\ UNCHANGED <<envVars, phase, gen, heard, summary, wakeAt>>

Heard(full) ==
  heard' = [frame |-> clock,
            usable |-> IF full.full /\ FreshAt(full.ts, clock) THEN clock ELSE heard.usable]

\* A frame that carries no trade is read as it arrives (bound: unless the run
\* is stopping; the client would not look at it).  Kite's error text, a
\* foreign token or a malformed frame end the stream.
Arrives == phase = "reading" /\ link = "up" /\ wire = <<>> /\ Mattering

ReceiveError ==
  /\ Arrives
  /\ Ends(TRUE, FALSE)
  /\ UNCHANGED <<envVars, gen, heard, summary, wakeAt, ticked, clientVars,
                 taskVars>>

\* Texts and pings count as heartbeats here (they do not look at freshness).
ReceiveHeartbeat ==
  /\ Arrives
  /\ Heard(summary)
  /\ UNCHANGED <<envVars, phase, gen, summary, wakeAt, ticked, clientVars,
                 controlVars, taskVars>>

\* A packet with one side of the book empty has no quote.
ReceiveOneSided ==
  /\ Arrives
  /\ summary' = [ts |-> Now, full |-> TRUE]
  /\ Heard(summary')
  /\ Fail
  /\ UNCHANGED <<envVars, phase, gen, wakeAt, ticked, clientVars, taskVars>>

ReceivePacket ==
  /\ phase = "reading" /\ wire # <<>>
  /\ wire' = Tail(wire)
  /\ summary' = [ts |-> Head(wire).ts, full |-> TRUE]
  /\ Heard(summary')
  /\ OnPacket(Head(wire))
  /\ UNCHANGED <<clock, market, link, phase, gen, wakeAt, ticked>>

\* A closed socket, a failed pong or silence: the gap faults the run, and
\* the stream is connected again while the budget lasts.
GapKeepsQuiet == UNCHANGED controlVars
GapFaults == Fail
LosesConnection ==
  /\ phase = "reading" /\ wire = <<>> /\ (link = "down" \/ Idle)
  /\ link' = "down" /\ summary' = Blank
  /\ GapFaults
  /\ IF clock >= Duration \/ gen >= MaxGeneration
     THEN phase' = "ended" /\ UNCHANGED wakeAt
     ELSE phase' = "backoff" /\ wakeAt' = clock + gen
  /\ UNCHANGED <<clock, market, wire, gen, heard, ticked, clientVars, taskVars>>

Wakes ==
  /\ phase = "backoff" /\ (clock >= wakeAt \/ clock = Duration)
  /\ IF clock = Duration
     THEN Ends(FALSE, FALSE) /\ UNCHANGED gen
     ELSE phase' = "connecting" /\ gen' = gen + 1 /\ UNCHANGED controlVars
  /\ UNCHANGED <<envVars, heard, summary, wakeAt, ticked, clientVars, taskVars>>

Connect ==
  /\ phase = "connecting"
  /\ \/ phase' = "subscribing" /\ link' = "up" /\ wire' = <<>> /\ UNCHANGED controlVars
     \/ Ends(TRUE, FALSE) /\ UNCHANGED <<link, wire>>
  /\ UNCHANGED <<clock, market, gen, heard, summary, wakeAt, ticked, clientVars,
                 taskVars>>

DurationReached ==
  /\ phase = "reading" /\ clock = Duration
  /\ Ends(FALSE, Fresh)
  /\ UNCHANGED <<envVars, gen, heard, summary, wakeAt, ticked, clientVars, taskVars>>

\* The watcher wants the run to stop; later the node aborts the client's task.
Stop ==
  /\ ~stopping
  /\ stopping' = TRUE
  /\ UNCHANGED <<envVars, supVars, clientVars, fault, taskVars>>
Cancel ==
  /\ stopping /\ Live
  /\ phase' = "cancelled"
  /\ UNCHANGED <<envVars, gen, heard, summary, wakeAt, ticked, clientVars,
                 controlVars, taskVars>>

-----------------------------------------------------------------------------
(* The backfill task: `fetch` and the hand-over in `spawn_backfill`. *)

\* `select`: the periods of the gap one after another, all finalised, or nothing.
\* Kite has a candle only for a period somebody traded in.
GapPeriods == [i \in 1..((gap[2] - gap[1]) \div Step) |-> gap[1] + (i - 1) * Step]
Finalised(p) == p \in market.periods /\ p + Step <= clock - Finalization
Selectable == \A i \in DOMAIN GapPeriods : Finalised(GapPeriods[i])

\* An answer, its selection and the hand-over under the shared state's lock are
\* one step of the task: it awaits nothing in between.
Answered ==
  /\ fetcher = "waiting" /\ clock >= fetchAt
  /\ UNCHANGED <<envVars, supVars, agg, held, told, unsent, controlVars, gap>>

\* Mutant: the state is not looked at before the bars are sent.
SendsAnyway(periods) ==
  /\ handover' = "Done"
  /\ sent' = sent \o [i \in DOMAIN periods |-> Bar(periods[i], "backfill", 0)]
SendsIfPending(periods) ==
  IF handover # "Pending" THEN UNCHANGED <<handover, sent>>
  ELSE /\ handover' = "Done"
       /\ sent' = sent \o [i \in DOMAIN periods |-> Bar(periods[i], "backfill", 0)]

FetchSucceeds ==
  /\ Answered
  /\ Selectable
  /\ fetcher' = "over"
  /\ SendsIfPending(GapPeriods)
  /\ UNCHANGED fetchAt

\* A read that fails or comes too early is repeated while there is time.
FetchFails ==
  /\ Answered
  /\ IF clock + 1 >= gap[2] + Step - Margin
     THEN /\ fetcher' = "over"
          /\ handover' = IF handover = "Pending" THEN "Abandoned" ELSE handover
          /\ UNCHANGED fetchAt
     ELSE fetchAt' = clock + 1 /\ UNCHANGED <<fetcher, handover>>
  /\ UNCHANGED sent

-----------------------------------------------------------------------------
Supervisor ==
  \/ Subscribe \/ ClockEvent \/ ReceiveError \/ ReceiveHeartbeat
  \/ ReceiveOneSided \/ ReceivePacket
  \/ LosesConnection \/ Wakes \/ Connect \/ DurationReached
Backfill == FetchSucceeds \/ FetchFails

Next == Tick \/ Trade \/ Send \/ LinkBreaks \/ Supervisor \/ Stop \/ Cancel \/ Backfill

Spec == Init /\ [][Next]_vars

\* Time passes and the supervisor's task is scheduled; nothing is assumed of
\* the market, the network and the backfill.
FairSpec == Spec /\ WF_vars(Tick) /\ WF_vars(Supervisor)

-----------------------------------------------------------------------------
Phases == {"subscribing", "reading", "backoff", "connecting", "ended", "cancelled"}
AnyBar == [start : Int, volume : Nat, partial : BOOLEAN]

\* Types, and that the bars which wait out their grace are in order and older
\* than the current one.
TypeOK ==
  /\ clock \in 0..Duration /\ link \in {"up", "dead", "down"}
  /\ market.trade \in Nat /\ market.volume \in 0..MaxTrades
  /\ \A i \in DOMAIN wire : wire[i].volume \in 0..MaxTrades
  /\ phase \in Phases /\ gen \in 1..MaxGeneration
  /\ agg.current \in AnyBar /\ agg.carry \in Nat /\ agg.late \in Nat
  /\ \A i \in DOMAIN agg.closing :
       /\ agg.closing[i] \in AnyBar
       /\ \A j \in 1..i - 1 : agg.closing[j].start < agg.closing[i].start
       /\ agg.current # NoBar => agg.closing[i].start < agg.current.start
  /\ held \in BOOLEAN /\ fault \in BOOLEAN /\ stopping \in BOOLEAN
  /\ fetcher \in {"none", "waiting", "over"}
  /\ handover \in {"none", "Pending", "Done", "Abandoned"}

\* The strategy gets every bar at most once and in order, whichever of the
\* three sources it comes from and however late the backfill's answer is.
BarsInOrder == \A i \in 1..Len(sent) - 1 : sent[i].start < sent[i + 1].start

Volume(bars) == Total([i \in DOMAIN bars |-> bars[i].volume])

\* Every traded lot the stream told is in exactly one bar, sent or open, or
\* waits to be carried: late trades, the grace, bars that close without a
\* successor and the part-seen first bar lose nothing and count nothing twice.
VolumeConserved ==
  ~fault /\ agg.started =>
    agg.lastVolume = unsent + Volume(sent) + Volume(agg.closing)
                     + agg.current.volume + agg.carry

\* A period with a trade that was told in time has its bar as soon as its
\* grace is over, and so has a period the stream joined too late for unless the
\* backfill gave up: a hole in the strategy's bars is one that was logged.
HolesAreKnown ==
  phase = "reading" /\ ~stopping =>
    \A p \in told \cup (market.periods \cap 0..(IF gap = NoGap THEN 0 ELSE gap[2]) - 1) :
      p + Step + Grace < clock =>
        \/ \E i \in DOMAIN sent : sent[i].start = p
        \/ gap # NoGap /\ p < gap[2] /\ handover # "Done"

\* A run that goes on without a fault has had one unbroken connection, and a
\* stream that ended without a fault ended on time and fresh.
FaultedUnlessWhole ==
  ~stopping =>
    /\ gen = 1 /\ phase \in {"subscribing", "reading", "ended"}
    /\ phase = "ended" => clock = Duration /\ Fresh

\* A connection that dies while the stream still has time faults the run,
\* also when nothing closes the socket and when all is quiet.
SilenceFaults ==
  (phase = "reading" /\ link # "up" /\ clock + FrameIdle < Duration)
    ~> (fault \/ phase = "cancelled")
===============================================================================
