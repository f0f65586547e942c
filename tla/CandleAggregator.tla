--------------------------- MODULE CandleAggregator ---------------------------
(***************************************************************************)
(* The candle aggregator of the live feed (KN/ws_candles.rs): its state is *)
(* one record, its two operations are functions of it.                     *)
(*                                                                         *)
(* A packet carries the exchange's clock `ts`, the time `trade` of the     *)
(* newest trade, and the day's cumulative volume.  Prices are left out:    *)
(* a bar is the volume it was given.  Times are whole numbers of one unit. *)
(***************************************************************************)
EXTENDS Integers, Sequences, FiniteSets

CONSTANTS
  Step,     \* length of a bar
  Grace,    \* how long after its boundary a bar is closed (BAR_CLOSE_GRACE_MS)
  MaxAge,   \* oldest packet that is taken (10 s)
  MaxAhead  \* how far a packet or a trade may be ahead (2 s)

ASSUME AggregatorAssumption ==
  /\ Step \in Nat \ {0} /\ Grace \in Nat
  /\ MaxAge \in Nat /\ MaxAhead \in Nat
  /\ MaxAge < Step + Grace   \* a packet that is taken cannot be a whole bar old

NoBar == [start |-> -1, volume |-> 0, partial |-> FALSE]
NoGap == <<>>
Unseen == -1

NewAggregator(lastClose) ==
  [closing |-> <<>>, current |-> NoBar, lastClose |-> lastClose,
   started |-> FALSE, lastVolume |-> Unseen, lastTs |-> Unseen,
   lastTrade |-> Unseen, generation |-> 0, gap |-> NoGap,
   carry |-> 0, late |-> 0]

Bucket(t) == (t \div Step) * Step
Due(bar) == bar.start + Step + Grace

\* `source_fresh` and the aggregator's own check of the packet's age.
FreshAt(ts, now) == now - ts <= MaxAge /\ ts - now <= MaxAhead

\* The checks of `observe`, and what a packet leaves behind that fails one.
SameGeneration(a, g) == a.generation = 0 \/ a.generation = g
Timely(a, p, now) ==
  /\ FreshAt(p.ts, now)
  /\ p.ts >= a.lastTs
  /\ p.trade <= p.ts + MaxAhead
Continuous(a, p) == p.volume >= a.lastVolume
Acceptable(a, p, now, g) ==
  /\ Timely(a, p, now) /\ SameGeneration(a, g) /\ Continuous(a, p)
  /\ ~a.started => Bucket(p.ts) >= a.lastClose

Refused(a, p, now, g) ==
  IF ~Timely(a, p, now) \/ ~SameGeneration(a, g) THEN a
  ELSE IF ~Continuous(a, p) THEN [a EXCEPT !.generation = g]
  ELSE [a EXCEPT !.generation = g, !.lastVolume = p.volume, !.lastTs = p.ts,
                 !.started = TRUE, !.lastTrade = p.trade]

\* A bar begins with what late trades left to carry.
\* Mutant: every later bar is given the carried volume again.
CarryKept(a, start, v) ==
  [a EXCEPT !.current = [start |-> start, volume |-> v + a.carry, partial |-> FALSE]]
StartBar(a, start, v) ==
  [a EXCEPT !.current = [start |-> start, volume |-> v + a.carry, partial |-> FALSE],
            !.carry = 0]

\* Mutant: the backfill ends where the part-seen bar begins.
GapToBucket(a, p) ==
  [a EXCEPT !.started = TRUE, !.lastTrade = p.trade,
            !.current = [start |-> Bucket(p.ts), volume |-> 0, partial |-> p.ts > Bucket(p.ts)],
            !.gap = IF Bucket(p.ts) > a.lastClose THEN <<a.lastClose, Bucket(p.ts)>> ELSE NoGap]
\* The first packet joins a bar part-way unless it comes on the boundary.
First(a, p) ==
  LET bucket == Bucket(p.ts)
      partial == p.ts > bucket
      firstFull == IF partial THEN bucket + Step ELSE bucket
  IN [a EXCEPT !.started = TRUE, !.lastTrade = p.trade,
               !.current = [start |-> bucket, volume |-> 0, partial |-> partial],
               !.gap = IF firstFull > a.lastClose THEN <<a.lastClose, firstFull>> ELSE NoGap]

\* `Current::add`
Add(bar, delta) == [bar EXCEPT !.volume = @ + delta]

Late(a, delta) == [a EXCEPT !.carry = @ + delta, !.late = @ + 1]

\* Mutant: a trade of another period always moves the current bar on.
TradedAnyOrder(a, bucket, delta) ==
  IF a.current = NoBar \/ a.current.start = bucket
  THEN [a EXCEPT !.current = [start |-> bucket, volume |-> @.volume + delta, partial |-> @.partial]]
  ELSE StartBar([a EXCEPT !.closing = Append(@, a.current)], bucket, delta)
\* A new trade: it is late when its bar was closed or never opened, it joins
\* a bar that is waiting out its grace or the current one, or it moves the
\* current bar on.
Traded(a, bucket, delta) ==
  LET waiting == {i \in DOMAIN a.closing : a.closing[i].start = bucket} IN
  IF bucket + Step <= a.lastClose THEN Late(a, delta)
  ELSE IF waiting # {}
  THEN [a EXCEPT !.closing = [i \in DOMAIN a.closing |->
          IF i \in waiting THEN Add(a.closing[i], delta) ELSE a.closing[i]]]
  ELSE IF a.current = NoBar THEN StartBar(a, bucket, delta)
  ELSE IF a.current.start = bucket THEN [a EXCEPT !.current = Add(@, delta)]
  ELSE IF bucket > a.current.start
  THEN StartBar([a EXCEPT !.closing = Append(@, a.current)], bucket, delta)
  ELSE Late(a, delta)

IsNewTrade(a, p) == p.volume > a.lastVolume \/ p.trade > a.lastTrade

\* `observe` on a packet that passes the checks.
Observed(a, p, g) ==
  LET b == [a EXCEPT !.generation = g, !.lastVolume = p.volume, !.lastTs = p.ts] IN
  IF ~a.started THEN First(b, p)
  ELSE LET c == [b EXCEPT !.lastTrade = IF p.trade > @ THEN p.trade ELSE @] IN
       IF IsNewTrade(a, p) THEN Traded(c, Bucket(p.trade), p.volume - a.lastVolume) ELSE c

\* `close_due` pops the bars whose grace is over from the front, and the current
\* one if none waits before it.
Popped(a, now) ==
  CHOOSE n \in 0..Len(a.closing) :
    /\ \A i \in 1..n : now >= Due(a.closing[i])
    /\ n < Len(a.closing) => now < Due(a.closing[n + 1])

Ripe(a, now) ==
  LET n == Popped(a, now)
      front == SubSeq(a.closing, 1, n)
  IN  IF n = Len(a.closing) /\ a.current # NoBar /\ now >= Due(a.current)
        THEN Append(front, a.current) ELSE front

Closed(a, out) ==
  LET ends == {out[i].start + Step : i \in DOMAIN out} \cup {a.lastClose} IN
  [a EXCEPT !.closing = SubSeq(@, Len(out) + 1, Len(@)),
            !.current = IF Len(out) > Len(a.closing) THEN NoBar ELSE @,
            !.lastClose = CHOOSE e \in ends : \A d \in ends : d <= e]

\* A part-seen bar is never handed out.
HandedOut(out) ==
  LET whole[i \in 0..Len(out)] ==
        IF i = 0 THEN <<>>
        ELSE IF out[i].partial THEN whole[i - 1]
        ELSE Append(whole[i - 1], out[i])
  IN  whole[Len(out)]
===============================================================================
