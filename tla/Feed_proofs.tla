------------------------------ MODULE Feed_proofs ------------------------------
(***************************************************************************)
(* Proofs about Feed for any length of bars, grace, duration, number of    *)
(* trades, packets and connections: types, that the strategy gets the bars *)
(* in order, that no traded volume is lost or counted twice, that a hole   *)
(* in the bars is one that was logged, and that a run which goes on        *)
(* without a fault had one unbroken connection.                            *)
(*                                                                         *)
(* The aggregator's bars that wait out their grace and the current one are *)
(* one queue here: bars enter at its end, trades change one of its bars,   *)
(* and the bars that are due leave it at its front.                        *)
(***************************************************************************)
EXTENDS Feed, DataLemmas

USE AggregatorAssumption, FeedAssumption

-----------------------------------------------------------------------------
(* The inductive invariant *)

Bars == [start : Nat, volume : Nat, partial : BOOLEAN]
SentBars == [start : Int, from : {"warmup", "backfill", "stream"}, volume : Nat]
Packets == [ts : Nat, trade : Nat, volume : 0..MaxTrades]
Aggregators ==
  [closing : Seq(Bars), current : Bars \cup {NoBar}, lastClose : Nat,
   started : BOOLEAN, lastVolume : Int, lastTs : Int, lastTrade : Int,
   generation : Nat, gap : {NoGap} \cup (Nat \X Nat), carry : Nat, late : Nat]

\* Every variable that the properties depend on keeps its type.
Typed ==
  /\ clock \in 0..Duration /\ link \in {"up", "dead", "down"}
  /\ market.trade \in Nat /\ market.volume \in 0..MaxTrades /\ market.periods \subseteq Nat
  /\ wire \in Seq(Packets)
  /\ phase \in Phases /\ gen \in 1..MaxGeneration
  /\ phase = "backoff" => gen < MaxGeneration
  /\ agg \in Aggregators /\ agg.gap = NoGap
  /\ held \in BOOLEAN /\ sent \in Seq(SentBars) /\ told \subseteq Nat /\ unsent \in Int
  /\ fault \in BOOLEAN /\ stopping \in BOOLEAN
  /\ fetcher \in {"none", "waiting", "over"} /\ gap \in {NoGap} \cup (Nat \X Nat)
  /\ handover \in {"none", "Pending", "Done", "Abandoned"}

\* The start of a bar.
Aligned(t) == \E k \in Nat : t = k * Step

\* The bars that are open, oldest first.
Opens(a) == IF a.current = NoBar THEN a.closing ELSE Append(a.closing, a.current)

\* Open bars follow one another, and none is older than a bar that was closed; only
\* the oldest can be part-seen.
Queued(a) ==
  /\ a.current = NoBar => a.closing = <<>>
  /\ Aligned(a.lastClose)
  /\ \A i \in 1..Len(Opens(a)) :
       /\ Aligned(Opens(a)[i].start) /\ Opens(a)[i].start >= a.lastClose
       /\ Opens(a)[i].partial => i = 1
  /\ \A i, j \in 1..Len(Opens(a)) : i < j => Opens(a)[i].start < Opens(a)[j].start

\* Bars before g are the backfill's: the stream's first bar is the one that ends
\* there, if it saw a part of it, or starts there.
BeginsAt(a, g) ==
  /\ \A i \in 1..Len(Opens(a)) :
       /\ Opens(a)[i].start + Step >= g
       /\ Opens(a)[i].partial <=> Opens(a)[i].start < g
  /\ a.started /\ Opens(a) = <<>> => a.lastClose >= g

\* Until the first packet there is nothing.
Untouched(a) ==
  ~a.started => Opens(a) = <<>> /\ a.lastClose = 0 /\ a.carry = 0

GapEnd == IF gap = NoGap THEN 0 ELSE gap[2]

\* The gap is the time from the warm-up to the stream's first whole bar, and the
\* backfill runs only for one.
GapIsKnown ==
  /\ gap = NoGap <=> handover = "none"
  /\ gap = NoGap => fetcher = "none"
  /\ gap # NoGap => gap[1] = 0 /\ gap[2] > 0 /\ Aligned(gap[2]) /\ agg.started
  /\ handover = "Pending" => held

\* Every bar that was sent is older than what may still be sent, and while the
\* backfill may send, only the warm-up was.
SentIsPast ==
  /\ \A i \in 1..Len(sent) : sent[i].start < agg.lastClose \/ sent[i].start < GapEnd
  /\ handover = "Pending" \/ ~agg.started => \A i \in 1..Len(sent) : sent[i].start < 0

\* Before the first packet nothing was traded in a bar, or told.
NothingYet == ~agg.started => Volume(sent) = 0 /\ told = {}

\* A period that was told is before the stream's bars, open, or sent.
ToldIsKept ==
  \A p \in told :
    /\ Aligned(p)
    /\ \/ p < GapEnd
       \/ \E i \in 1..Len(Opens(agg)) : Opens(agg)[i].start = p
       \/ \E i \in 1..Len(sent) : sent[i].start = p

\* A backfill that was handed over has every period of the gap.
BackfillIsWhole ==
  /\ \A p \in market.periods : Aligned(p)
  /\ handover = "Done" =>
       \A p \in 0..(GapEnd - 1) : Aligned(p) => \E i \in 1..Len(sent) : sent[i].start = p

\* While the stream is read no open bar is overdue, and after the Clock event of
\* a unit none is due.
NotOverdue ==
  phase \in {"subscribing", "reading"} /\ ~stopping =>
    \A i \in 1..Len(Opens(agg)) :
      /\ clock <= Due(Opens(agg)[i])
      /\ phase = "reading" /\ ticked => clock < Due(Opens(agg)[i])

BarsFit ==
  /\ Queued(agg) /\ BeginsAt(agg, GapEnd) /\ Untouched(agg)
  /\ GapIsKnown /\ SentIsPast /\ BarsInOrder /\ NothingYet /\ VolumeConserved
  /\ ToldIsKept /\ BackfillIsWhole /\ NotOverdue

IInv == Typed /\ BarsFit /\ FaultedUnlessWhole

-----------------------------------------------------------------------------
(* Where bars start *)

\* A time is in the bar that its bucket starts.
LEMMA BucketFits ==
  ASSUME NEW t \in Nat
  PROVE  /\ Bucket(t) \in Nat /\ Aligned(Bucket(t))
         /\ Bucket(t) <= t /\ t < Bucket(t) + Step
<1>1. t \div Step \in Nat
  OBVIOUS
<1>2. /\ (t \div Step) * Step <= t
      /\ t < (t \div Step) * Step + Step
  <2>1. (t \div Step) * Step <= t
    OBVIOUS
  <2>2. t < (t \div Step) * Step + Step
    OBVIOUS
  <2>3. QED BY <2>1, <2>2
<1>3. (t \div Step) * Step \in Nat
  BY <1>1
<1>4. QED BY <1>1, <1>2, <1>3 DEF Bucket, Aligned

\* Of two bars the later starts when the earlier is over, or after.
LEMMA Spaced ==
  ASSUME NEW x, NEW y, Aligned(x), Aligned(y), x < y
  PROVE  x + Step <= y
<1>1. PICK k \in Nat : x = k * Step
  BY DEF Aligned
<1>2. PICK m \in Nat : y = m * Step
  BY DEF Aligned
<1>3. k < m
  <2>1. ASSUME m <= k PROVE m * Step <= k * Step
    BY <2>1
  <2>2. QED BY <1>1, <1>2, <2>1
<1>4. (k + 1) * Step <= m * Step
  BY <1>3
<1>5. (k + 1) * Step = k * Step + Step
  OBVIOUS
<1>6. QED BY <1>1, <1>2, <1>4, <1>5

\* The next bar starts one step later.
LEMMA NextAligned ==
  ASSUME NEW x, Aligned(x)
  PROVE  x \in Nat /\ Aligned(x + Step)
<1>1. PICK k \in Nat : x = k * Step
  BY DEF Aligned
<1>2. x + Step = (k + 1) * Step
  BY <1>1
<1>3. QED BY <1>1, <1>2 DEF Aligned

\* A bar starts a whole number of bars after zero.
LEMMA WholeBars ==
  ASSUME NEW x, Aligned(x)
  PROVE  x \div Step \in Nat /\ (x \div Step) * Step = x
<1>1. PICK k \in Nat : x = k * Step
  BY DEF Aligned
<1>2. (k * Step) \div Step = k
  OBVIOUS
<1>3. QED BY <1>1, <1>2

-----------------------------------------------------------------------------
(* Trades *)

\* Nothing that the queue of open bars does not show changes but the counters.
SameCourse(a, c) ==
  /\ c.lastClose = a.lastClose /\ c.started = a.started /\ c.gap = a.gap
  /\ c.lastVolume = a.lastVolume
  /\ c.current = NoBar => c.closing = <<>>

\* A trade is late, joins the open bar of its period, or opens the next bar, which
\* takes the carried volume.
IsLate(a, c, d) ==
  Opens(c) = Opens(a) /\ c.carry = a.carry + d /\ c.late = a.late + 1
Joins(a, c, b, d) ==
  /\ c.carry = a.carry /\ c.late = a.late
  /\ Len(Opens(c)) = Len(Opens(a))
  /\ \E j \in 1..Len(Opens(a)) :
       /\ Opens(a)[j].start = b
       /\ \A i \in 1..Len(Opens(a)) :
            Opens(c)[i] = IF i = j THEN Add(Opens(a)[i], d) ELSE Opens(a)[i]
OpensBar(a, c, b, d) ==
  /\ c.carry = 0 /\ c.late = a.late
  /\ Opens(c) = Append(Opens(a), [start |-> b, volume |-> d + a.carry, partial |-> FALSE])
  /\ b >= a.lastClose
  /\ \A i \in 1..Len(Opens(a)) : Opens(a)[i].start < b

\* The open bars are bars.
LEMMA OpensTyped ==
  ASSUME NEW a \in Aggregators
  PROVE  /\ Opens(a) \in Seq(Bars) /\ a.closing \in Seq(Bars)
         /\ a.current # NoBar => a.current \in Bars
         /\ Len(Opens(a)) = IF a.current = NoBar THEN Len(a.closing) ELSE Len(a.closing) + 1
         /\ \A i \in 1..Len(a.closing) : Opens(a)[i] = a.closing[i]
         /\ a.current # NoBar => Opens(a)[Len(a.closing) + 1] = a.current
BY DEF Aggregators, Opens

\* The mark for no bar is not a bar.
LEMMA NoBarIsNone == NoBar \notin Bars
BY DEF NoBar, Bars

\* An aggregator with new bars and counters.
Renewed(a, q, k, r, n) ==
  [a EXCEPT !.closing = q, !.current = k, !.carry = r, !.late = n]

Renews(a, q, k, r, n) ==
  /\ a \in Aggregators /\ q \in Seq(Bars) /\ k \in Bars \cup {NoBar}
  /\ r \in Nat /\ n \in Nat
  /\ k = NoBar => q = <<>>

\* An aggregator whose bars are renewed is one, and keeps its course.
LEMMA RenewedTyped ==
  ASSUME NEW a, NEW q, NEW k, NEW r, NEW n, Renews(a, q, k, r, n),
         NEW c, c = Renewed(a, q, k, r, n)
  PROVE  /\ c \in Aggregators /\ SameCourse(a, c)
         /\ c.closing = q /\ c.current = k /\ c.carry = r /\ c.late = n
         /\ Opens(c) = IF k = NoBar THEN q ELSE Append(q, k)
<1>1. Renewed(a, q, k, r, n) \in Aggregators
  BY Zenon DEF Renewed, Renews, Aggregators
<1>2. /\ c.closing = q /\ c.current = k /\ c.carry = r /\ c.late = n
      /\ c.lastClose = a.lastClose /\ c.started = a.started
      /\ c.gap = a.gap /\ c.lastVolume = a.lastVolume
  BY DEF Renewed, Renews, Aggregators
<1>3. QED BY <1>1, <1>2 DEF Renews, SameCourse, Opens

\* What Traded makes of the bars.
LEMMA TradedRenews ==
  ASSUME NEW a \in Aggregators, Queued(a),
         NEW b \in Nat, Aligned(b), NEW d \in Nat
  PROVE  LET bar == [start |-> b, volume |-> d + a.carry, partial |-> FALSE] IN
         \/ Traded(a, b, d) = Renewed(a, a.closing, a.current, a.carry + d, a.late + 1)
         \/ \E j \in 1..Len(a.closing) :
              /\ a.closing[j].start = b
              /\ Traded(a, b, d) =
                   Renewed(a, [a.closing EXCEPT ![j] = Add(@, d)],
                           a.current, a.carry, a.late)
         \/ /\ a.current # NoBar /\ a.current.start = b
            /\ Traded(a, b, d) = Renewed(a, a.closing, Add(a.current, d),
                                         a.carry, a.late)
         \/ /\ a.current = NoBar /\ b + Step > a.lastClose
            /\ Traded(a, b, d) = Renewed(a, a.closing, bar, 0, a.late)
         \/ /\ a.current # NoBar /\ b > a.current.start
            /\ Traded(a, b, d) = Renewed(a, Append(a.closing, a.current), bar, 0, a.late)
<1> DEFINE waiting == {i \in DOMAIN a.closing : a.closing[i].start = b}
           bar == [start |-> b, volume |-> d + a.carry, partial |-> FALSE]
<1>1. /\ a.closing \in Seq(Bars)
      /\ a.current # NoBar => a.current \in Bars
      /\ DOMAIN a.closing = 1..Len(a.closing)
      /\ a.lastClose \in Nat
  BY DEF Aggregators
<1>2. a.current # NoBar => a.current.start \in Nat
  BY <1>1 DEF Bars
<1>3. Late(a, d) = Renewed(a, a.closing, a.current, a.carry + d, a.late + 1)
  BY DEF Late, Renewed, Aggregators
<1>4. CASE b + Step <= a.lastClose
  BY <1>3, <1>4 DEF Traded
<1>5. CASE ~(b + Step <= a.lastClose) /\ waiting # {}
  <2>1. PICK j \in 1..Len(a.closing) : a.closing[j].start = b
    BY <1>1, <1>5
  <2>2. \A i \in 1..Len(a.closing) : a.closing[i].start = b => i = j
    <3>1. ASSUME NEW i \in 1..Len(a.closing), NEW k \in 1..Len(a.closing), i < k
          PROVE  a.closing[i].start < a.closing[k].start
      <4>1. /\ i \in 1..Len(Opens(a)) /\ k \in 1..Len(Opens(a))
            /\ Opens(a)[i] = a.closing[i] /\ Opens(a)[k] = a.closing[k]
        BY <1>1, OpensTyped
      <4>2. QED BY <3>1, <4>1 DEF Queued
    <3>2. \A i \in 1..Len(a.closing) : a.closing[i] \in Bars
      BY <1>1
    <3>3. \A i \in 1..Len(a.closing) : a.closing[i].start \in Nat
      BY <3>2 DEF Bars
    <3>4. ASSUME NEW i \in 1..Len(a.closing), a.closing[i].start = b, i # j
          PROVE  FALSE
      <4>1. i < j \/ j < i
        BY <3>4
      <4>2. b \in Nat /\ ~(b < b)
        OBVIOUS
      <4>3. QED BY <2>1, <3>1, <3>4, <4>1, <4>2, Zenon
    <3>5. QED BY <3>4
  <2>3. waiting = {j}
    BY <1>1, <2>1, <2>2
  <2> DEFINE joined == [a.closing EXCEPT ![j] = Add(@, d)]
             added == [i \in DOMAIN a.closing |->
               IF i \in waiting THEN Add(a.closing[i], d) ELSE a.closing[i]]
  <2>4. Traded(a, b, d) = [a EXCEPT !.closing = added]
    <3>1. ~(b + Step <= a.lastClose) /\ {i \in DOMAIN a.closing : a.closing[i].start = b} # {}
      BY <1>5
    <3>2. QED BY <3>1, ZenonT(60) DEF Traded
  <2>5. joined = added
    <3>1. \A i \in 1..Len(a.closing) : joined[i] = added[i]
      <4>1. ASSUME NEW i \in 1..Len(a.closing)
            PROVE  /\ joined[i] = IF i = j THEN Add(a.closing[j], d)
                                          ELSE a.closing[i]
                   /\ added[i] = IF i \in waiting THEN Add(a.closing[i], d)
                                                 ELSE a.closing[i]
        BY <1>1
      <4> HIDE DEF joined, added, waiting
      <4>2. QED BY <2>3, <4>1
    <3>2. DOMAIN joined = 1..Len(a.closing) /\ DOMAIN added = 1..Len(a.closing)
      BY <1>1
    <3>3. joined = [i \in DOMAIN joined |-> joined[i]] /\ added = [i \in DOMAIN added |-> added[i]]
      OBVIOUS
    <3> HIDE DEF joined, added
    <3>4. QED BY <3>1, <3>2, <3>3
  <2> HIDE DEF joined, added, waiting
  <2>6. [a EXCEPT !.closing = joined] = Renewed(a, joined, a.current, a.carry, a.late)
    BY DEF Renewed, Aggregators
  <2>7. QED BY <2>1, <2>4, <2>5, <2>6 DEF joined
<1>6. CASE ~(b + Step <= a.lastClose) /\ waiting = {} /\ a.current = NoBar
  <2>1. Traded(a, b, d) = StartBar(a, b, d)
    BY <1>6 DEF Traded
  <2>2. StartBar(a, b, d) = Renewed(a, a.closing, bar, 0, a.late)
    BY DEF StartBar, Renewed, Aggregators
  <2>3. b + Step > a.lastClose
    BY <1>1, <1>6
  <2>4. QED BY <1>6, <2>1, <2>2, <2>3, Zenon
<1>7. CASE ~(b + Step <= a.lastClose) /\ waiting = {} /\ a.current # NoBar /\ a.current.start = b
  <2>1. Traded(a, b, d) = [a EXCEPT !.current = Add(@, d)]
    BY <1>7, Zenon DEF Traded
  <2>2. [a EXCEPT !.current = Add(@, d)]
          = Renewed(a, a.closing, Add(a.current, d), a.carry, a.late)
    BY DEF Renewed, Aggregators
  <2>3. QED BY <1>7, <2>1, <2>2
<1>8. CASE ~(b + Step <= a.lastClose) /\ waiting = {} /\ a.current # NoBar /\ b > a.current.start
  <2>1. a.current.start # b
    BY <1>2, <1>8
  <2>2. Traded(a, b, d) = StartBar([a EXCEPT !.closing = Append(@, a.current)], b, d)
    BY <1>8, <2>1, Zenon DEF Traded
  <2>3. StartBar([a EXCEPT !.closing = Append(@, a.current)], b, d)
          = Renewed(a, Append(a.closing, a.current), bar, 0, a.late)
    BY DEF StartBar, Renewed, Aggregators
  <2>4. QED BY <1>8, <2>2, <2>3
<1>9. CASE ~(b + Step <= a.lastClose) /\ waiting = {} /\ a.current # NoBar /\ b < a.current.start
  <2>1. a.current.start # b /\ ~(b > a.current.start)
    BY <1>2, <1>9
  <2>2. Traded(a, b, d) = Late(a, d)
    BY <1>9, <2>1 DEF Traded
  <2>3. QED BY <1>3, <2>2
<1>10. a.current # NoBar => \/ a.current.start = b \/ b > a.current.start
                           \/ b < a.current.start
  BY <1>2
<1>11. QED BY <1>10, <1>4, <1>5, <1>6, <1>7, <1>8, <1>9


\* What Traded makes of the queue of open bars.
LEMMA TradedQueue ==
  ASSUME NEW a \in Aggregators, Queued(a),
         NEW b \in Nat, Aligned(b), NEW d \in Nat
  PROVE  /\ Traded(a, b, d) \in Aggregators /\ SameCourse(a, Traded(a, b, d))
         /\ \/ IsLate(a, Traded(a, b, d), d)
            \/ Joins(a, Traded(a, b, d), b, d)
            \/ OpensBar(a, Traded(a, b, d), b, d)
<1> DEFINE bar == [start |-> b, volume |-> d + a.carry, partial |-> FALSE]
<1>1. PICK c : c = Traded(a, b, d)
  OBVIOUS
<1>2. /\ a.closing \in Seq(Bars) /\ a.current \in Bars \cup {NoBar}
      /\ a.current # NoBar => a.current \in Bars
      /\ a.carry \in Nat /\ a.late \in Nat /\ a.lastClose \in Nat
      /\ a.current = NoBar => a.closing = <<>>
  BY DEF Aggregators, Queued
<1>3. bar \in Bars /\ bar # NoBar
  <2>1. d + a.carry \in Nat
    BY <1>2
  <2>2. bar \in Bars
    BY <2>1 DEF Bars
  <2>3. QED BY <2>2, NoBarIsNone
<1>4. CASE c = Renewed(a, a.closing, a.current, a.carry + d, a.late + 1)
  <2>1. PICK q, k, r, n : q = a.closing /\ k = a.current /\ r = a.carry + d /\ n = a.late + 1
    OBVIOUS
  <2>2. c = Renewed(a, q, k, r, n)
    BY <1>4, <2>1
  <2>3. Renews(a, q, k, r, n)
    BY <1>2, <2>1 DEF Renews
  <2>4. /\ c \in Aggregators /\ SameCourse(a, c)
        /\ c.carry = r /\ c.late = n
        /\ Opens(c) = IF k = NoBar THEN q ELSE Append(q, k)
    BY ONLY <2>2, <2>3, RenewedTyped
  <2>5. QED BY <1>1, <2>1, <2>4 DEF IsLate, Opens
<1>5. ASSUME NEW x \in Bars
      PROVE  /\ Add(x, d) \in Bars /\ Add(x, d).start = x.start
             /\ Add(x, d).volume = x.volume + d /\ Add(x, d).partial = x.partial
  BY DEF Add, Bars
<1>6. ASSUME NEW j \in 1..Len(a.closing), a.closing[j].start = b,
             c = Renewed(a, [a.closing EXCEPT ![j] = Add(@, d)], a.current, a.carry, a.late)
      PROVE  c \in Aggregators /\ SameCourse(a, c) /\ Joins(a, c, b, d)
  <2>1. PICK q : q = [a.closing EXCEPT ![j] = Add(@, d)]
    OBVIOUS
  <2>2. a.closing[j] \in Bars
    BY <1>2
  <2>3. Add(a.closing[j], d) \in Bars
    BY <1>5, <2>2
  <2>4. /\ q \in Seq(Bars) /\ Len(q) = Len(a.closing)
        /\ \A i \in 1..Len(a.closing) :
             q[i] = IF i = j THEN Add(a.closing[i], d) ELSE a.closing[i]
    BY <1>2, <2>1, <2>3
  <2>5. a.current # NoBar
    BY <1>2
  <2>6. /\ c \in Aggregators /\ SameCourse(a, c) /\ c.carry = a.carry /\ c.late = a.late
        /\ Opens(c) = Append(q, a.current)
    <3>1. Renews(a, q, a.current, a.carry, a.late)
      BY <1>2, <2>4, <2>5 DEF Renews
    <3>2. c = Renewed(a, q, a.current, a.carry, a.late)
      BY <1>6, <2>1
    <3>3. QED BY ONLY <2>5, <3>1, <3>2, RenewedTyped
  <2>7. Opens(a) = Append(a.closing, a.current)
    BY <2>5, Zenon DEF Opens
  <2>8. /\ Len(Opens(c)) = Len(Opens(a)) /\ j \in 1..Len(Opens(a))
        /\ Opens(a)[j] = a.closing[j]
        /\ \A i \in 1..Len(Opens(a)) :
             Opens(c)[i] = IF i = j THEN Add(Opens(a)[i], d) ELSE Opens(a)[i]
    <3>1. j \in 1..Len(Opens(a)) /\ Opens(a)[j] = a.closing[j]
      BY <1>2, <2>7
    <3>2. Len(Opens(c)) = Len(Opens(a)) /\ Len(Opens(a)) = Len(a.closing) + 1
      BY <1>2, <2>4, <2>6, <2>7, SMTT(30)
    <3>3. /\ \A i \in 1..Len(a.closing) : Opens(c)[i] = q[i] /\ Opens(a)[i] = a.closing[i]
          /\ Opens(c)[Len(a.closing) + 1] = Opens(a)[Len(a.closing) + 1]
      BY <1>2, <2>4, <2>6, <2>7, SMTT(30)
    <3>4. QED BY <1>2, <2>4, <3>1, <3>2, <3>3, SMTT(30)
  <2>9. QED BY <1>6, <2>6, <2>8 DEF Joins
<1>7. ASSUME a.current # NoBar, a.current.start = b,
             c = Renewed(a, a.closing, Add(a.current, d), a.carry, a.late)
      PROVE  c \in Aggregators /\ SameCourse(a, c) /\ Joins(a, c, b, d)
  <2>1. a.current \in Bars
    BY <1>2, <1>7
  <2>2. Add(a.current, d) \in Bars /\ Add(a.current, d) # NoBar
    BY <1>5, <2>1, NoBarIsNone
  <2>3. /\ c \in Aggregators /\ SameCourse(a, c) /\ c.carry = a.carry /\ c.late = a.late
        /\ Opens(c) = Append(a.closing, Add(a.current, d))
    <3>1. Renews(a, a.closing, Add(a.current, d), a.carry, a.late)
      BY <1>2, <2>2 DEF Renews
    <3>2. QED BY ONLY <1>7, <2>2, <3>1, RenewedTyped
  <2>4. Opens(a) = Append(a.closing, a.current)
    BY <1>7 DEF Opens
  <2> DEFINE j == Len(a.closing) + 1
  <2>5. /\ Len(Opens(c)) = Len(Opens(a)) /\ j \in 1..Len(Opens(a))
        /\ Opens(a)[j] = a.current
        /\ \A i \in 1..Len(Opens(a)) :
             Opens(c)[i] = IF i = j THEN Add(Opens(a)[i], d) ELSE Opens(a)[i]
    BY <1>2, <2>2, <2>3, <2>4
  <2>6. QED BY <1>7, <2>3, <2>5 DEF Joins
<1>8. ASSUME a.current = NoBar, b + Step > a.lastClose,
             c = Renewed(a, a.closing, bar, 0, a.late)
      PROVE  c \in Aggregators /\ SameCourse(a, c) /\ OpensBar(a, c, b, d)
  <2>1. /\ c \in Aggregators /\ SameCourse(a, c) /\ c.carry = 0 /\ c.late = a.late
        /\ Opens(c) = Append(a.closing, bar)
    <3>1. Renews(a, a.closing, bar, 0, a.late)
      BY <1>2, <1>3 DEF Renews
    <3> HIDE DEF bar
    <3>2. QED BY ONLY <1>3, <1>8, <3>1, RenewedTyped
  <2>2. Opens(a) = a.closing /\ a.closing = <<>>
    BY <1>2, <1>8 DEF Opens
  <2>3. b >= a.lastClose
    <3>1. Aligned(a.lastClose)
      BY DEF Queued
    <3>2. ~(b < a.lastClose)
      BY <1>2, <1>8, <3>1, Spaced
    <3>3. QED BY <1>2, <3>2
  <2>4. QED BY <2>1, <2>2, <2>3 DEF OpensBar
<1>9. ASSUME a.current # NoBar, b > a.current.start,
             c = Renewed(a, Append(a.closing, a.current), bar, 0, a.late)
      PROVE  c \in Aggregators /\ SameCourse(a, c) /\ OpensBar(a, c, b, d)
  <2>1. a.current \in Bars /\ Append(a.closing, a.current) \in Seq(Bars)
    BY <1>2, <1>9
  <2>2. /\ c \in Aggregators /\ SameCourse(a, c) /\ c.carry = 0 /\ c.late = a.late
        /\ Opens(c) = Append(Append(a.closing, a.current), bar)
    <3>1. PICK q : q = Append(a.closing, a.current)
      OBVIOUS
    <3>2. Renews(a, q, bar, 0, a.late)
      BY <1>2, <1>3, <2>1, <3>1 DEF Renews
    <3>3. c = Renewed(a, q, bar, 0, a.late)
      BY <1>9, <3>1
    <3> HIDE DEF bar
    <3>4. /\ c \in Aggregators /\ SameCourse(a, c) /\ c.carry = 0 /\ c.late = a.late
          /\ Opens(c) = Append(q, bar)
      BY ONLY <1>3, <3>2, <3>3, RenewedTyped
    <3>5. QED BY <3>1, <3>4
  <2>3. /\ Opens(a) = Append(a.closing, a.current)
        /\ Opens(a) \in Seq(Bars) /\ Len(Opens(a)) = Len(a.closing) + 1
        /\ Opens(a)[Len(Opens(a))] = a.current
    BY <1>2, <1>9, <2>1 DEF Opens
  <2>4. \A i \in 1..Len(Opens(a)) : Opens(a)[i] \in Bars
    BY <2>3
  <2>5. \A i \in 1..Len(Opens(a)) : Opens(a)[i].start \in Nat /\ Opens(a)[i].start <= a.current.start
    <3>1. \A i \in 1..Len(Opens(a)) : Opens(a)[i].start \in Nat
      BY <2>4 DEF Bars
    <3>2. Len(Opens(a)) \in 1..Len(Opens(a))
      BY <1>2, <2>3
    <3>3. \A i \in 1..Len(Opens(a)) : i < Len(Opens(a)) => Opens(a)[i].start < a.current.start
      BY <2>3, <3>2 DEF Queued
    <3>4. QED BY <2>3, <3>1, <3>2, <3>3, SMTT(30)
  <2>6. a.current.start \in Nat /\ a.current.start >= a.lastClose
    <3>1. Len(Opens(a)) \in 1..Len(Opens(a))
      BY <1>2, <2>3
    <3>2. QED BY <2>1, <2>3, <3>1 DEF Queued, Bars
  <2>7. /\ b >= a.lastClose
        /\ \A i \in 1..Len(Opens(a)) : Opens(a)[i].start < b
    BY <1>2, <1>9, <2>5, <2>6
  <2>8. QED BY <2>2, <2>3, <2>7 DEF OpensBar
<1>10. /\ c \in Aggregators /\ SameCourse(a, c)
       /\ IsLate(a, c, d) \/ Joins(a, c, b, d) \/ OpensBar(a, c, b, d)
  <2>1. \/ c = Renewed(a, a.closing, a.current, a.carry + d, a.late + 1)
        \/ \E j \in 1..Len(a.closing) :
              /\ a.closing[j].start = b
              /\ c = Renewed(a, [a.closing EXCEPT ![j] = Add(@, d)], a.current, a.carry, a.late)
        \/ /\ a.current # NoBar /\ a.current.start = b
           /\ c = Renewed(a, a.closing, Add(a.current, d), a.carry, a.late)
        \/ /\ a.current = NoBar /\ b + Step > a.lastClose
           /\ c = Renewed(a, a.closing, bar, 0, a.late)
        \/ /\ a.current # NoBar /\ b > a.current.start
           /\ c = Renewed(a, Append(a.closing, a.current), bar, 0, a.late)
    <3>1. \/ Traded(a, b, d) = Renewed(a, a.closing, a.current, a.carry + d, a.late + 1)
          \/ \E j \in 1..Len(a.closing) :
                /\ a.closing[j].start = b
                /\ Traded(a, b, d) = Renewed(a, [a.closing EXCEPT ![j] = Add(@, d)], a.current, a.carry, a.late)
          \/ /\ a.current # NoBar /\ a.current.start = b
             /\ Traded(a, b, d) = Renewed(a, a.closing, Add(a.current, d), a.carry, a.late)
          \/ /\ a.current = NoBar /\ b + Step > a.lastClose
             /\ Traded(a, b, d) = Renewed(a, a.closing, bar, 0, a.late)
          \/ /\ a.current # NoBar /\ b > a.current.start
             /\ Traded(a, b, d) = Renewed(a, Append(a.closing, a.current), bar, 0, a.late)
      BY ONLY TradedRenews, a \in Aggregators, Queued(a), b \in Nat, Aligned(b), d \in Nat
    <3>2. QED BY ONLY <1>1, <3>1, Zenon
  <2> HIDE DEF bar
  <2>2. CASE c = Renewed(a, a.closing, a.current, a.carry + d, a.late + 1)
    BY <1>1, <1>4, <2>2
  <2>3. QED BY <2>1, <2>2, <1>6, <1>7, <1>8, <1>9, Zenon
<1>11. QED BY <1>1, <1>10

-----------------------------------------------------------------------------
(* Volumes *)

Weighed(S) == \A r \in S : r.volume \in Nat
Volumes(q) == [i \in DOMAIN q |-> q[i].volume]

\* Both kinds of bars have a volume.
LEMMA BarsWeighed == Weighed(Bars) /\ Weighed(SentBars)
BY DEF Weighed, Bars, SentBars

\* The volume of bars is the total of theirs.
LEMMA VolumeTyped ==
  ASSUME NEW S, Weighed(S), NEW q \in Seq(S)
  PROVE  /\ Volumes(q) \in Seq(Nat) /\ Volumes(q) \in Seq(Int)
         /\ Volume(q) = Total(Volumes(q)) /\ Volume(q) \in Nat
         /\ q = <<>> => Volume(q) = 0
<1>1. /\ DOMAIN q = 1..Len(q) /\ Len(q) \in Nat
      /\ \A i \in 1..Len(q) : q[i] \in S
  OBVIOUS
<1>2. \A i \in 1..Len(q) : q[i].volume \in Nat
  BY <1>1 DEF Weighed
<1>3. Volumes(q) \in Seq(Nat) /\ Volumes(q) \in Seq(Int)
  BY <1>1, <1>2 DEF Volumes
<1>4. Volume(q) = Total(Volumes(q))
  BY Zenon DEF Volume, Volumes
<1>5. q = <<>> => Volumes(q) = <<>>
  BY <1>1 DEF Volumes
<1>6. QED BY <1>3, <1>4, <1>5, TotalType

\* A bar more adds its volume.
LEMMA VolumeAppend ==
  ASSUME NEW S, Weighed(S), NEW q \in Seq(S), NEW b \in S
  PROVE  Volume(Append(q, b)) = Volume(q) + b.volume
<1>1. /\ Append(q, b) \in Seq(S) /\ b.volume \in Nat
      /\ Len(Append(q, b)) = Len(q) + 1 /\ Len(q) \in Nat
      /\ \A i \in 1..Len(q) : Append(q, b)[i] = q[i]
      /\ Append(q, b)[Len(q) + 1] = b
  BY DEF Weighed
<1>2. /\ Volumes(q) \in Seq(Int) /\ Volumes(Append(q, b)) \in Seq(Int)
      /\ Volume(q) = Total(Volumes(q)) /\ Volume(Append(q, b)) = Total(Volumes(Append(q, b)))
  BY <1>1, VolumeTyped
<1>3. Volumes(Append(q, b)) = Append(Volumes(q), b.volume)
  BY <1>1 DEF Volumes
<1>4. QED BY <1>1, <1>2, <1>3, TotalAppend

\* Volumes of a sequence, one by one.
LEMMA VolumesAre ==
  ASSUME NEW S, NEW q \in Seq(S)
  PROVE  /\ Len(Volumes(q)) = Len(q) /\ Len(q) \in Nat
         /\ \A i \in 1..Len(q) : Volumes(q)[i] = q[i].volume
BY DEF Volumes

\* What is handed on after what was sent adds up.
LEMMA VolumeConcat ==
  ASSUME NEW S, Weighed(S), NEW p \in Seq(S), NEW q \in Seq(S)
  PROVE  Volume(p \o q) = Volume(p) + Volume(q)
<1> DEFINE m == Len(p)
           n == Len(q)
<1>1. /\ p \o q \in Seq(S) /\ Len(p \o q) = m + n
      /\ \A i \in 1..(m + n) : (p \o q)[i] = IF i <= m THEN p[i] ELSE q[i - m]
  BY ConcatProperties
<1>2. /\ Volumes(p) \in Seq(Int) /\ Volumes(q) \in Seq(Int) /\ Volumes(p \o q) \in Seq(Int)
      /\ Volume(p) = Total(Volumes(p)) /\ Volume(q) = Total(Volumes(q))
      /\ Volume(p \o q) = Total(Volumes(p \o q))
  BY <1>1, VolumeTyped
<1>3. /\ Len(Volumes(p)) = m /\ m \in Nat
      /\ Len(Volumes(q)) = n /\ n \in Nat
      /\ Len(Volumes(p \o q)) = Len(p \o q)
      /\ \A i \in 1..m : Volumes(p)[i] = p[i].volume
      /\ \A i \in 1..n : Volumes(q)[i] = q[i].volume
      /\ \A i \in 1..Len(p \o q) : Volumes(p \o q)[i] = (p \o q)[i].volume
  BY <1>1, VolumesAre
<1>4. PICK v, w, x, r : v = Volumes(p) /\ w = Volumes(q) /\ x = Volumes(p \o q) /\ r = p \o q
  OBVIOUS
<1>5. /\ v \in Seq(Int) /\ w \in Seq(Int) /\ x \in Seq(Int)
      /\ Len(v) = m /\ Len(w) = n /\ Len(x) = m + n
  BY <1>1, <1>2, <1>3, <1>4
<1>6. /\ v \o w \in Seq(Int) /\ Len(v \o w) = Len(v) + Len(w)
      /\ \A i \in 1..(Len(v) + Len(w)) :
           (v \o w)[i] = IF i <= Len(v) THEN v[i] ELSE w[i - Len(v)]
  <2>1. v \in Seq(Int) /\ w \in Seq(Int)
    BY <1>5
  <2>2. QED BY ONLY <2>1, ConcatProperties
<1> HIDE DEF m, n
<1>7. ASSUME NEW i \in 1..(m + n) PROVE x[i] = (v \o w)[i]
  <2>1. x[i] = r[i].volume
    BY <1>1, <1>3, <1>4
  <2>2. r[i] = IF i <= m THEN p[i] ELSE q[i - m]
    BY <1>1, <1>4
  <2>3. (v \o w)[i] = IF i <= m THEN v[i] ELSE w[i - m]
    BY <1>5, <1>6
  <2>4. m \in Nat /\ n \in Nat
    BY <1>3
  <2>5. CASE i <= m
    <3>1. i \in 1..m
      BY <2>4, <2>5
    <3>2. v[i] = p[i].volume
      BY <1>3, <1>4, <3>1
    <3>3. QED BY <2>1, <2>2, <2>3, <2>5, <3>2
  <2>6. CASE ~(i <= m)
    <3>1. i - m \in 1..n
      BY <2>4, <2>6
    <3>2. w[i - m] = q[i - m].volume
      BY <1>3, <1>4, <3>1
    <3>3. QED BY <2>1, <2>2, <2>3, <2>6, <3>2
  <2>7. QED BY <2>5, <2>6
<1>8. Len(x) = Len(v \o w) /\ \A i \in 1..Len(x) : x[i] = (v \o w)[i]
  BY <1>5, <1>6, <1>7
<1>9. x = v \o w
  BY <1>5, <1>6, <1>8, SeqEqual
<1>10. QED BY <1>2, <1>4, <1>5, <1>9, TotalConcat

\* The volume of a queue in which one bar was given d more.
LEMMA VolumeJoined ==
  ASSUME NEW q \in Seq(Bars), NEW p \in Seq(Bars), NEW j \in 1..Len(q), NEW d \in Nat,
         Len(p) = Len(q),
         \A i \in 1..Len(q) : p[i] = IF i = j THEN Add(q[i], d) ELSE q[i]
  PROVE  Volume(p) = Volume(q) + d
<1>1. /\ Volumes(q) \in Seq(Int) /\ Volumes(p) \in Seq(Int)
      /\ Volume(q) = Total(Volumes(q)) /\ Volume(p) = Total(Volumes(p))
  BY VolumeTyped, BarsWeighed
<1>2. /\ Len(Volumes(q)) = Len(q) /\ Len(Volumes(p)) = Len(q)
      /\ \A i \in 1..Len(q) : Volumes(q)[i] = q[i].volume /\ Volumes(p)[i] = p[i].volume
  BY DEF Volumes
<1>3. \A i \in 1..Len(q) : Add(q[i], d).volume = q[i].volume + d
  <2>1. \A i \in 1..Len(q) : q[i] \in Bars
    OBVIOUS
  <2>2. QED BY <2>1 DEF Bars, Add
<1>4. \A i \in 1..Len(q) :
        Volumes(p)[i] = IF i = j THEN Volumes(q)[i] + d ELSE Volumes(q)[i]
  BY <1>2, <1>3
<1>5. PICK v, w : v = Volumes(q) /\ w = Volumes(p)
  OBVIOUS
<1>6. /\ v \in Seq(Int) /\ w \in Seq(Int) /\ j \in 1..Len(v) /\ d \in Int /\ Len(w) = Len(v)
      /\ \A i \in 1..Len(v) : w[i] = IF i = j THEN v[i] + d ELSE v[i]
  BY <1>1, <1>2, <1>4, <1>5
<1>7. w = [v EXCEPT ![j] = @ + d]
  <2>1. PICK e : e = v[j] + d
    OBVIOUS
  <2>2. e \in Int
    BY <1>6, <2>1
  <2>3. /\ [v EXCEPT ![j] = e] \in Seq(Int) /\ Len([v EXCEPT ![j] = e]) = Len(w)
        /\ \A i \in 1..Len(w) : w[i] = [v EXCEPT ![j] = e][i]
    BY <1>6, <2>1, <2>2, ExceptSeq
  <2>4. w = [v EXCEPT ![j] = e]
    BY <1>6, <2>3, SeqEqual
  <2>5. QED BY <2>1, <2>4
<1>8. Total(w) = Total(v) + d
  BY <1>6, <1>7, TotalAdd
<1>9. QED BY <1>1, <1>5, <1>8

-----------------------------------------------------------------------------
(* A trade fits into the queue *)

\* A trade joins the open bar, opens the next or is late; the volumes add up.
LEMMA TradedFits ==
  ASSUME NEW a \in Aggregators, Queued(a), a.started,
         NEW g \in Nat, BeginsAt(a, g),
         NEW b \in Nat, Aligned(b), NEW d \in Nat,
         NEW c \in Aggregators, SameCourse(a, c),
         IsLate(a, c, d) \/ Joins(a, c, b, d) \/ OpensBar(a, c, b, d)
  PROVE  /\ Queued(c) /\ BeginsAt(c, g)
         /\ Volume(Opens(c)) + c.carry = Volume(Opens(a)) + a.carry + d
         /\ c.late = a.late => \E i \in 1..Len(Opens(c)) : Opens(c)[i].start = b
         /\ c.late >= a.late
         /\ \A i \in 1..Len(Opens(a)) :
              \E j \in 1..Len(Opens(c)) : Opens(c)[j].start = Opens(a)[i].start
<1>1. PICK q, p : q = Opens(a) /\ p = Opens(c)
  OBVIOUS
<1>2. /\ q \in Seq(Bars) /\ p \in Seq(Bars) /\ Len(q) \in Nat /\ Len(p) \in Nat
      /\ \A i \in 1..Len(q) : q[i] \in Bars
      /\ \A i \in 1..Len(p) : p[i] \in Bars
  <2>1. q \in Seq(Bars) /\ p \in Seq(Bars)
    BY <1>1, OpensTyped
  <2>2. QED BY <2>1
<1>3. /\ c.lastClose = a.lastClose /\ c.started = a.started
      /\ c.current = NoBar => c.closing = <<>>
      /\ a.carry \in Nat /\ a.late \in Nat /\ a.lastClose \in Nat
  BY DEF SameCourse, Aggregators
<1>4. /\ Aligned(a.lastClose)
      /\ \A i \in 1..Len(q) :
           /\ Aligned(q[i].start) /\ q[i].start >= a.lastClose
           /\ q[i].partial => i = 1
           /\ q[i].start + Step >= g
           /\ q[i].partial <=> q[i].start < g
      /\ \A i, j \in 1..Len(q) : i < j => q[i].start < q[j].start
      /\ q = <<>> => a.lastClose >= g
  BY <1>1 DEF Queued, BeginsAt
<1>5. SUFFICES
        /\ \A i \in 1..Len(p) :
             /\ Aligned(p[i].start) /\ p[i].start >= a.lastClose
             /\ p[i].partial => i = 1
             /\ p[i].start + Step >= g
             /\ p[i].partial <=> p[i].start < g
        /\ \A i, j \in 1..Len(p) : i < j => p[i].start < p[j].start
        /\ p = <<>> => q = <<>>
        /\ Volume(p) + c.carry = Volume(q) + a.carry + d
        /\ c.late = a.late => \E i \in 1..Len(p) : p[i].start = b
        /\ c.late >= a.late
        /\ \A i \in 1..Len(q) : \E j \in 1..Len(p) : p[j].start = q[i].start
  BY <1>1, <1>3, <1>4 DEF Queued, BeginsAt
<1>6. Volume(q) \in Nat
  BY <1>2, VolumeTyped, BarsWeighed
<1>7. CASE IsLate(a, c, d)
  <2>1. p = q /\ c.carry = a.carry + d /\ c.late = a.late + 1
    BY <1>1, <1>7 DEF IsLate
  <2>2. /\ Volume(p) + c.carry = Volume(q) + a.carry + d
        /\ c.late # a.late /\ c.late >= a.late
    BY <1>3, <1>6, <2>1
  <2>3. QED BY <1>4, <2>1, <2>2
<1>8. CASE Joins(a, c, b, d)
  <2>1. PICK j \in 1..Len(q) :
          /\ q[j].start = b
          /\ \A i \in 1..Len(q) : p[i] = IF i = j THEN Add(q[i], d) ELSE q[i]
    BY <1>1, <1>8 DEF Joins
  <2>2. Len(p) = Len(q) /\ c.carry = a.carry /\ c.late = a.late
    BY <1>1, <1>8 DEF Joins
  <2>3. \A i \in 1..Len(q) : p[i].start = q[i].start /\ p[i].partial = q[i].partial
    <3>1. ASSUME NEW x \in Bars
          PROVE  Add(x, d).start = x.start /\ Add(x, d).partial = x.partial
      BY DEF Add, Bars
    <3>2. QED BY <1>2, <2>1, <3>1
  <2>4. Volume(p) = Volume(q) + d
    BY <1>2, <2>1, <2>2, VolumeJoined
  <2>5. Volume(p) + c.carry = Volume(q) + a.carry + d /\ c.late >= a.late
    BY <1>3, <1>6, <2>2, <2>4
  <2>6. p = <<>> => q = <<>>
    BY <1>2, <2>2
  <2>7. QED BY <1>2, <1>4, <2>1, <2>2, <2>3, <2>5, <2>6
<1>9. CASE OpensBar(a, c, b, d)
  <2>1. PICK bar : bar = [start |-> b, volume |-> d + a.carry, partial |-> FALSE]
    OBVIOUS
  <2>2. /\ bar \in Bars /\ bar.start = b /\ bar.volume = d + a.carry /\ bar.partial = FALSE
    BY <1>3, <2>1 DEF Bars
  <2>3. /\ c.carry = 0 /\ c.late = a.late /\ p = Append(q, bar)
        /\ b >= a.lastClose /\ \A i \in 1..Len(q) : q[i].start < b
    BY <1>1, <1>9, <2>1 DEF OpensBar
  <2>4. /\ Len(p) = Len(q) + 1 /\ p[Len(q) + 1] = bar
        /\ \A i \in 1..Len(q) : p[i] = q[i]
    BY <1>2, <2>3
  <2>5. Volume(p) + c.carry = Volume(q) + a.carry + d /\ c.late >= a.late
    <3>1. Volume(p) = Volume(q) + bar.volume
      BY <1>2, <2>2, <2>3, VolumeAppend, BarsWeighed
    <3>2. QED BY <1>3, <1>6, <2>2, <2>3, <3>1
  <2>6. b >= g
    <3>1. CASE q = <<>>
      BY <1>3, <1>4, <2>3, <3>1
    <3>2. CASE q # <<>>
      <4>1. 1 \in 1..Len(q)
        BY <1>2, <3>2
      <4>2. Aligned(q[1].start) /\ q[1].start < b /\ q[1].start + Step >= g
        BY <1>4, <2>3, <4>1
      <4>3. q[1].start + Step <= b /\ q[1].start \in Nat
        BY <4>2, Spaced, NextAligned
      <4>4. QED BY <4>2, <4>3
    <3>3. QED BY <3>1, <3>2
  <2>7. \A i \in 1..Len(p) : i \in 1..Len(q) \/ i = Len(q) + 1
    BY <1>2, <2>4
  <2>8. \A i \in 1..Len(p) :
          /\ Aligned(p[i].start) /\ p[i].start >= a.lastClose
          /\ p[i].partial => i = 1
          /\ p[i].start + Step >= g
          /\ p[i].partial <=> p[i].start < g
    <3>1. Aligned(bar.start) /\ bar.start >= a.lastClose /\ ~bar.partial
      BY <2>2, <2>3
    <3>2. bar.start + Step >= g /\ ~(bar.start < g)
      BY <2>2, <2>6
    <3>3. QED BY <1>4, <2>4, <2>7, <3>1, <3>2
  <2>9. \A i, j \in 1..Len(p) : i < j => p[i].start < p[j].start
    <3>1. ASSUME NEW i \in 1..Len(p), NEW j \in 1..Len(p), i < j
          PROVE  p[i].start < p[j].start
      <4>1. i \in 1..Len(q)
        BY <1>2, <2>4, <3>1
      <4>2. CASE j \in 1..Len(q)
        BY <1>4, <2>4, <3>1, <4>1, <4>2
      <4>3. CASE j = Len(q) + 1
        BY <2>2, <2>3, <2>4, <4>1, <4>3
      <4>4. QED BY <2>7, <4>2, <4>3
    <3>2. QED BY <3>1
  <2>10. p # <<>> /\ \E i \in 1..Len(p) : p[i].start = b
    <3>1. Len(q) + 1 \in 1..Len(p) /\ p[Len(q) + 1].start = b
      BY <1>2, <2>2, <2>4
    <3>2. QED BY <1>2, <3>1
  <2>11. \A i \in 1..Len(q) : \E j \in 1..Len(p) : p[j].start = q[i].start
    BY <1>2, <2>4
  <2>12. QED BY <2>5, <2>8, <2>9, <2>10, <2>11
<1>10. QED BY <1>7, <1>8, <1>9

-----------------------------------------------------------------------------
(* Closing the bars that are due *)

\* The bars in out leave the queue at its front; what stays is not due.
Leaves(a, c, out, now) ==
  /\ c.started = a.started /\ c.gap = a.gap /\ c.lastVolume = a.lastVolume
  /\ c.carry = a.carry /\ c.late = a.late
  /\ c.current = NoBar => c.closing = <<>>
  /\ Len(out) <= Len(Opens(a))
  /\ \A i \in 1..Len(out) : out[i] = Opens(a)[i]
  /\ Len(Opens(c)) = Len(Opens(a)) - Len(out)
  /\ \A i \in 1..Len(Opens(c)) :
       Opens(c)[i] = Opens(a)[Len(out) + i] /\ now < Due(Opens(c)[i])
  /\ c.lastClose = IF out = <<>> THEN a.lastClose ELSE out[Len(out)].start + Step

\* How many of the bars in the grace are due.
LEMMA PoppedIs ==
  ASSUME NEW a, NEW now \in Nat, a.closing \in Seq(Bars)
  PROVE  /\ Popped(a, now) \in 0..Len(a.closing)
         /\ \A i \in 1..Popped(a, now) : now >= Due(a.closing[i])
         /\ Popped(a, now) < Len(a.closing) => now < Due(a.closing[Popped(a, now) + 1])
<1>1. PICK q \in Seq(Bars) : q = a.closing
  OBVIOUS
<1>2. Len(q) \in Nat /\ \A i \in 1..Len(q) : q[i] \in Bars
  BY <1>1
<1>3. \A i \in 1..Len(q) : Due(q[i]) \in Int
  <2>1. \A x \in Bars : Due(x) \in Int
    BY DEF Bars, Due
  <2>2. QED BY <1>2, <2>1
<1> DEFINE S == {n \in 0..Len(q) : n = Len(q) \/ now < Due(q[n + 1])}
<1>4. S \subseteq Nat /\ S # {}
  <2>1. Len(q) \in S
    BY <1>2
  <2>2. QED BY <2>1
<1>5. PICK n \in S : \A m \in S : n <= m
  <2> HIDE DEF S
  <2>1. QED BY <1>4, LeastNat
<1>6. n \in 0..Len(q) /\ (n < Len(q) => now < Due(q[n + 1])) /\ \A m \in S : n <= m
  BY <1>2, <1>5
<1>7. \A i \in 1..n : now >= Due(q[i])
  <2>1. ASSUME NEW i \in 1..n PROVE now >= Due(q[i])
    <3>1. i - 1 \in 0..Len(q) /\ i - 1 # Len(q) /\ i - 1 < n /\ (i - 1) + 1 = i /\ i \in 1..Len(q)
      BY <1>2, <1>6
    <3>2. ~(i - 1 \in S)
      <4>1. n \in Nat /\ i - 1 \in Nat /\ ~(n <= i - 1)
        BY <1>2, <1>6, <3>1
      <4> HIDE DEF S
      <4>2. QED BY <1>6, <4>1
    <3>3. ~(now < Due(q[i]))
      BY <3>1, <3>2
    <3>4. QED BY <1>3, <3>1, <3>3
  <2>2. QED BY <2>1
<1>8. \E k \in 0..Len(a.closing) :
        /\ \A i \in 1..k : now >= Due(a.closing[i])
        /\ k < Len(a.closing) => now < Due(a.closing[k + 1])
  BY <1>1, <1>6, <1>7
<1>9. QED BY <1>8 DEF Popped

\* The latest end of some bars that follow one another.
LEMMA LatestEnd ==
  ASSUME NEW out \in Seq(Bars), NEW l \in Nat,
         \A i \in 1..Len(out) : out[i].start >= l,
         \A i, j \in 1..Len(out) : i < j => out[i].start < out[j].start
  PROVE  LET ends == {out[i].start + Step : i \in DOMAIN out} \cup {l} IN
         (CHOOSE e \in ends : \A d \in ends : d <= e)
           = IF out = <<>> THEN l ELSE out[Len(out)].start + Step
<1> DEFINE ends == {out[i].start + Step : i \in DOMAIN out} \cup {l}
           top == IF out = <<>> THEN l ELSE out[Len(out)].start + Step
<1>1. /\ DOMAIN out = 1..Len(out) /\ Len(out) \in Nat
      /\ out = <<>> <=> Len(out) = 0
      /\ \A i \in 1..Len(out) : out[i] \in Bars
  OBVIOUS
<1>2. \A i \in 1..Len(out) : out[i].start \in Nat
  BY <1>1 DEF Bars
<1>3. top \in ends /\ \A d \in ends : d <= top
  <2>1. CASE out = <<>>
    BY <1>1, <2>1
  <2>2. CASE out # <<>>
    <3>1. Len(out) \in 1..Len(out) /\ top = out[Len(out)].start + Step
      BY <1>1, <2>2
    <3>2. top \in ends
      BY <1>1, <3>1
    <3>3. \A i \in 1..Len(out) : out[i].start + Step <= top
      <4>1. ASSUME NEW i \in 1..Len(out) PROVE out[i].start + Step <= top
        <5>1. Len(out) \in Nat
          BY <1>1
        <5>2. i = Len(out) \/ i < Len(out)
          BY <5>1
        <5>3. QED BY <1>2, <3>1, <5>2
      <4>2. QED BY <4>1
    <3>4. l <= top
      BY <1>2, <3>1
    <3>5. QED BY <1>1, <3>2, <3>3, <3>4
  <2>3. QED BY <2>1, <2>2
<1>4. \A e \in ends : e \in Nat
  BY <1>1, <1>2
<1> HIDE DEF ends, top
<1>5. PICK m : m = CHOOSE e \in ends : \A d \in ends : d <= e
  OBVIOUS
<1>6. m \in ends /\ \A d \in ends : d <= m
  BY <1>3, <1>5
<1>7. m = top
  BY <1>3, <1>4, <1>6
<1>8. QED BY <1>5, <1>7 DEF ends, top

\* The bars that are ripe are the first ones, and no others are due.
LEMMA RipeIs ==
  ASSUME NEW a \in Aggregators, Queued(a), NEW now \in Nat
  PROVE  /\ Ripe(a, now) \in Seq(Bars) /\ Len(Ripe(a, now)) \in 0..Len(Opens(a))
         /\ \A i \in 1..Len(Ripe(a, now)) : Ripe(a, now)[i] = Opens(a)[i]
         /\ \A i \in 1..Len(Opens(a)) : i > Len(Ripe(a, now)) => now < Due(Opens(a)[i])
<1>1. PICK q, k, n, o : q = a.closing /\ k = a.current /\ n = Popped(a, now) /\ o = Opens(a)
  OBVIOUS
<1>2. /\ q \in Seq(Bars) /\ Len(q) \in Nat /\ o \in Seq(Bars)
      /\ k # NoBar => k \in Bars
      /\ Len(o) = IF k = NoBar THEN Len(q) ELSE Len(q) + 1
      /\ \A i \in 1..Len(q) : o[i] = q[i]
      /\ k # NoBar => o[Len(q) + 1] = k
  <2>1. q \in Seq(Bars)
    BY <1>1, OpensTyped
  <2>2. QED BY <1>1, <2>1, OpensTyped
<1>3. /\ n \in 0..Len(q)
      /\ n < Len(q) => now < Due(q[n + 1])
  BY <1>1, <1>2, PoppedIs
<1>4. PICK front : front = SubSeq(q, 1, n)
  OBVIOUS
<1>5. /\ front \in Seq(Bars) /\ Len(front) = n
      /\ \A i \in 1..n : front[i] = o[i]
  BY <1>2, <1>3, <1>4
<1>6. PICK r : r = Ripe(a, now)
  OBVIOUS
<1>7. r = IF n = Len(q) /\ k # NoBar /\ now >= Due(k) THEN Append(front, k) ELSE front
  BY <1>1, <1>4, <1>6, Zenon DEF Ripe
<1>8. /\ \A i \in 1..Len(o) : o[i] \in Bars
      /\ \A i \in 1..Len(o) : o[i].start \in Nat /\ Due(o[i]) = o[i].start + Step + Grace
  <2>1. \A i \in 1..Len(o) : o[i] \in Bars
    BY <1>2
  <2>2. QED BY <2>1 DEF Bars, Due
<1>9. \A i, j \in 1..Len(o) : i < j => Due(o[i]) < Due(o[j])
  <2>1. \A i, j \in 1..Len(o) : i < j => o[i].start < o[j].start
    BY <1>1 DEF Queued
  <2>2. ASSUME NEW i \in 1..Len(o), NEW j \in 1..Len(o), i < j
        PROVE  Due(o[i]) < Due(o[j])
    <3>1. o[i].start < o[j].start /\ o[i].start \in Nat /\ o[j].start \in Nat
      BY <1>8, <2>1, <2>2
    <3>2. Due(o[i]) = o[i].start + Step + Grace /\ Due(o[j]) = o[j].start + Step + Grace
      BY <1>8
    <3>3. QED BY <3>1, <3>2, SMTT(30)
  <2>3. QED BY <2>2
<1>10. /\ r \in Seq(Bars) /\ Len(r) \in 0..Len(o)
       /\ \A i \in 1..Len(r) : r[i] = o[i]
       /\ \A i \in 1..Len(o) : i > Len(r) => now < Due(o[i])
  <2>1. CASE n = Len(q) /\ k # NoBar /\ now >= Due(k)
    <3>1. r = Append(front, k) /\ k \in Bars
      BY <1>2, <1>7, <2>1
    <3>2. /\ r \in Seq(Bars) /\ Len(r) = Len(q) + 1 /\ Len(o) = Len(q) + 1
          /\ \A i \in 1..Len(q) : r[i] = front[i]
          /\ r[Len(q) + 1] = k
      BY <1>2, <1>5, <2>1, <3>1
    <3>3. \A i \in 1..Len(r) : i \in 1..Len(q) \/ i = Len(q) + 1
      BY <1>2, <3>2
    <3>4. QED BY <1>2, <1>5, <2>1, <3>2, <3>3
  <2>2. CASE ~(n = Len(q) /\ k # NoBar /\ now >= Due(k))
    <3>1. r = front
      BY <1>7, <2>2
    <3>2. Len(r) = n /\ n <= Len(o)
      BY <1>2, <1>3, <1>5, <3>1
    <3>3. ASSUME n < Len(o) PROVE now < Due(o[n + 1])
      <4>1. CASE n < Len(q)
        <5>1. n + 1 \in 1..Len(q)
          BY <1>2, <1>3, <4>1
        <5>2. QED BY <1>2, <1>3, <4>1, <5>1
      <4>2. CASE n = Len(q)
        <5>1. k # NoBar /\ o[n + 1] = k /\ n + 1 \in 1..Len(o)
          BY <1>2, <3>3, <4>2
        <5>2. ~(now >= Due(k)) /\ Due(k) \in Int
          BY <1>8, <2>2, <4>2, <5>1
        <5>3. QED BY <5>1, <5>2
      <4>3. QED BY <1>2, <1>3, <4>1, <4>2
    <3>4. ASSUME NEW i \in 1..Len(o), i > n PROVE now < Due(o[i])
      <4>1. n + 1 \in 1..Len(o) /\ (i = n + 1 \/ n + 1 < i)
        BY <1>2, <1>3, <3>4
      <4>2. CASE i = n + 1
        BY <1>2, <1>3, <3>3, <4>1, <4>2
      <4>3. CASE n + 1 < i
        <5>1. Due(o[n + 1]) < Due(o[i]) /\ now < Due(o[n + 1])
          BY <1>2, <1>3, <1>9, <3>3, <4>1, <4>3
        <5>2. Due(o[n + 1]) \in Int /\ Due(o[i]) \in Int
          BY <1>8, <4>1
        <5>3. QED BY <5>1, <5>2
      <4>4. QED BY <4>1, <4>2, <4>3
    <3>5. QED BY <1>2, <1>3, <1>5, <3>1, <3>2, <3>4
  <2>3. QED BY <2>1, <2>2
<1>11. QED BY <1>1, <1>6, <1>10

\* Closing them leaves the rest.
LEMMA ClosedLeaves ==
  ASSUME NEW a \in Aggregators, Queued(a), NEW now \in Nat
  PROVE  /\ Closed(a, Ripe(a, now)) \in Aggregators
         /\ Leaves(a, Closed(a, Ripe(a, now)), Ripe(a, now), now)
<1>1. PICK q, k, o, r, c :
        /\ q = a.closing /\ k = a.current /\ o = Opens(a)
        /\ r = Ripe(a, now) /\ c = Closed(a, r)
  OBVIOUS
<1>2. /\ q \in Seq(Bars) /\ Len(q) \in Nat /\ o \in Seq(Bars)
      /\ k \in Bars \cup {NoBar} /\ (k # NoBar => k \in Bars) /\ (k = NoBar => q = <<>>)
      /\ Len(o) = IF k = NoBar THEN Len(q) ELSE Len(q) + 1
      /\ \A i \in 1..Len(q) : o[i] = q[i]
      /\ k # NoBar => o[Len(q) + 1] = k
  <2>1. q \in Seq(Bars)
    BY <1>1, OpensTyped
  <2>2. k \in Bars \cup {NoBar} /\ (k = NoBar => q = <<>>)
    BY <1>1 DEF Aggregators, Queued
  <2>3. QED BY <1>1, <2>1, <2>2, OpensTyped
<1>3. /\ r \in Seq(Bars) /\ Len(r) \in 0..Len(o)
      /\ \A i \in 1..Len(r) : r[i] = o[i]
      /\ \A i \in 1..Len(o) : i > Len(r) => now < Due(o[i])
  BY <1>1, RipeIs
<1>4. PICK rest, next, l :
        /\ rest = SubSeq(q, Len(r) + 1, Len(q))
        /\ next = IF Len(r) > Len(q) THEN NoBar ELSE k
        /\ l = IF r = <<>> THEN a.lastClose ELSE r[Len(r)].start + Step
  OBVIOUS
<1>5. /\ a.lastClose \in Nat
      /\ \A i \in 1..Len(o) : o[i].start >= a.lastClose
      /\ \A i, j \in 1..Len(o) : i < j => o[i].start < o[j].start
  BY <1>1 DEF Queued, Aggregators
<1>6. c = [a EXCEPT !.closing = rest, !.current = next, !.lastClose = l]
  <2>1. /\ \A i \in 1..Len(r) : r[i].start >= a.lastClose
        /\ \A i, j \in 1..Len(r) : i < j => r[i].start < r[j].start
    <3>1. \A i \in 1..Len(r) : i \in 1..Len(o)
      BY <1>2, <1>3
    <3>2. QED BY <1>3, <1>5, <3>1
  <2> DEFINE ends == {r[i].start + Step : i \in DOMAIN r} \cup {a.lastClose}
             latest == CHOOSE e \in ends : \A d \in ends : d <= e
  <2>2. latest = l
    BY <1>4, <1>5, <1>3, <2>1, LatestEnd
  <2>3. c = [a EXCEPT !.closing = SubSeq(a.closing, Len(r) + 1, Len(a.closing)),
                      !.current = IF Len(r) > Len(a.closing) THEN NoBar ELSE a.current,
                      !.lastClose = latest]
    BY <1>1, Zenon DEF Closed
  <2> HIDE DEF latest
  <2>4. QED BY <1>1, <1>4, <2>2, <2>3, Zenon
<1>7. /\ rest \in Seq(Bars) /\ next \in Bars \cup {NoBar} /\ l \in Nat
      /\ next = NoBar => rest = <<>>
      /\ Len(rest) = IF Len(r) > Len(q) THEN 0 ELSE Len(q) - Len(r)
      /\ \A i \in 1..Len(rest) : rest[i] = o[Len(r) + i]
  <2>1. rest \in Seq(Bars)
    BY <1>2, <1>3, <1>4
  <2>2. next \in Bars \cup {NoBar}
    BY <1>2, <1>4
  <2>3. l \in Nat
    <3>1. r # <<>> => r[Len(r)] \in Bars
      BY <1>3
    <3>2. QED BY <1>4, <1>5, <3>1 DEF Bars
  <2>4. /\ Len(rest) = IF Len(r) > Len(q) THEN 0 ELSE Len(q) - Len(r)
        /\ \A i \in 1..Len(rest) : rest[i] = q[Len(r) + i] /\ Len(r) + i \in 1..Len(q)
    <3>1. PICK m \in Nat : m = Len(r)
      BY <1>3
    <3>2. rest = SubSeq(q, m + 1, Len(q))
      BY <1>4, <3>1
    <3>3. CASE m > Len(q)
      <4>1. Len(rest) = 0
        BY <1>2, <3>2, <3>3
      <4>2. QED BY <3>1, <3>3, <4>1
    <3>4. CASE m <= Len(q)
      <4>1. /\ Len(rest) = Len(q) - m
            /\ \A i \in 1..Len(q) - m : rest[i] = q[m + i]
        BY <1>2, <3>2, <3>4
      <4>2. \A i \in 1..Len(q) - m : m + i \in 1..Len(q)
        BY <1>2, <3>4
      <4>3. ~(m > Len(q))
        BY <1>2, <3>4
      <4>4. QED BY <3>1, <4>1, <4>2, <4>3
    <3>5. QED BY <1>2, <3>3, <3>4
  <2>5. next = NoBar => rest = <<>>
    BY <1>2, <1>3, <1>4, <2>1, <2>4
  <2>6. QED BY <1>2, <2>1, <2>2, <2>3, <2>4, <2>5
<1>8. c \in Aggregators
  BY <1>6, <1>7, Zenon DEF Aggregators
<1>9. /\ c.closing = rest /\ c.current = next /\ c.lastClose = l
      /\ c.started = a.started /\ c.gap = a.gap /\ c.lastVolume = a.lastVolume
      /\ c.carry = a.carry /\ c.late = a.late
  BY <1>6 DEF Aggregators
<1>10. PICK p : p = Opens(c)
  OBVIOUS
<1>11. p = IF next = NoBar THEN rest ELSE Append(rest, next)
  BY <1>9, <1>10 DEF Opens
<1>12. /\ Len(p) = Len(o) - Len(r)
       /\ \A i \in 1..Len(p) : p[i] = o[Len(r) + i]
  <2>1. CASE Len(r) > Len(q)
    <3>1. Len(r) = Len(o) /\ next = NoBar /\ Len(rest) = 0
      BY <1>2, <1>3, <1>4, <1>7, <2>1
    <3>2. Len(p) = 0 /\ Len(o) \in Nat
      BY <1>2, <1>7, <1>11, <3>1
    <3>3. QED BY <3>1, <3>2
  <2>2. CASE Len(r) <= Len(q) /\ k = NoBar
    <3>1. next = NoBar /\ Len(q) = 0 /\ Len(o) = 0
      BY <1>2, <1>3, <1>4, <2>2
    <3>2. Len(p) = 0 /\ Len(r) = 0
      BY <1>2, <1>3, <1>7, <1>11, <2>2, <3>1
    <3>3. QED BY <3>1, <3>2
  <2>3. CASE Len(r) <= Len(q) /\ k # NoBar
    <3>1. /\ next = k /\ p = Append(rest, k) /\ k \in Bars
          /\ Len(rest) = Len(q) - Len(r) /\ Len(o) = Len(q) + 1 /\ o[Len(q) + 1] = k
      <4>1. ~(Len(r) > Len(q)) /\ k \in Bars
        BY <1>2, <1>3, <2>3
      <4>2. next = k
        BY <1>4, <4>1
      <4>3. p = Append(rest, k)
        BY <1>11, <2>3, <4>2
      <4>4. Len(rest) = Len(q) - Len(r)
        BY <1>7, <4>1
      <4>5. QED BY <1>2, <2>3, <4>1, <4>2, <4>3, <4>4
    <3>2. /\ Len(p) = Len(rest) + 1 /\ p[Len(rest) + 1] = k
          /\ \A i \in 1..Len(rest) : p[i] = rest[i]
      BY <1>7, <3>1
    <3>3. Len(r) \in Nat /\ Len(rest) \in Nat
      BY <1>3, <1>7
    <3>4. \A i \in 1..Len(p) : i \in 1..Len(rest) \/ i = Len(rest) + 1
      BY <3>2, <3>3
    <3>5. Len(r) + (Len(rest) + 1) = Len(q) + 1
      BY <1>2, <3>1, <3>3
    <3>6. ASSUME NEW i \in 1..Len(p) PROVE p[i] = o[Len(r) + i]
      <4>1. CASE i \in 1..Len(rest)
        BY <1>7, <3>2, <4>1
      <4>2. CASE i = Len(rest) + 1
        BY <3>1, <3>2, <3>5, <4>2
      <4>3. QED BY <3>4, <4>1, <4>2
    <3>7. Len(p) = Len(o) - Len(r)
      BY <1>2, <3>1, <3>2, <3>3
    <3>8. QED BY <3>6, <3>7
  <2>4. QED BY <1>2, <1>3, <2>1, <2>2, <2>3
<1>13. \A i \in 1..Len(p) : now < Due(p[i])
  <2>1. \A i \in 1..Len(p) : Len(r) + i \in 1..Len(o) /\ Len(r) + i > Len(r)
    BY <1>2, <1>3, <1>12
  <2>2. QED BY <1>3, <1>12, <2>1
<1>14. Leaves(a, c, r, now)
  <2>1. Len(r) <= Len(o)
    BY <1>2, <1>3
  <2>2. c.current = NoBar => c.closing = <<>>
    BY <1>7, <1>9
  <2>3. QED BY <1>1, <1>3, <1>4, <1>9, <1>10, <1>12, <1>13, <2>1, <2>2 DEF Leaves
<1>15. QED BY <1>1, <1>8, <1>14

\* What closing does to the queue, and what leaves it.
LEMMA LeavesFits ==
  ASSUME NEW a \in Aggregators, NEW c \in Aggregators, NEW out \in Seq(Bars),
         NEW now \in Nat, NEW g \in Nat,
         Queued(a), BeginsAt(a, g), Leaves(a, c, out, now)
  PROVE  /\ Queued(c) /\ BeginsAt(c, g) /\ c.lastClose >= a.lastClose
         /\ \A i \in 1..Len(out) :
              /\ Aligned(out[i].start)
              /\ out[i].start >= a.lastClose /\ out[i].start < c.lastClose
              /\ out[i].partial => i = 1
              /\ out[i].partial <=> out[i].start < g
         /\ \A i, j \in 1..Len(out) : i < j => out[i].start < out[j].start
         /\ Volume(out) + Volume(Opens(c)) = Volume(Opens(a))
         /\ \A i \in 1..Len(Opens(a)) :
              \/ \E j \in 1..Len(out) : out[j] = Opens(a)[i]
              \/ \E j \in 1..Len(Opens(c)) : Opens(c)[j] = Opens(a)[i]
<1>1. PICK q, p, m : q = Opens(a) /\ p = Opens(c) /\ m = Len(out)
  OBVIOUS
<1>2. /\ q \in Seq(Bars) /\ p \in Seq(Bars) /\ Len(q) \in Nat /\ Len(p) \in Nat /\ m \in Nat
      /\ \A i \in 1..Len(q) : q[i] \in Bars
  <2>1. q \in Seq(Bars) /\ p \in Seq(Bars)
    BY <1>1, OpensTyped
  <2>2. QED BY <1>1, <2>1
<1>3. /\ m <= Len(q) /\ Len(p) = Len(q) - m
      /\ \A i \in 1..m : out[i] = q[i]
      /\ \A i \in 1..Len(p) : p[i] = q[m + i]
  BY <1>1 DEF Leaves
<1>4. c.current = NoBar => c.closing = <<>>
  BY DEF Leaves
<1>5. c.started = a.started
  BY DEF Leaves
<1>6. c.lastClose = IF m = 0 THEN a.lastClose ELSE q[m].start + Step
  <2>1. out = <<>> <=> m = 0
    BY <1>1
  <2>2. m # 0 => out[m] = q[m]
    BY <1>2, <1>3
  <2>3. QED BY <1>1, <2>1, <2>2 DEF Leaves
<1>7. /\ a.lastClose \in Nat /\ Aligned(a.lastClose)
      /\ \A i \in 1..Len(q) :
           /\ Aligned(q[i].start) /\ q[i].start >= a.lastClose
           /\ q[i].partial => i = 1
           /\ q[i].start + Step >= g
           /\ q[i].partial <=> q[i].start < g
      /\ \A i, j \in 1..Len(q) : i < j => q[i].start < q[j].start
      /\ a.started /\ q = <<>> => a.lastClose >= g
  BY <1>1 DEF Queued, BeginsAt, Aggregators
<1>8. \A i \in 1..Len(q) : q[i].start \in Nat
  BY <1>2 DEF Bars
<1>9. \A i \in 1..m : i \in 1..Len(q)
  BY <1>2, <1>3
<1>10. \A i \in 1..Len(p) : m + i \in 1..Len(q)
  BY <1>2, <1>3
<1>11. c.lastClose >= a.lastClose /\ Aligned(c.lastClose) /\ c.lastClose \in Nat
  <2>1. CASE m = 0
    BY <1>6, <1>7, <2>1
  <2>2. CASE m # 0
    <3>1. m \in 1..Len(q) /\ c.lastClose = q[m].start + Step
      BY <1>2, <1>3, <1>6, <2>2
    <3>2. Aligned(q[m].start) /\ q[m].start >= a.lastClose /\ q[m].start \in Nat
      BY <1>7, <1>8, <3>1
    <3>3. Aligned(q[m].start + Step)
      BY <3>2, NextAligned
    <3>4. QED BY <1>7, <3>1, <3>2, <3>3
  <2>3. QED BY <2>1, <2>2
<1>12. \A i \in 1..m : q[i].start < c.lastClose
  <2>1. ASSUME NEW i \in 1..m PROVE q[i].start < c.lastClose
    <3>1. m \in 1..Len(q) /\ c.lastClose = q[m].start + Step /\ (i = m \/ i < m)
      BY <1>2, <1>3, <1>6, <2>1
    <3>2. q[i].start <= q[m].start /\ q[i].start \in Nat /\ q[m].start \in Nat
      BY <1>7, <1>8, <1>9, <3>1
    <3>3. QED BY <3>1, <3>2
  <2>2. QED BY <2>1
<1>13. \A i \in 1..Len(p) : p[i].start >= c.lastClose
  <2>1. ASSUME NEW i \in 1..Len(p) PROVE p[i].start >= c.lastClose
    <3>1. m + i \in 1..Len(q) /\ p[i] = q[m + i]
      BY <1>3, <1>10
    <3>2. CASE m = 0
      BY <1>6, <1>7, <3>1, <3>2
    <3>3. CASE m # 0
      <4>1. m \in 1..Len(q) /\ c.lastClose = q[m].start + Step /\ m < m + i
        BY <1>2, <1>3, <1>6, <3>3
      <4>2. /\ Aligned(q[m].start) /\ Aligned(q[m + i].start)
            /\ q[m].start < q[m + i].start
        BY <1>7, <3>1, <4>1
      <4>3. q[m].start + Step <= q[m + i].start
        BY <4>2, Spaced
      <4>4. QED BY <1>8, <3>1, <4>1, <4>3
    <3>4. QED BY <3>2, <3>3
  <2>2. QED BY <2>1
<1>14. /\ \A i \in 1..Len(p) : Aligned(p[i].start) /\ (p[i].partial => i = 1)
       /\ \A i, j \in 1..Len(p) : i < j => p[i].start < p[j].start
  <2>1. ASSUME NEW i \in 1..Len(p) PROVE Aligned(p[i].start) /\ (p[i].partial => i = 1)
    <3>1. m + i \in 1..Len(q) /\ p[i] = q[m + i] /\ (m + i = 1 => i = 1)
      BY <1>2, <1>3, <1>10
    <3>2. QED BY <1>7, <3>1
  <2>2. ASSUME NEW i \in 1..Len(p), NEW j \in 1..Len(p), i < j PROVE p[i].start < p[j].start
    <3>1. /\ m + i \in 1..Len(q) /\ p[i] = q[m + i]
          /\ m + j \in 1..Len(q) /\ p[j] = q[m + j] /\ m + i < m + j
      BY <1>2, <1>3, <1>10, <2>2
    <3>2. QED BY <1>7, <3>1
  <2>3. QED BY <2>1, <2>2
<1>15. Queued(c)
  BY <1>1, <1>4, <1>11, <1>13, <1>14 DEF Queued
<1>16. BeginsAt(c, g)
  <2>1. ASSUME NEW i \in 1..Len(p)
        PROVE  p[i].start + Step >= g /\ (p[i].partial <=> p[i].start < g)
    BY <1>3, <1>7, <1>10
  <2>2. ASSUME c.started, p = <<>> PROVE c.lastClose >= g
    <3>1. m = Len(q)
      BY <1>2, <1>3, <2>2
    <3>2. CASE m = 0
      <4>1. q = <<>> /\ a.started
        <5>1. a.started
          BY <1>5, <2>2
        <5>2. Len(q) = 0
          BY <3>1, <3>2
        <5>3. QED BY <1>2, <5>1, <5>2
      <4>2. QED BY <1>6, <1>7, <3>2, <4>1
    <3>3. CASE m # 0
      BY <1>2, <1>6, <1>7, <3>1, <3>3
    <3>4. QED BY <3>2, <3>3
  <2>3. QED BY <1>1, <2>1, <2>2 DEF BeginsAt
<1>17. ASSUME NEW i \in 1..m
       PROVE  /\ Aligned(out[i].start)
              /\ out[i].start >= a.lastClose /\ out[i].start < c.lastClose
              /\ out[i].partial => i = 1
              /\ out[i].partial <=> out[i].start < g
  BY <1>3, <1>7, <1>9, <1>12
<1>18. \A i, j \in 1..m : i < j => out[i].start < out[j].start
  BY <1>3, <1>7, <1>9
<1>19. Volume(out) + Volume(p) = Volume(q)
  <2>1. /\ out \o p \in Seq(Bars) /\ Len(out \o p) = m + Len(p)
        /\ \A i \in 1..m + Len(p) : (out \o p)[i] = IF i <= m THEN out[i] ELSE p[i - m]
    BY <1>1, <1>2, ConcatProperties
  <2>2. Len(q) = m + Len(p)
    BY <1>2, <1>3
  <2>3. ASSUME NEW i \in 1..Len(q) PROVE q[i] = (out \o p)[i]
    <3>1. CASE i <= m
      BY <1>2, <1>3, <2>1, <2>2, <3>1
    <3>2. CASE ~(i <= m)
      <4>1. i - m \in 1..Len(p) /\ m + (i - m) = i
        BY <1>2, <2>2, <3>2
      <4>2. QED BY <1>3, <2>1, <2>2, <3>2, <4>1
    <3>3. QED BY <3>1, <3>2
  <2>4. q = out \o p
    BY <1>2, <2>1, <2>2, <2>3, SeqEqual
  <2>5. QED BY <1>2, <2>4, VolumeConcat, BarsWeighed
<1>20. ASSUME NEW i \in 1..Len(q)
       PROVE  (\E j \in 1..m : out[j] = q[i]) \/ (\E j \in 1..Len(p) : p[j] = q[i])
  <2>1. CASE i <= m
    <3>1. i \in 1..m
      BY <1>2, <2>1
    <3>2. QED BY <1>3, <3>1
  <2>2. CASE ~(i <= m)
    <3>1. i - m \in 1..Len(p) /\ m + (i - m) = i
      BY <1>2, <1>3, <2>2
    <3>2. QED BY <1>3, <3>1
  <2>3. QED BY <2>1, <2>2
<1>21. QED BY <1>1, <1>11, <1>15, <1>16, <1>17, <1>18, <1>19, <1>20

-----------------------------------------------------------------------------
(* The part-seen bar is dropped *)

Dropped(out) == IF out # <<>> /\ out[1].partial THEN 1 ELSE 0

\* Only the first bar can be part-seen: the others are handed out as they are.
LEMMA HandedOutIs ==
  ASSUME NEW out \in Seq(Bars), \A i \in 1..Len(out) : out[i].partial => i = 1
  PROVE  /\ HandedOut(out) \in Seq(Bars)
         /\ Len(HandedOut(out)) = Len(out) - Dropped(out)
         /\ \A i \in 1..Len(HandedOut(out)) : HandedOut(out)[i] = out[Dropped(out) + i]
         /\ Dropped(out) \in {0, 1} /\ Dropped(out) <= Len(out)
         /\ \A i \in 1..Len(out) : out[i].partial <=> i = Dropped(out)
<1>1. PICK f, m : f = Dropped(out) /\ m = Len(out)
  OBVIOUS
<1>2. /\ m \in Nat /\ f \in {0, 1} /\ f <= m
      /\ \A i \in 1..m : out[i] \in Bars
  BY <1>1 DEF Dropped
<1>3. \A i \in 1..m : out[i].partial <=> i = f
  <2>1. ASSUME NEW i \in 1..m PROVE out[i].partial <=> i = f
    <3>1. out[i].partial \in BOOLEAN /\ out # <<>>
      BY <1>1, <1>2 DEF Bars
    <3>2. CASE i = 1
      BY <1>1, <3>1, <3>2 DEF Dropped
    <3>3. CASE i # 1
      BY <1>1, <1>2, <3>1, <3>3
    <3>4. QED BY <3>2, <3>3
  <2>2. QED BY <2>1
<1> DEFINE Whole(h) == h = [i \in 0..m |->
                              IF i = 0 THEN <<>>
                              ELSE IF out[i].partial THEN h[i - 1]
                              ELSE Append(h[i - 1], out[i])]
           part == [i \in 0..m |-> SubSeq(out, f + 1, i)]
<1>4. Whole(part)
  <2>1. ASSUME NEW i \in 0..m
        PROVE  part[i] = IF i = 0 THEN <<>>
                         ELSE IF out[i].partial THEN part[i - 1]
                         ELSE Append(part[i - 1], out[i])
    <3>1. CASE i = 0
      BY <1>2, <3>1
    <3>2. CASE i # 0 /\ out[i].partial
      <4>1. i = 1 /\ f = 1
        BY <1>2, <1>3, <3>2
      <4>2. SubSeq(out, 2, 1) = <<>> /\ SubSeq(out, 2, 0) = <<>>
        OBVIOUS
      <4>3. QED BY <1>2, <3>2, <4>1, <4>2
    <3>3. CASE i # 0 /\ ~out[i].partial
      <4>1. i \in 1..m /\ i # f /\ i >= f + 1 /\ i - 1 \in 0..m
        BY <1>2, <1>3, <3>3
      <4>2. part[i] = SubSeq(out, f + 1, i) /\ part[i - 1] = SubSeq(out, f + 1, i - 1)
        BY <4>1
      <4>3. SubSeq(out, f + 1, i) = Append(SubSeq(out, f + 1, i - 1), out[i])
        <5>1. PICK v, w : v = SubSeq(out, f + 1, i - 1) /\ w = SubSeq(out, f + 1, i)
          OBVIOUS
        <5>2. /\ v \in Seq(Bars) /\ Len(v) = i - 1 - f
              /\ \A k \in 1..(i - 1 - f) : v[k] = out[f + k]
          <6>1. CASE i - 1 = f
            <7>1. v = SubSeq(out, f + 1, f) /\ i - 1 - f = 0
              BY <1>2, <4>1, <5>1, <6>1
            <7>2. v = <<>>
              BY <1>2, <7>1
            <7>3. v \in Seq(Bars) /\ Len(v) = 0
              BY <7>2
            <7>4. \A k \in 1..(i - 1 - f) : v[k] = out[f + k]
              BY <7>1
            <7>5. QED BY <7>1, <7>3, <7>4
          <6>2. CASE i - 1 >= f + 1
            BY <1>1, <1>2, <4>1, <5>1, <6>2, SMTT(30)
          <6>3. QED BY <1>2, <4>1, <6>1, <6>2
        <5>3. /\ w \in Seq(Bars) /\ Len(w) = i - f
              /\ \A k \in 1..(i - f) : w[k] = out[f + k]
          BY <1>1, <1>2, <4>1, <5>1, SMTT(30)
        <5>4. out[i] \in Bars
          BY <1>2, <4>1
        <5>5. PICK x : x = Append(v, out[i])
          OBVIOUS
        <5>6. /\ x \in Seq(Bars) /\ Len(x) = i - f
              /\ \A k \in 1..(i - 1 - f) : x[k] = v[k]
              /\ x[i - f] = out[i]
          BY <1>2, <4>1, <5>2, <5>4, <5>5
        <5>7. ASSUME NEW k \in 1..(i - f) PROVE w[k] = x[k]
          <6>1. CASE k \in 1..(i - 1 - f)
            BY <5>2, <5>3, <5>6, <6>1
          <6>2. CASE k = i - f
            BY <1>2, <5>3, <5>6, <6>2
          <6>3. QED BY <1>2, <6>1, <6>2
        <5>8. w = x
          BY <5>3, <5>6, <5>7, SeqEqual
        <5>9. QED BY <5>1, <5>5, <5>8
      <4>4. QED BY <3>3, <4>2, <4>3
    <3>4. QED BY <3>1, <3>2, <3>3
  <2>2. part = [i \in 0..m |-> part[i]]
    OBVIOUS
  <2> HIDE DEF part
  <2>3. QED BY <2>1, <2>2
<1> HIDE DEF part
<1>5. PICK h : h = CHOOSE g : Whole(g)
  OBVIOUS
<1>6. Whole(h)
  <2> HIDE DEF Whole
  <2>1. QED BY <1>4, <1>5
<1>7. \A i \in 0..m : h[i] = part[i]
  <2> DEFINE Differ == {i \in 0..m : h[i] # part[i]}
  <2>1. SUFFICES ASSUME Differ # {} PROVE FALSE
    OBVIOUS
  <2>2. Differ \subseteq Nat
    BY <1>2
  <2>3. PICK n \in Differ : \A k \in Differ : n <= k
    <3> HIDE DEF Differ
    <3>1. QED BY <2>1, <2>2, LeastNat
  <2>4. n \in 0..m /\ h[n] # part[n]
    BY <2>3
  <2>5. /\ h[n] = IF n = 0 THEN <<>> ELSE IF out[n].partial THEN h[n - 1] ELSE Append(h[n - 1], out[n])
        /\ part[n] = IF n = 0 THEN <<>> ELSE IF out[n].partial THEN part[n - 1]
                                        ELSE Append(part[n - 1], out[n])
    <3>1. \A g : Whole(g) => g[n] = IF n = 0 THEN <<>> ELSE IF out[n].partial THEN g[n - 1]
                                                   ELSE Append(g[n - 1], out[n])
      BY <2>4
    <3> HIDE DEF Whole
    <3>2. QED BY <1>4, <1>6, <3>1
  <2>6. CASE n = 0
    BY <2>4, <2>5, <2>6
  <2>7. CASE n # 0
    <3>1. n - 1 \in 0..m /\ ~(n <= n - 1)
      BY <1>2, <2>4, <2>7
    <3>2. h[n - 1] = part[n - 1]
      <4>1. n - 1 \notin Differ
        BY <2>3, <3>1, Zenon
      <4>2. QED BY <3>1, <4>1
    <3>3. QED BY <2>4, <2>5, <3>2
  <2>8. QED BY <2>6, <2>7
<1>8. HandedOut(out) = SubSeq(out, f + 1, m)
  <2>1. HandedOut(out) = h[m]
    BY <1>1, <1>5, Zenon DEF HandedOut
  <2>2. m \in 0..m
    BY <1>2
  <2>3. QED BY <1>7, <2>1, <2>2 DEF part
<1>9. PICK r : r = HandedOut(out)
  OBVIOUS
<1>10. /\ r \in Seq(Bars) /\ Len(r) = m - f
       /\ \A i \in 1..Len(r) : r[i] = out[f + i]
  BY <1>1, <1>2, <1>8, <1>9, SMTT(30)
<1>11. QED BY <1>1, <1>2, <1>3, <1>9, <1>10

\* What is not handed out of the bars that leave is counted in unsent.
Parts(out) == [i \in DOMAIN out |-> IF out[i].partial THEN out[i].volume ELSE 0]

\* What is not handed out is what is partial.
LEMMA PartsVolume ==
  ASSUME NEW out \in Seq(Bars), \A i \in 1..Len(out) : out[i].partial => i = 1
  PROVE  /\ Total(Parts(out)) \in Int
         /\ Total(Parts(out)) + Volume(HandedOut(out)) = Volume(out)
<1>1. PICK f, m, r, v : f = Dropped(out) /\ m = Len(out) /\ r = HandedOut(out) /\ v = Parts(out)
  OBVIOUS
<1>2. /\ m \in Nat /\ f \in {0, 1} /\ f <= m
      /\ r \in Seq(Bars) /\ Len(r) = m - f
      /\ \A i \in 1..Len(r) : r[i] = out[f + i]
      /\ \A i \in 1..m : out[i].partial <=> i = f
  BY <1>1, HandedOutIs
<1>3. \A i \in 1..m : out[i] \in Bars /\ out[i].volume \in Nat
  <2>1. \A i \in 1..m : out[i] \in Bars
    BY <1>1
  <2>2. QED BY <2>1 DEF Bars
<1>4. /\ v \in Seq(Int) /\ Len(v) = m
      /\ \A i \in 1..m : v[i] = IF i = f THEN out[i].volume ELSE 0
  BY <1>1, <1>2, <1>3 DEF Parts
<1>5. CASE f = 0
  <2>1. Total(v) = 0
    BY <1>2, <1>4, <1>5, TotalZeros
  <2>2. r = out
    BY <1>1, <1>2, <1>5, SeqEqual
  <2>3. Volume(out) \in Nat
    BY VolumeTyped, BarsWeighed
  <2>4. QED BY <1>1, <2>1, <2>2, <2>3
<1>6. CASE f = 1
  <2>1. PICK b : b = out[1]
    OBVIOUS
  <2>2. 1 \in 1..m /\ b \in Bars /\ b.volume \in Nat
    BY <1>2, <1>3, <1>6, <2>1
  <2>3. Total(v) = b.volume
    <3>1. PICK z : z = [i \in 1..m |-> 0]
      OBVIOUS
    <3>2. z \in Seq(Int) /\ Len(z) = m /\ \A i \in 1..m : z[i] = 0
      BY <1>2, <3>1
    <3>3. Total(z) = 0
      BY <3>2, TotalZeros
    <3>4. PICK d : d = b.volume
      OBVIOUS
    <3>5. d \in Int /\ 1 \in 1..Len(z)
      BY <2>2, <3>2, <3>4
    <3>6. v = [z EXCEPT ![1] = @ + d]
      <4>1. z[1] + d = d
        BY <3>2, <3>5
      <4>2. /\ [z EXCEPT ![1] = d] \in Seq(Int) /\ Len([z EXCEPT ![1] = d]) = m
            /\ \A i \in 1..m : [z EXCEPT ![1] = d][i] = IF i = 1 THEN d ELSE z[i]
        BY <3>2, <3>5, ExceptSeq
      <4>3. \A i \in 1..m : v[i] = [z EXCEPT ![1] = d][i]
        BY <1>4, <1>6, <2>1, <3>2, <3>4, <4>2
      <4>4. v = [z EXCEPT ![1] = d]
        BY <1>4, <4>2, <4>3, SeqEqual
      <4>5. QED BY <4>1, <4>4
    <3>7. Total([z EXCEPT ![1] = @ + d]) = Total(z) + d
      BY <3>2, <3>5, TotalAdd
    <3>8. Total(v) = 0 + d
      BY ONLY <3>3, <3>6, <3>7
    <3>9. QED BY <3>4, <3>5, <3>8
  <2>4. PICK s : s = Append(<<>>, b)
    OBVIOUS
  <2>5. s \in Seq(Bars) /\ Len(s) = 1 /\ s[1] = b /\ Volume(s) = b.volume
    <3>1. <<>> \in Seq(Bars)
      OBVIOUS
    <3>2. Volume(<<>>) = 0
      BY <3>1, VolumeTyped, BarsWeighed
    <3>3. Volume(s) = Volume(<<>>) + b.volume
      BY <2>2, <2>4, <3>1, VolumeAppend, BarsWeighed
    <3>4. s \in Seq(Bars) /\ Len(s) = 1 /\ s[1] = b
      BY <2>2, <2>4
    <3>5. QED BY <2>2, <3>2, <3>3, <3>4
  <2>6. out = s \o r
    <3>1. /\ s \o r \in Seq(Bars) /\ Len(s \o r) = Len(s) + Len(r)
          /\ \A i \in 1..Len(s) + Len(r) : (s \o r)[i] = IF i <= Len(s) THEN s[i] ELSE r[i - Len(s)]
      <4>1. s \in Seq(Bars) /\ r \in Seq(Bars)
        BY <1>2, <2>5
      <4>2. QED BY ONLY <4>1, ConcatProperties
    <3>2. Len(s \o r) = m
      BY <1>2, <1>6, <2>5, <3>1
    <3>3. ASSUME NEW i \in 1..m PROVE out[i] = (s \o r)[i]
      <4>1. CASE i = 1
        BY <1>2, <1>6, <2>1, <2>5, <3>1, <4>1
      <4>2. CASE i # 1
        <5>1. i - 1 \in 1..Len(r) /\ 1 + (i - 1) = i /\ ~(i <= 1)
          BY <1>2, <1>6, <4>2
        <5>2. QED BY <1>2, <1>6, <2>5, <3>1, <3>2, <5>1, SMTT(30)
      <4>3. QED BY <4>1, <4>2
    <3>4. QED BY <1>1, <3>1, <3>2, <3>3, SeqEqual
  <2>7. Volume(out) = b.volume + Volume(r)
    BY <1>2, <2>5, <2>6, VolumeConcat, BarsWeighed
  <2>8. QED BY <1>1, <2>2, <2>3, <2>7
<1>7. QED BY <1>2, <1>5, <1>6

\* Bars as they are sent.
AsSent(bars) == [i \in DOMAIN bars |-> Bar(bars[i].start, "stream", bars[i].volume)]

\* The bars as they are sent have their starts and their volume.
LEMMA AsSentIs ==
  ASSUME NEW bars \in Seq(Bars)
  PROVE  /\ AsSent(bars) \in Seq(SentBars) /\ Len(AsSent(bars)) = Len(bars)
         /\ \A i \in 1..Len(bars) : AsSent(bars)[i].start = bars[i].start
         /\ Volume(AsSent(bars)) = Volume(bars)
<1>1. Len(bars) \in Nat /\ \A i \in 1..Len(bars) : bars[i] \in Bars
  OBVIOUS
<1>2. ASSUME NEW b \in Bars
      PROVE  /\ Bar(b.start, "stream", b.volume) \in SentBars
             /\ Bar(b.start, "stream", b.volume).start = b.start
             /\ Bar(b.start, "stream", b.volume).volume = b.volume
  BY DEF Bars, SentBars, Bar
<1>3. PICK s : s = AsSent(bars)
  OBVIOUS
<1>4. \A i \in 1..Len(bars) : s[i] = Bar(bars[i].start, "stream", bars[i].volume)
  BY <1>1, <1>3 DEF AsSent
<1>5. s \in Seq(SentBars) /\ Len(s) = Len(bars)
  <2>1. \A i \in 1..Len(bars) : Bar(bars[i].start, "stream", bars[i].volume) \in SentBars
    BY <1>1, <1>2
  <2>2. s = [i \in 1..Len(bars) |-> Bar(bars[i].start, "stream", bars[i].volume)]
    BY <1>3 DEF AsSent
  <2>3. QED BY <1>1, <2>1, <2>2
<1>6. \A i \in 1..Len(bars) : s[i].start = bars[i].start /\ s[i].volume = bars[i].volume
  BY <1>1, <1>2, <1>4
<1>7. Volume(s) = Volume(bars)
  <2>1. /\ Volumes(s) \in Seq(Int) /\ Volumes(bars) \in Seq(Int)
        /\ Volume(s) = Total(Volumes(s)) /\ Volume(bars) = Total(Volumes(bars))
    BY <1>5, VolumeTyped, BarsWeighed
  <2>2. /\ Len(Volumes(s)) = Len(bars) /\ Len(Volumes(bars)) = Len(bars)
        /\ \A i \in 1..Len(bars) : Volumes(s)[i] = Volumes(bars)[i]
    BY <1>5, <1>6, VolumesAre
  <2>3. Volumes(s) = Volumes(bars)
    BY <2>1, <2>2, SeqEqual
  <2>4. QED BY <2>1, <2>3
<1>8. QED BY <1>3, <1>5, <1>6, <1>7

InOrder(s) == \A i \in 1..Len(s) - 1 : s[i].start < s[i + 1].start

\* Bars in order, followed by later ones in order.
LEMMA OrderedConcat ==
  ASSUME NEW s \in Seq(SentBars), NEW t \in Seq(SentBars), InOrder(s), InOrder(t),
         \A i \in 1..Len(s) : \A j \in 1..Len(t) : s[i].start < t[j].start
  PROVE  InOrder(s \o t)
<1>1. PICK m, n : m = Len(s) /\ n = Len(t)
  OBVIOUS
<1>2. /\ m \in Nat /\ n \in Nat /\ Len(s \o t) = m + n
      /\ \A i \in 1..m + n : (s \o t)[i] = IF i <= m THEN s[i] ELSE t[i - m]
  BY <1>1, ConcatProperties
<1>3. ASSUME NEW i \in 1..m + n - 1
      PROVE  (s \o t)[i].start < (s \o t)[i + 1].start
  <2>1. CASE i + 1 <= m
    <3>1. (s \o t)[i] = s[i] /\ (s \o t)[i + 1] = s[i + 1] /\ i \in 1..m - 1
      <4>1. /\ i \in 1..m + n /\ i + 1 \in 1..m + n
            /\ i <= m /\ i \in 1..m - 1
        BY <1>2, <2>1
      <4>2. QED BY <1>2, <2>1, <4>1
    <3>2. QED BY <1>1, <3>1 DEF InOrder
  <2>2. CASE i = m
    <3>1. /\ (s \o t)[i] = s[i] /\ (s \o t)[i + 1] = t[1]
          /\ i \in 1..Len(s) /\ 1 \in 1..Len(t)
      BY <1>1, <1>2, <2>2
    <3>2. QED BY <3>1
  <2>3. CASE i > m
    <3>1. /\ (s \o t)[i] = t[i - m] /\ (s \o t)[i + 1] = t[i - m + 1]
          /\ i - m \in 1..n - 1
      <4>1. /\ i \in 1..m + n /\ i + 1 \in 1..m + n
            /\ ~(i <= m) /\ ~(i + 1 <= m) /\ i - m \in 1..n - 1 /\ i + 1 - m = i - m + 1
        BY <1>2, <2>3
      <4>2. (s \o t)[i] = t[i - m]
        BY <1>2, <4>1
      <4>3. (s \o t)[i + 1] = t[i + 1 - m]
        BY <1>2, <4>1
      <4>4. QED BY <4>1, <4>2, <4>3
    <3>2. QED BY <1>1, <3>1 DEF InOrder
  <2>4. QED BY <1>2, <2>1, <2>2, <2>3
<1>4. QED BY <1>2, <1>3 DEF InOrder

\* The open bars' volume as the property counts it.
LEMMA OpensVolume ==
  ASSUME NEW a \in Aggregators
  PROVE  /\ Volume(Opens(a)) = Volume(a.closing) + a.current.volume
         /\ Volume(Opens(a)) \in Nat /\ Volume(a.closing) \in Nat /\ a.current.volume \in Nat
<1>1. a.closing \in Seq(Bars) /\ a.current \in Bars \cup {NoBar} /\ Opens(a) \in Seq(Bars)
  BY OpensTyped DEF Aggregators
<1>2. Volume(a.closing) \in Nat /\ Volume(Opens(a)) \in Nat
  BY <1>1, VolumeTyped, BarsWeighed
<1>3. CASE a.current = NoBar
  BY <1>2, <1>3 DEF Opens, NoBar
<1>4. CASE a.current # NoBar
  <2>1. a.current \in Bars /\ Opens(a) = Append(a.closing, a.current)
    BY <1>1, <1>4 DEF Opens
  <2>2. a.current.volume \in Nat
    BY <2>1 DEF Bars
  <2>3. QED BY <1>1, <1>2, <2>1, <2>2, VolumeAppend, BarsWeighed
<1>5. QED BY <1>3, <1>4

-----------------------------------------------------------------------------
(* The stream's part of a step keeps the invariant *)

\* `publish` hands on what is whole and counts what is not; it gives up the handover that it overtakes.
LEMMA PublishDoes ==
  ASSUME NEW out, Publish(out)
  PROVE  /\ sent' = sent \o AsSent(HandedOut(out))
         /\ unsent' = unsent + Total(Parts(out))
         /\ gap' = gap /\ fetcher' = fetcher
         /\ IF HandedOut(out) # <<>> /\ held
            THEN held' = FALSE /\ handover' = IF handover = "Pending" THEN "Abandoned" ELSE handover
            ELSE held' = held /\ handover' = handover
<1>1. /\ sent' = sent \o AsSent(HandedOut(out))
      /\ unsent' = unsent + Total(Parts(out))
  BY Zenon DEF Publish, AsSent, Parts
<1>2. CASE HandedOut(out) # <<>> /\ held
  BY <1>1, <1>2, Zenon DEF Publish
<1>3. CASE ~(HandedOut(out) # <<>> /\ held)
  <2>1. UNCHANGED <<held, taskVars>>
    BY <1>3, Zenon DEF Publish
  <2>2. QED BY <1>1, <1>3, <2>1 DEF taskVars
<1>4. QED BY <1>2, <1>3

\* a is the aggregator before bars are closed: the clock event's is agg, a packet's
\* is agg with the packet's trade.
Prepared(a) ==
  /\ a \in Aggregators /\ a.gap = NoGap
  /\ Queued(a) /\ BeginsAt(a, GapEnd) /\ Untouched(a)
  /\ a.lastClose = agg.lastClose /\ a.started = agg.started
  /\ ~fault /\ a.started =>
       a.lastVolume = unsent + Volume(sent) + Volume(Opens(a)) + a.carry
TellsOf(a, t) ==
  /\ t \subseteq Nat /\ (~a.started => t = {})
  /\ \A p \in t :
       /\ Aligned(p)
       /\ \/ p < GapEnd
          \/ \E i \in 1..Len(Opens(a)) : Opens(a)[i].start = p
          \/ \E i \in 1..Len(sent) : sent[i].start = p

\* The end of the gap is a time, or zero.
LEMMA GapEndTyped ==
  ASSUME gap \in {NoGap} \cup (Nat \X Nat)
  PROVE  GapEnd \in Nat
BY DEF GapEnd

\* Closing the ripe bars and publishing them keeps what the client has.
LEMMA StreamFits ==
  ASSUME Typed, BarsFit, NEW a, Prepared(a), TellsOf(a, told'),
         agg' = Closed(a, Ripe(a, clock)), Publish(Ripe(a, clock)),
         UNCHANGED <<clock, market, fault>>
  PROVE  /\ agg' \in Aggregators /\ agg'.gap = NoGap /\ sent' \in Seq(SentBars) /\ unsent' \in Int
         /\ gap' = gap /\ fetcher' = fetcher /\ held' \in BOOLEAN
         /\ handover' \in {"none", "Pending", "Done", "Abandoned"}
         /\ BarsFit'
<1>1. PICK out : out = Ripe(a, clock)
  OBVIOUS
<1>2. PICK c : c = agg'
  OBVIOUS
<1>3. /\ clock \in Nat /\ a \in Aggregators /\ agg \in Aggregators
      /\ sent \in Seq(SentBars) /\ unsent \in Int
      /\ gap \in {NoGap} \cup (Nat \X Nat)
  BY DEF Typed, Prepared
<1>4. PICK g \in Nat : g = GapEnd
  BY <1>3, GapEndTyped
<1>5. c \in Aggregators /\ Leaves(a, c, out, clock) /\ out \in Seq(Bars)
  <2>1. Queued(a)
    BY DEF Prepared
  <2>2. QED BY <1>1, <1>2, <1>3, <2>1, ClosedLeaves, RipeIs
<1>6. /\ Queued(c) /\ BeginsAt(c, g) /\ c.lastClose >= a.lastClose
      /\ \A i \in 1..Len(out) :
              /\ Aligned(out[i].start)
              /\ out[i].start >= a.lastClose /\ out[i].start < c.lastClose
              /\ out[i].partial => i = 1
              /\ out[i].partial <=> out[i].start < g
      /\ \A i, j \in 1..Len(out) : i < j => out[i].start < out[j].start
      /\ Volume(out) + Volume(Opens(c)) = Volume(Opens(a))
      /\ \A i \in 1..Len(Opens(a)) :
              \/ \E j \in 1..Len(out) : out[j] = Opens(a)[i]
              \/ \E j \in 1..Len(Opens(c)) : Opens(c)[j] = Opens(a)[i]
  <2>1. Queued(a) /\ BeginsAt(a, g)
    BY <1>4 DEF Prepared
  <2>2. QED BY <1>3, <1>5, <2>1, LeavesFits
<1>7. PICK bars, new : bars = HandedOut(out) /\ new = AsSent(bars)
  OBVIOUS
<1>8. PICK f : f = Dropped(out)
  OBVIOUS
<1>9. /\ bars \in Seq(Bars) /\ Len(bars) = Len(out) - f
      /\ \A i \in 1..Len(bars) : bars[i] = out[f + i]
      /\ f \in {0, 1} /\ f <= Len(out) /\ Len(out) \in Nat
      /\ \A i \in 1..Len(out) : out[i].partial <=> i = f
  <2>1. \A i \in 1..Len(out) : out[i].partial => i = 1
    BY <1>6
  <2>2. QED BY <1>5, <1>7, <1>8, <2>1, HandedOutIs
<1>10. /\ new \in Seq(SentBars) /\ Len(new) = Len(bars) /\ Len(bars) \in Nat
       /\ \A i \in 1..Len(bars) : new[i].start = bars[i].start
       /\ Volume(new) = Volume(bars)
  BY <1>7, <1>9, AsSentIs
<1>11. /\ sent' = sent \o new /\ unsent' = unsent + Total(Parts(out))
       /\ gap' = gap /\ fetcher' = fetcher
       /\ bars # <<>> /\ held =>
            held' = FALSE /\ handover' = IF handover = "Pending" THEN "Abandoned" ELSE handover
       /\ ~(bars # <<>> /\ held) => held' = held /\ handover' = handover
  <2>1. Publish(out)
    BY <1>1
  <2>2. QED BY <1>7, <2>1, PublishDoes
<1>12. /\ Total(Parts(out)) \in Int /\ Total(Parts(out)) + Volume(bars) = Volume(out)
  BY <1>5, <1>6, <1>7, PartsVolume
<1>13. \A i \in 1..Len(new) :
         /\ new[i].start >= a.lastClose /\ new[i].start < c.lastClose /\ ~(new[i].start < g)
         /\ f + i \in 1..Len(out) /\ new[i].start = out[f + i].start
  <2>1. ASSUME NEW i \in 1..Len(new)
        PROVE  /\ new[i].start >= a.lastClose /\ new[i].start < c.lastClose /\ ~(new[i].start < g)
               /\ f + i \in 1..Len(out) /\ new[i].start = out[f + i].start
    <3>1. f + i \in 1..Len(out) /\ f + i # f /\ i \in 1..Len(bars)
      BY <1>9, <1>10
    <3>2. new[i].start = out[f + i].start
      BY <1>9, <1>10, <3>1
    <3>3. ~out[f + i].partial
      BY <1>9, <3>1
    <3>4. QED BY <1>6, <3>1, <3>2, <3>3
  <2>2. QED BY <2>1
<1>14. /\ c.started = a.started /\ c.lastVolume = a.lastVolume /\ c.carry = a.carry
       /\ a.started = agg.started /\ a.lastClose = agg.lastClose
  BY <1>5 DEF Leaves, Prepared
<1>15. /\ sent' \in Seq(SentBars) /\ Len(sent') = Len(sent) + Len(new)
       /\ Len(sent) \in Nat
       /\ \A i \in 1..Len(sent) + Len(new) :
            sent'[i] = IF i <= Len(sent) THEN sent[i] ELSE new[i - Len(sent)]
  <2>1. sent \in Seq(SentBars) /\ new \in Seq(SentBars)
    BY <1>3, <1>10
  <2>2. /\ sent \o new \in Seq(SentBars) /\ Len(sent \o new) = Len(sent) + Len(new)
        /\ \A i \in 1..Len(sent) + Len(new) :
             (sent \o new)[i] = IF i <= Len(sent) THEN sent[i] ELSE new[i - Len(sent)]
    BY ONLY <2>1, ConcatProperties
  <2>3. QED BY <1>11, <2>1, <2>2
<1>16. /\ \A i \in 1..Len(sent) : i \in 1..Len(sent') /\ sent'[i] = sent[i]
       /\ \A i \in 1..Len(new) : Len(sent) + i \in 1..Len(sent') /\ sent'[Len(sent) + i] = new[i]
       /\ \A i \in 1..Len(sent') :
            i \in 1..Len(sent) \/ \E k \in 1..Len(new) : i = Len(sent) + k
  <2>1. PICK m, n \in Nat : m = Len(sent) /\ n = Len(new)
    BY <1>10, <1>15
  <2>2. /\ \A i \in 1..m : i \in 1..(m + n) /\ i <= m
        /\ \A i \in 1..n : m + i \in 1..(m + n) /\ ~(m + i <= m) /\ m + i - m = i
    BY <2>1
  <2>3. ASSUME NEW i \in 1..(m + n) PROVE i \in 1..m \/ \E k \in 1..n : i = m + k
    <3>1. i > m => i - m \in 1..n /\ i = m + (i - m)
      BY <2>1
    <3>2. QED BY <3>1
  <2>4. /\ Len(sent') = m + n
        /\ \A i \in 1..(m + n) : sent'[i] = IF i <= m THEN sent[i] ELSE new[i - m]
    BY <1>15, <2>1
  <2>5. /\ \A i \in 1..m : i \in 1..Len(sent') /\ sent'[i] = sent[i]
        /\ \A i \in 1..n : m + i \in 1..Len(sent') /\ sent'[m + i] = new[i]
        /\ \A i \in 1..Len(sent') : i \in 1..m \/ \E k \in 1..n : i = m + k
    <3>1. \A i \in 1..m : i \in 1..Len(sent') /\ sent'[i] = sent[i]
      BY <2>2, <2>4
    <3>2. ASSUME NEW i \in 1..n PROVE m + i \in 1..Len(sent') /\ sent'[m + i] = new[i]
      BY <2>2, <2>4
    <3>3. \A i \in 1..Len(sent') : i \in 1..m \/ \E k \in 1..n : i = m + k
      BY <2>3, <2>4
    <3>4. QED BY <3>1, <3>2, <3>3
  <2>6. QED BY <2>1, <2>5
<1>17. /\ GapIsKnown /\ SentIsPast /\ BarsInOrder /\ NothingYet /\ ToldIsKept
       /\ BackfillIsWhole
  BY DEF BarsFit
<1>18. GapEnd' = g
  BY <1>4, <1>11 DEF GapEnd
<1>19. ~a.started => out = <<>> /\ bars = <<>> /\ sent' = sent /\ Len(new) = 0
  <2>1. ASSUME ~a.started PROVE out = <<>> /\ bars = <<>> /\ sent' = sent /\ Len(new) = 0
    <3>1. Len(Opens(a)) = 0
      BY <2>1 DEF Prepared, Untouched
    <3>2. Len(out) <= 0
      BY <1>5, <3>1 DEF Leaves
    <3>3. Len(out) = 0 /\ Len(bars) = 0 /\ Len(new) = 0
      BY <1>9, <1>10, <3>2
    <3>4. sent' = sent
      BY <1>3, <1>15, <1>16, <3>3, SeqEqual
    <3>5. QED BY <1>5, <1>9, <3>3, <3>4
  <2>2. QED BY <2>1
<1>20. handover' = "Pending" => handover = "Pending" /\ bars = <<>> /\ held' = held /\ held
  BY <1>11, <1>17 DEF GapIsKnown
<1>21. bars = <<>> => Len(new) = 0
  BY <1>10
<1>22. Untouched(agg)' /\ Untouched(c)
  <2>1. ASSUME ~c.started PROVE Opens(c) = <<>> /\ c.lastClose = 0 /\ c.carry = 0
    <3>1. /\ Opens(a) = <<>> /\ a.lastClose = 0 /\ a.carry = 0 /\ out = <<>>
      BY <1>14, <1>19, <2>1 DEF Prepared, Untouched
    <3>2. Len(Opens(c)) = 0 /\ Opens(c) \in Seq(Bars) /\ c.lastClose = a.lastClose
      BY <1>5, <3>1, OpensTyped DEF Leaves
    <3>3. QED BY <1>14, <3>1, <3>2
  <2>2. QED BY <1>2, <2>1 DEF Untouched
<1>23. GapIsKnown'
  <2>1. handover = "none" <=> handover' = "none"
    BY <1>11
  <2>2. handover' = "Pending" => held'
    BY <1>20
  <2>3. agg'.started = agg.started
    BY <1>2, <1>14
  <2>4. QED BY <1>11, <1>17, <2>1, <2>2, <2>3 DEF GapIsKnown
<1>24. SentIsPast'
  <2>1. \A i \in 1..Len(sent') : sent'[i].start < c.lastClose \/ sent'[i].start < g
    <3>1. \A i \in 1..Len(sent) : sent[i].start < c.lastClose \/ sent[i].start < g
      <4>1. \A i \in 1..Len(sent) : sent[i] \in SentBars
        BY <1>3
      <4>2. \A i \in 1..Len(sent) : sent[i].start \in Int
        BY <4>1 DEF SentBars
      <4>3. a.lastClose \in Nat /\ c.lastClose \in Nat
        BY <1>3, <1>5 DEF Aggregators
      <4>4. QED BY <1>4, <1>6, <1>14, <1>17, <4>2, <4>3 DEF SentIsPast
    <3>2. ASSUME NEW i \in 1..Len(sent')
          PROVE  sent'[i].start < c.lastClose \/ sent'[i].start < g
      <4>1. CASE i \in 1..Len(sent)
        BY <1>16, <3>1, <4>1
      <4>2. ASSUME NEW k \in 1..Len(new), i = Len(sent) + k
            PROVE  sent'[i].start < c.lastClose
        <5>1. sent'[i] = new[k]
          BY <1>16, <4>2
        <5>2. QED BY <1>13, <5>1
      <4>3. QED BY <1>16, <4>1, <4>2
    <3>3. QED BY <3>2
  <2>2. handover' = "Pending" \/ ~c.started => \A i \in 1..Len(sent') : sent'[i].start < 0
    <3>1. ASSUME handover' = "Pending" \/ ~c.started
          PROVE  Len(new) = 0 /\ (handover = "Pending" \/ ~agg.started)
      BY <1>14, <1>19, <1>20, <1>21, <3>1
    <3>2. ASSUME handover' = "Pending" \/ ~c.started, NEW i \in 1..Len(sent')
          PROVE  sent'[i].start < 0
      <4>1. i \in 1..Len(sent)
        BY <1>16, <3>1, <3>2
      <4>2. QED BY <1>16, <1>17, <3>1, <3>2, <4>1 DEF SentIsPast
    <3>3. QED BY <3>2
  <2>3. QED BY <1>2, <1>18, <2>1, <2>2 DEF SentIsPast
<1>25. BarsInOrder'
  <2>1. InOrder(sent)
    BY <1>17 DEF BarsInOrder, InOrder
  <2>2. InOrder(new)
    <3>1. ASSUME NEW i \in 1..Len(new) - 1 PROVE new[i].start < new[i + 1].start
      <4>1. i \in 1..Len(new) /\ i + 1 \in 1..Len(new) /\ f + i < f + (i + 1)
        BY <1>9, <1>10
      <4>2. /\ f + i \in 1..Len(out) /\ new[i].start = out[f + i].start
            /\ f + (i + 1) \in 1..Len(out) /\ new[i + 1].start = out[f + (i + 1)].start
        BY <1>13, <4>1
      <4>3. out[f + i].start < out[f + (i + 1)].start
        BY <1>6, <4>1, <4>2
      <4>4. QED BY <4>2, <4>3
    <3>2. QED BY <3>1 DEF InOrder
  <2>3. ASSUME NEW i \in 1..Len(sent), NEW j \in 1..Len(new)
        PROVE  sent[i].start < new[j].start
    <3>1. sent[i] \in SentBars /\ out[f + j] \in Bars
      BY <1>3, <1>5, <1>13
    <3>2. sent[i].start \in Int /\ new[j].start \in Nat /\ a.lastClose \in Nat
      BY <1>3, <1>13, <3>1 DEF SentBars, Bars, Aggregators
    <3>3. sent[i].start < a.lastClose \/ sent[i].start < g
      BY <1>4, <1>14, <1>17 DEF SentIsPast
    <3>4. new[j].start >= a.lastClose /\ ~(new[j].start < g)
      BY <1>13
    <3>5. QED BY <1>4, <3>2, <3>3, <3>4
  <2>4. InOrder(sent \o new)
    BY <1>3, <1>10, <2>1, <2>2, <2>3, OrderedConcat
  <2>5. QED BY <1>11, <2>4 DEF BarsInOrder, InOrder
<1>26. NothingYet'
  <2>1. ASSUME ~c.started PROVE Volume(sent)' = 0 /\ told' = {}
    <3>1. Volume(sent) = 0 /\ sent' = sent /\ told' = {}
      BY <1>14, <1>17, <1>19, <2>1 DEF NothingYet, TellsOf
    <3>2. Volume(sent)' = Volume(sent')
      OBVIOUS
    <3>3. QED BY <3>1, <3>2
  <2>2. QED BY <1>2, <2>1 DEF NothingYet
<1>27. VolumeConserved'
  <2>1. SUFFICES ASSUME ~fault', agg'.started
                 PROVE  agg'.lastVolume = unsent' + Volume(sent') + Volume(agg'.closing)
                                            + agg'.current.volume + agg'.carry
    BY DEF VolumeConserved
  <2>2. a.lastVolume = unsent + Volume(sent) + Volume(Opens(a)) + a.carry
    BY <1>2, <1>14, <2>1 DEF Prepared
  <2>3. Volume(sent') = Volume(sent) + Volume(bars)
    BY <1>3, <1>10, <1>11, VolumeConcat, BarsWeighed
  <2>4. /\ Volume(Opens(c)) = Volume(c.closing) + c.current.volume
        /\ Volume(c.closing) \in Nat /\ c.current.volume \in Nat
    BY <1>5, OpensVolume
  <2>5. /\ Volume(sent) \in Nat /\ Volume(bars) \in Nat /\ Volume(out) \in Nat
        /\ Volume(Opens(a)) \in Nat /\ Volume(Opens(c)) \in Nat
    BY <1>3, <1>5, <1>9, VolumeTyped, BarsWeighed, OpensVolume
  <2>6. a.carry \in Nat
    BY <1>3 DEF Aggregators
  <2>7. c.lastVolume = unsent' + Volume(sent') + Volume(c.closing) + c.current.volume + c.carry
    <3>1. PICK vs, vb, vo, va, vc, vq, vk \in Nat, vp, u \in Int :
            /\ vs = Volume(sent) /\ vb = Volume(bars) /\ vo = Volume(out)
            /\ va = Volume(Opens(a)) /\ vc = Volume(Opens(c))
            /\ vq = Volume(c.closing) /\ vk = c.current.volume
            /\ vp = Total(Parts(out)) /\ u = unsent
      BY <1>3, <1>12, <2>4, <2>5
    <3>2. /\ vp + vb = vo /\ vo + vc = va /\ vc = vq + vk
          /\ a.lastVolume = u + vs + va + a.carry
          /\ Volume(sent') = vs + vb /\ unsent' = u + vp
      BY <1>6, <1>11, <1>12, <2>2, <2>3, <2>4, <3>1
    <3>3. u + vs + va + a.carry = (u + vp) + (vs + vb) + vq + vk + a.carry
      BY <2>6, <3>1, <3>2
    <3>4. QED BY <1>14, <3>1, <3>2, <3>3
  <2>8. QED BY <1>2, <2>7
<1>28. ToldIsKept'
  <2>1. ASSUME NEW p \in told'
        PROVE  /\ Aligned(p)
               /\ \/ p < g
                  \/ \E i \in 1..Len(Opens(c)) : Opens(c)[i].start = p
                  \/ \E i \in 1..Len(sent') : sent'[i].start = p
    <3>1. /\ Aligned(p)
          /\ \/ p < g
             \/ \E i \in 1..Len(Opens(a)) : Opens(a)[i].start = p
             \/ \E i \in 1..Len(sent) : sent[i].start = p
      BY <1>4 DEF TellsOf
    <3>2. CASE \E i \in 1..Len(sent) : sent[i].start = p
      BY <1>16, <3>1, <3>2
    <3>3. CASE \E i \in 1..Len(Opens(a)) : Opens(a)[i].start = p
      <4>1. PICK i \in 1..Len(Opens(a)) : Opens(a)[i].start = p
        BY <3>3
      <4>2. CASE \E j \in 1..Len(out) : out[j] = Opens(a)[i]
        <5>1. PICK j \in 1..Len(out) : out[j].start = p
          BY <4>1, <4>2
        <5>2. CASE out[j].partial
          BY <1>6, <3>1, <5>1, <5>2
        <5>3. CASE ~out[j].partial
          <6>1. j # f
            BY <1>9, <5>3
          <6>2. j > f
            BY <1>9, <6>1
          <6>3. j - f \in 1..Len(new) /\ f + (j - f) = j
            BY <1>9, <1>10, <6>2
          <6>4. new[j - f].start = p
            BY <1>13, <5>1, <6>3
          <6>5. QED BY <1>16, <3>1, <6>3, <6>4
        <5>4. QED BY <5>2, <5>3
      <4>3. CASE \E j \in 1..Len(Opens(c)) : Opens(c)[j] = Opens(a)[i]
        BY <3>1, <4>1, <4>3
      <4>4. QED BY <1>6, <4>2, <4>3
    <3>4. QED BY <3>1, <3>2, <3>3
  <2>2. QED BY <1>2, <1>18, <2>1 DEF ToldIsKept
<1>29. BackfillIsWhole'
  <2>1. handover' = "Done" => handover = "Done"
    BY <1>11
  <2>2. market' = market
    OBVIOUS
  <2>3. handover' = "Done" =>
          \A p \in 0..(g - 1) : Aligned(p) => \E i \in 1..Len(sent') : sent'[i].start = p
    BY <1>4, <1>16, <1>17, <2>1 DEF BackfillIsWhole
  <2>4. QED BY <1>17, <1>18, <2>2, <2>3 DEF BackfillIsWhole
<1>30. NotOverdue'
  <2>1. \A i \in 1..Len(Opens(c)) : clock < Due(Opens(c)[i])
    BY <1>5 DEF Leaves
  <2>2. \A i \in 1..Len(Opens(c)) : clock <= Due(Opens(c)[i])
    <3>1. Opens(c) \in Seq(Bars)
      BY <1>5, OpensTyped
    <3>2. \A i \in 1..Len(Opens(c)) : Opens(c)[i] \in Bars
      BY <3>1
    <3>3. \A i \in 1..Len(Opens(c)) : Due(Opens(c)[i]) \in Int
      BY <3>2 DEF Bars, Due
    <3>4. QED BY <1>3, <2>1, <3>3
  <2>3. clock' = clock
    OBVIOUS
  <2>4. QED BY <1>2, <2>1, <2>2, <2>3 DEF NotOverdue
<1>31. Queued(agg)' /\ BeginsAt(agg, GapEnd)'
  BY <1>2, <1>6, <1>18
<1>32. BarsFit'
  BY <1>22, <1>23, <1>24, <1>25, <1>26, <1>27, <1>28, <1>29, <1>30, <1>31 DEF BarsFit
<1>33. unsent' \in Int
  BY <1>3, <1>11, <1>12
<1>34. held' \in BOOLEAN /\ handover' \in {"none", "Pending", "Done", "Abandoned"}
  <2>1. held \in BOOLEAN /\ handover \in {"none", "Pending", "Done", "Abandoned"}
    BY DEF Typed
  <2>2. CASE bars # <<>> /\ held
    <3>1. held' = FALSE /\ handover' = IF handover = "Pending" THEN "Abandoned" ELSE handover
      BY <1>11, <2>2
    <3>2. QED BY <2>1, <3>1, Zenon
  <2>3. CASE ~(bars # <<>> /\ held)
    BY <1>11, <2>1, <2>3, Zenon
  <2>4. QED BY <2>2, <2>3
<1>35. c.gap = NoGap
  BY <1>5 DEF Leaves, Prepared
<1>36. QED BY <1>2, <1>5, <1>11, <1>35, <1>15, <1>32, <1>33, <1>34

-----------------------------------------------------------------------------
(* A packet that is taken *)

\* What a packet leaves behind besides its trade.
Noted(a, p, g) ==
  LET b == [a EXCEPT !.generation = g, !.lastVolume = p.volume, !.lastTs = p.ts] IN
  [b EXCEPT !.lastTrade = IF p.trade > @ THEN p.trade ELSE @]

\* Noting the last trade changes none of the bars.
LEMMA NotedIs ==
  ASSUME NEW a \in Aggregators, NEW p \in Packets, NEW g \in Nat
  PROVE  /\ Noted(a, p, g) \in Aggregators
         /\ Noted(a, p, g).closing = a.closing /\ Noted(a, p, g).current = a.current
         /\ Noted(a, p, g).lastClose = a.lastClose /\ Noted(a, p, g).started = a.started
         /\ Noted(a, p, g).carry = a.carry /\ Noted(a, p, g).late = a.late
         /\ Noted(a, p, g).gap = a.gap /\ Noted(a, p, g).lastVolume = p.volume
         /\ Opens(Noted(a, p, g)) = Opens(a)
<1>1. PICK v, t, l \in Int : v = p.volume /\ t = p.ts /\ l = IF p.trade > a.lastTrade THEN p.trade ELSE a.lastTrade
  <2>1. p.volume \in Int /\ p.ts \in Int /\ p.trade \in Int /\ a.lastTrade \in Int
    BY DEF Packets, Aggregators
  <2>2. QED BY <2>1
<1>2. PICK c : c = Noted(a, p, g)
  OBVIOUS
<1>3. c = [a EXCEPT !.generation = g, !.lastVolume = v, !.lastTs = t, !.lastTrade = l]
  BY <1>1, <1>2 DEF Noted, Aggregators
<1>4. c \in Aggregators
  BY <1>1, <1>3, Zenon DEF Aggregators
<1>5. /\ c.closing = a.closing /\ c.current = a.current
      /\ c.lastClose = a.lastClose /\ c.started = a.started
      /\ c.carry = a.carry /\ c.late = a.late
      /\ c.gap = a.gap /\ c.lastVolume = v
  BY <1>3 DEF Aggregators
<1>6. Opens(c) = Opens(a)
  BY <1>5, Zenon DEF Opens
<1>7. QED BY <1>1, <1>2, <1>4, <1>5, <1>6

\* A packet has times and a volume of the day.
LEMMA PacketTyped ==
  ASSUME NEW p \in Packets
  PROVE  /\ p.ts \in Nat /\ p.trade \in Nat /\ p.volume \in Nat
         /\ p.volume \in 0..MaxTrades
BY DEF Packets

Told(a, p) ==
  IF agg.started /\ IsNewTrade(agg, p) /\ ~(a.late > agg.late)
  THEN told \cup {Bucket(p.trade)} ELSE told

\* A later packet's trade finds its bar or is carried.
LEMMA ObservedIs ==
  ASSUME Typed, BarsFit, agg.started, NEW p \in Packets, Acceptable(agg, p, clock, gen)
  PROVE  /\ Prepared(Observed(agg, p, gen))
         /\ TellsOf(Observed(agg, p, gen), Told(Observed(agg, p, gen), p))
<1>1. PICK a : a = Observed(agg, p, gen)
  OBVIOUS
<1>2. PICK c, b, d : c = Noted(agg, p, gen) /\ b = Bucket(p.trade) /\ d = p.volume - agg.lastVolume
  OBVIOUS
<1>3. PICK g \in Nat : g = GapEnd
  BY GapEndTyped DEF Typed
<1>4. /\ agg \in Aggregators /\ gen \in Nat /\ agg.gap = NoGap /\ agg.lastVolume \in Int
      /\ agg.late \in Nat /\ agg.lastTrade \in Int
      /\ sent \in Seq(SentBars) /\ unsent \in Int /\ told \subseteq Nat
      /\ agg.carry \in Nat
  BY DEF Typed, Aggregators
<1>5. /\ c \in Aggregators /\ c.closing = agg.closing /\ c.current = agg.current
      /\ c.lastClose = agg.lastClose /\ c.started = agg.started /\ c.gap = NoGap
      /\ c.carry = agg.carry /\ c.late = agg.late /\ c.lastVolume = p.volume
      /\ Opens(c) = Opens(agg)
  <2>1. PICK n \in Nat : n = gen
    BY <1>4
  <2>2. c = Noted(agg, p, n)
    BY <1>2, <2>1
  <2>3. agg \in Aggregators
    BY <1>4
  <2>4. /\ Noted(agg, p, n) \in Aggregators
        /\ Noted(agg, p, n).closing = agg.closing /\ Noted(agg, p, n).current = agg.current
        /\ Noted(agg, p, n).lastClose = agg.lastClose
        /\ Noted(agg, p, n).started = agg.started
        /\ Noted(agg, p, n).carry = agg.carry /\ Noted(agg, p, n).late = agg.late
        /\ Noted(agg, p, n).gap = agg.gap /\ Noted(agg, p, n).lastVolume = p.volume
        /\ Opens(Noted(agg, p, n)) = Opens(agg)
    BY ONLY <2>3, p \in Packets, n \in Nat, NotedIs
  <2>5. QED BY <1>4, <2>2, <2>4
<1>6. /\ Queued(agg) /\ BeginsAt(agg, g) /\ ToldIsKept /\ VolumeConserved
  BY <1>3 DEF BarsFit
<1>7. Queued(c) /\ BeginsAt(c, g)
  BY <1>5, <1>6 DEF Queued, BeginsAt
<1>8. /\ p.ts \in Nat /\ p.trade \in Nat /\ p.volume \in Nat
  BY PacketTyped
<1>9. b \in Nat /\ Aligned(b)
  BY <1>2, <1>8, BucketFits
<1>10. d \in Nat /\ p.volume = agg.lastVolume + d
  BY <1>2, <1>4, <1>8, SMTT(30) DEF Acceptable, Continuous
<1>11. a = IF IsNewTrade(agg, p) THEN Traded(c, b, d) ELSE c
  <2>1. agg.started
    OBVIOUS
  <2>2. Observed(agg, p, gen)
          = IF IsNewTrade(agg, p)
            THEN Traded(Noted(agg, p, gen), Bucket(p.trade), p.volume - agg.lastVolume)
            ELSE Noted(agg, p, gen)
    BY ONLY <2>1, Zenon DEF Observed, Noted
  <2>3. QED BY <1>1, <1>2, <2>2, Zenon
<1>12. ~fault => agg.lastVolume = unsent + Volume(sent) + Volume(Opens(agg)) + agg.carry
  <2>1. ASSUME ~fault
        PROVE  agg.lastVolume = unsent + Volume(sent) + Volume(Opens(agg)) + agg.carry
    <3>1. agg.lastVolume = unsent + Volume(sent) + Volume(agg.closing)
                            + agg.current.volume + agg.carry
      BY <1>6, <2>1 DEF VolumeConserved
    <3>2. /\ Volume(Opens(agg)) = Volume(agg.closing) + agg.current.volume
          /\ Volume(agg.closing) \in Nat /\ agg.current.volume \in Nat
      BY <1>4, OpensVolume
    <3>3. Volume(sent) \in Nat
      BY <1>4, VolumeTyped, BarsWeighed
    <3>4. QED BY <1>4, <3>1, <3>2, <3>3
  <2>2. QED BY <2>1
<1>13. /\ Volume(sent) \in Nat /\ Volume(Opens(agg)) \in Nat
  BY <1>4, VolumeTyped, BarsWeighed, OpensVolume
<1>14. \A q \in told :
         /\ Aligned(q)
         /\ \/ q < g
            \/ \E i \in 1..Len(Opens(agg)) : Opens(agg)[i].start = q
            \/ \E i \in 1..Len(sent) : sent[i].start = q
  BY <1>3, <1>6 DEF ToldIsKept
<1>15. CASE ~IsNewTrade(agg, p)
  <2>1. a = c
    BY <1>11, <1>15
  <2>2. d = 0
    BY <1>4, <1>8, <1>10, <1>15 DEF IsNewTrade
  <2>3. Prepared(a)
    <3>1. ~fault => a.lastVolume = unsent + Volume(sent) + Volume(Opens(a)) + a.carry
      BY <1>4, <1>5, <1>10, <1>12, <2>1, <2>2
    <3>2. QED BY <1>3, <1>5, <1>7, <2>1, <3>1 DEF Prepared, Untouched
  <2>4. Told(a, p) = told
    BY <1>15 DEF Told
  <2>5. TellsOf(a, told)
    BY <1>3, <1>4, <1>5, <1>14, <2>1 DEF TellsOf
  <2>6. QED BY <1>1, <1>5, <2>1, <2>3, <2>4, <2>5
<1>16. CASE IsNewTrade(agg, p)
  <2>1. a = Traded(c, b, d)
    BY <1>11, <1>16
  <2>2. /\ a \in Aggregators /\ SameCourse(c, a)
        /\ IsLate(c, a, d) \/ Joins(c, a, b, d) \/ OpensBar(c, a, b, d)
    BY <1>5, <1>7, <1>9, <1>10, <2>1, TradedQueue
  <2>3. /\ Queued(a) /\ BeginsAt(a, g)
        /\ Volume(Opens(a)) + a.carry = Volume(Opens(c)) + c.carry + d
        /\ a.late = c.late => \E i \in 1..Len(Opens(a)) : Opens(a)[i].start = b
        /\ a.late >= c.late
        /\ \A i \in 1..Len(Opens(c)) :
             \E j \in 1..Len(Opens(a)) : Opens(a)[j].start = Opens(c)[i].start
    <3>1. c.started
      BY <1>5
    <3>2. QED BY <1>5, <1>7, <1>9, <1>10, <2>2, <3>1, TradedFits
  <2>4. /\ a.lastClose = agg.lastClose /\ a.started = agg.started /\ a.gap = NoGap
        /\ a.lastVolume = p.volume /\ a.carry \in Nat /\ a.late \in Nat
    BY <1>5, <2>2 DEF SameCourse, Aggregators
  <2>5. Prepared(a)
    <3>1. Volume(Opens(a)) \in Nat
      BY <2>2, OpensVolume
    <3>2. ~fault => a.lastVolume = unsent + Volume(sent) + Volume(Opens(a)) + a.carry
      <4>1. PICK vs, vq, va, ca, cc \in Nat, u, l \in Int :
              /\ vs = Volume(sent) /\ vq = Volume(Opens(agg)) /\ va = Volume(Opens(a))
              /\ ca = agg.carry /\ cc = a.carry /\ u = unsent /\ l = agg.lastVolume
        BY <1>4, <1>13, <2>4, <3>1
      <4>2. va + cc = vq + ca + d /\ a.lastVolume = l + d /\ (~fault => l = u + vs + vq + ca)
        BY <1>5, <1>10, <1>12, <2>3, <2>4, <4>1
      <4>3. ~fault => a.lastVolume = u + vs + va + cc
        BY <1>10, <4>1, <4>2
      <4>4. QED BY <4>1, <4>3
    <3>3. QED BY <1>3, <2>2, <2>3, <2>4, <3>2 DEF Prepared, Untouched
  <2>6. TellsOf(a, Told(a, p))
    <3>1. Told(a, p) \subseteq told \cup {b}
      BY <1>2 DEF Told
    <3>2. ASSUME NEW q \in Told(a, p)
          PROVE  /\ Aligned(q)
                 /\ \/ q < g
                    \/ \E i \in 1..Len(Opens(a)) : Opens(a)[i].start = q
                    \/ \E i \in 1..Len(sent) : sent[i].start = q
      <4>1. CASE q \in told
        BY <1>5, <1>14, <2>3, <4>1
      <4>2. CASE q \notin told
        <5>1. q = b /\ ~(a.late > agg.late)
          BY <1>2, <4>2 DEF Told
        <5>2. a.late = c.late
          BY <1>4, <1>5, <2>3, <2>4, <5>1
        <5>3. QED BY <1>9, <2>3, <5>1, <5>2
      <4>3. QED BY <4>1, <4>2
    <3>3. Told(a, p) \subseteq Nat
      BY <1>4, <1>9, <3>1
    <3>4. QED BY <1>3, <2>4, <3>2, <3>3 DEF TellsOf
  <2>7. QED BY <1>1, <2>4, <2>5, <2>6
<1>17. QED BY <1>15, <1>16

\* The end of the gap that the first packet finds.
FirstWhole(p) == IF p.ts > Bucket(p.ts) THEN Bucket(p.ts) + Step ELSE Bucket(p.ts)

\* The first packet opens a bar, partial if it is not at its start, and names the gap before it.
LEMMA FirstIs ==
  ASSUME NEW a \in Aggregators, ~a.started, Untouched(a), NEW p \in Packets, NEW g \in Nat
  PROVE  LET o == Observed(a, p, g) IN
         /\ o \in Aggregators /\ o.closing = <<>> /\ o.lastClose = 0 /\ o.started
         /\ o.current = [start |-> Bucket(p.ts), volume |-> 0, partial |-> p.ts > Bucket(p.ts)]
         /\ o.carry = 0 /\ o.lastVolume = p.volume
         /\ o.gap = IF FirstWhole(p) > 0 THEN <<0, FirstWhole(p)>> ELSE NoGap
<1>1. /\ a.closing = <<>> /\ a.lastClose = 0 /\ a.carry = 0
  <2>1. Opens(a) = <<>> /\ a.lastClose = 0 /\ a.carry = 0
    BY DEF Untouched
  <2>2. Len(a.closing) = 0 /\ a.closing \in Seq(Bars)
    <3>1. Len(Opens(a)) = 0
      BY <2>1
    <3>2. a.closing \in Seq(Bars) /\ Len(a.closing) \in Nat
      BY OpensTyped
    <3>3. Len(Opens(a)) = IF a.current = NoBar THEN Len(a.closing) ELSE Len(a.closing) + 1
      BY OpensTyped
    <3>4. PICK n \in Nat : n = Len(a.closing)
      BY <3>2
    <3>5. 0 = IF a.current = NoBar THEN n ELSE n + 1
      BY <3>1, <3>3, <3>4
    <3>6. n = 0
      BY <3>5
    <3>7. QED BY <3>2, <3>4, <3>6
  <2>3. QED BY <2>1, <2>2
<1>2. PICK b : b = [a EXCEPT !.generation = g, !.lastVolume = p.volume, !.lastTs = p.ts]
  OBVIOUS
<1>3. PICK u, f, v, t, w : u = Bucket(p.ts) /\ f = FirstWhole(p) /\ v = p.volume /\ t = p.ts /\ w = p.trade
  OBVIOUS
<1>4. u \in Nat /\ v \in Int /\ t \in Int /\ w \in Int /\ f \in Nat
  BY <1>3, PacketTyped, BucketFits DEF FirstWhole
<1>5. PICK k, l : /\ k = [start |-> u, volume |-> 0, partial |-> t > u]
                  /\ l = IF f > 0 THEN <<0, f>> ELSE NoGap
  OBVIOUS
<1>6. k \in Bars /\ l \in {NoGap} \cup (Nat \X Nat)
  <2>1. k \in Bars
    <3>1. CASE t > u
      <4>1. k = [start |-> u, volume |-> 0, partial |-> TRUE]
        BY <1>5, <3>1
      <4>2. QED BY <1>4, <4>1 DEF Bars
    <3>2. CASE ~(t > u)
      <4>1. k = [start |-> u, volume |-> 0, partial |-> FALSE]
        <5>1. (t > u) = FALSE
          BY <3>2
        <5>2. QED BY <1>5, <5>1, Zenon
      <4>2. QED BY <1>4, <4>1 DEF Bars
    <3>3. QED BY <3>1, <3>2
  <2>2. l \in {NoGap} \cup (Nat \X Nat)
    BY <1>4, <1>5
  <2>3. QED BY <2>1, <2>2
<1>7. PICK o : o = Observed(a, p, g)
  OBVIOUS
<1>8. o = First(b, p)
  BY <1>2, <1>7, Zenon DEF Observed
<1>9. b \in Aggregators
  BY <1>2, <1>3, <1>4, Zenon DEF Aggregators
<1>10. /\ b.closing = <<>> /\ b.lastClose = 0 /\ b.carry = 0 /\ b.lastVolume = v
  BY <1>1, <1>2, <1>3 DEF Aggregators
<1>11. o = [b EXCEPT !.started = TRUE, !.lastTrade = w, !.current = k, !.gap = l]
  <2>1. First(b, p) = [b EXCEPT !.started = TRUE, !.lastTrade = w,
               !.current = [start |-> u, volume |-> 0, partial |-> t > u],
               !.gap = IF f > b.lastClose THEN <<b.lastClose, f>> ELSE NoGap]
    BY <1>3, Zenon DEF First, FirstWhole
  <2>2. QED BY <1>5, <1>8, <1>10, <2>1
<1>12. o \in Aggregators
  BY <1>4, <1>6, <1>9, <1>11, Zenon DEF Aggregators
<1>13. /\ o.closing = <<>> /\ o.lastClose = 0 /\ o.started /\ o.current = k
       /\ o.carry = 0 /\ o.lastVolume = v /\ o.gap = l
  BY <1>9, <1>10, <1>11 DEF Aggregators
<1>14. QED BY <1>3, <1>5, <1>7, <1>12, <1>13

\* The queue that the first packet leaves.
LEMMA FirstQueue ==
  ASSUME NEW o \in Aggregators, NEW p \in Packets,
         o.closing = <<>>, o.lastClose = 0,
         o.current = [start |-> Bucket(p.ts), volume |-> 0, partial |-> p.ts > Bucket(p.ts)]
  PROVE  /\ Queued(o) /\ BeginsAt(o, FirstWhole(p)) /\ Volume(Opens(o)) = 0
         /\ FirstWhole(p) \in Nat /\ Aligned(FirstWhole(p))
<1>1. PICK u, f, k : u = Bucket(p.ts) /\ f = FirstWhole(p) /\ k = o.current
  OBVIOUS
<1>2. u \in Nat /\ Aligned(u) /\ u <= p.ts /\ p.ts < u + Step /\ p.ts \in Nat
  BY <1>1, PacketTyped, BucketFits
<1>3. f \in Nat /\ Aligned(f)
  BY <1>1, <1>2, NextAligned DEF FirstWhole
<1>4. k.start = u /\ k.volume = 0 /\ (k.partial <=> p.ts > u)
  <2>1. k = [start |-> u, volume |-> 0, partial |-> p.ts > u]
    BY <1>1
  <2>2. k.start = u /\ k.volume = 0
    BY <2>1
  <2>3. k.partial = (p.ts > u)
    BY <2>1, Zenon
  <2>4. QED BY <2>2, <2>3
<1>5. k # NoBar
  BY <1>2, <1>4 DEF NoBar
<1>6. PICK q : q = Opens(o)
  OBVIOUS
<1>7. q \in Seq(Bars) /\ Len(q) = 1 /\ q[1] = k
  BY <1>1, <1>5, <1>6 DEF Opens, Aggregators
<1>8. Volume(q) = 0
  <2>1. Volume(<<>>) = 0
    <3>1. <<>> \in Seq(Bars)
      OBVIOUS
    <3>2. QED BY <3>1, VolumeTyped, BarsWeighed
  <2>2. /\ Volume(q) = Volume(o.closing) + o.current.volume
    BY <1>6, OpensVolume
  <2>3. QED BY <1>1, <1>4, <2>1, <2>2
<1>9. Queued(o)
  <2>1. \A i \in 1..Len(q) : Aligned(q[i].start) /\ q[i].start >= 0 /\ (q[i].partial => i = 1)
    BY <1>2, <1>4, <1>7
  <2>2. \A i, j \in 1..Len(q) : i < j => q[i].start < q[j].start
    <3>1. \A i, j \in 1..1 : ~(i < j)
      OBVIOUS
    <3>2. QED BY <1>7, <3>1
  <2>3. Aligned(0)
    BY DEF Aligned
  <2>4. QED BY <1>1, <1>5, <1>6, <2>1, <2>2, <2>3 DEF Queued
<1>10. BeginsAt(o, f)
  <2>1. u + Step >= f /\ (p.ts > u <=> u < f)
    BY <1>1, <1>2 DEF FirstWhole
  <2>2. \A i \in 1..Len(q) : q[i].start + Step >= f /\ (q[i].partial <=> q[i].start < f)
    BY <1>4, <1>7, <2>1
  <2>3. q # <<>>
    <3>1. Len(<<>>) # 1
      OBVIOUS
    <3>2. QED BY <1>7, <3>1
  <2>4. QED BY <1>6, <2>2, <2>3 DEF BeginsAt
<1>11. QED BY <1>1, <1>3, <1>6, <1>8, <1>9, <1>10

\* A trusted packet, without the bounds of its quantifiers.
LEMMA TrustedDoes ==
  ASSUME NEW p, OnTrustedPacket(p)
  PROVE  LET a == Observed(agg, p, gen) IN
         LET out == Ripe(a, clock) IN
         /\ agg' = [Closed(a, out) EXCEPT !.gap = NoGap]
         /\ told' = Told(a, p)
         /\ UNCHANGED controlVars
         /\ IF a.gap # NoGap
            THEN SpawnBackfill(a.gap) /\ unsent' = p.volume
            ELSE IF agg.started THEN Publish(out)
            ELSE unsent' = p.volume /\ UNCHANGED <<sent, held, taskVars>>
BY Zenon DEF OnTrustedPacket, Told

\* Taking the gap out leaves the rest of the aggregator.
LEMMA WithoutGap ==
  ASSUME NEW c \in Aggregators
  PROVE  LET d == [c EXCEPT !.gap = NoGap] IN
         /\ d \in Aggregators /\ d.gap = NoGap /\ (c.gap = NoGap => d = c)
         /\ d.closing = c.closing /\ d.current = c.current /\ d.lastClose = c.lastClose
         /\ d.started = c.started /\ d.lastVolume = c.lastVolume /\ d.carry = c.carry
         /\ Opens(d) = Opens(c)
<1>1. PICK d : d = [c EXCEPT !.gap = NoGap]
  OBVIOUS
<1>2. d \in Aggregators
  BY <1>1, Zenon DEF Aggregators
<1>3. /\ d.gap = NoGap /\ d.closing = c.closing /\ d.current = c.current
      /\ d.lastClose = c.lastClose /\ d.started = c.started
      /\ d.lastVolume = c.lastVolume /\ d.carry = c.carry
  BY <1>1 DEF Aggregators
<1>4. c.gap = NoGap => d = c
  BY <1>1 DEF Aggregators
<1>5. Opens(d) = Opens(c)
  BY <1>3, Zenon DEF Opens
<1>6. QED BY <1>1, <1>2, <1>3, <1>4, <1>5

\* The first packet: its bar is the first, and the gap before it the backfill's.
LEMMA FirstFits ==
  ASSUME Typed, BarsFit, ~agg.started, NEW p \in Packets, OnTrustedPacket(p),
         UNCHANGED <<clock, market>>
  PROVE  /\ agg' \in Aggregators /\ agg'.gap = NoGap /\ sent' \in Seq(SentBars) /\ unsent' \in Int
         /\ gap' \in {NoGap} \cup (Nat \X Nat)
         /\ fetcher' \in {"none", "waiting", "over"} /\ held' \in BOOLEAN
         /\ handover' \in {"none", "Pending", "Done", "Abandoned"}
         /\ BarsFit'
<1>1. PICK a, out, c, d, g :
        /\ a = Observed(agg, p, gen) /\ out = Ripe(a, clock) /\ c = Closed(a, out)
        /\ d = agg' /\ g = FirstWhole(p)
  OBVIOUS
<1>2. /\ d = [c EXCEPT !.gap = NoGap]
      /\ told' = Told(a, p) /\ fault' = fault
      /\ a.gap # NoGap => SpawnBackfill(a.gap) /\ unsent' = p.volume
      /\ a.gap = NoGap => unsent' = p.volume /\ UNCHANGED <<sent, held, taskVars>>
  BY <1>1, TrustedDoes DEF controlVars
<1>3. /\ clock \in Nat /\ agg \in Aggregators /\ gen \in Nat /\ sent \in Seq(SentBars)
      /\ held \in BOOLEAN /\ fetcher \in {"none", "waiting", "over"}
  BY DEF Typed
<1>4. /\ Untouched(agg) /\ GapIsKnown /\ SentIsPast /\ BarsInOrder /\ NothingYet /\ BackfillIsWhole
  BY DEF BarsFit
<1>5. /\ a \in Aggregators /\ a.closing = <<>> /\ a.lastClose = 0 /\ a.started
      /\ a.current = [start |-> Bucket(p.ts), volume |-> 0, partial |-> p.ts > Bucket(p.ts)]
      /\ a.carry = 0 /\ a.lastVolume = p.volume
      /\ a.gap = IF g > 0 THEN <<0, g>> ELSE NoGap
  BY <1>1, <1>3, <1>4, FirstIs
<1>6. /\ Queued(a) /\ BeginsAt(a, g) /\ Volume(Opens(a)) = 0 /\ g \in Nat /\ Aligned(g)
  BY <1>1, <1>5, FirstQueue
<1>7. c \in Aggregators /\ Leaves(a, c, out, clock) /\ out \in Seq(Bars)
  BY <1>1, <1>3, <1>5, <1>6, ClosedLeaves, RipeIs
<1>8. /\ Queued(c) /\ BeginsAt(c, g) /\ c.lastClose >= a.lastClose
      /\ Volume(out) + Volume(Opens(c)) = Volume(Opens(a))
  BY <1>3, <1>5, <1>6, <1>7, LeavesFits
<1>9. /\ d \in Aggregators /\ d.gap = NoGap
      /\ d.closing = c.closing /\ d.current = c.current /\ d.lastClose = c.lastClose
      /\ d.started = c.started /\ d.lastVolume = c.lastVolume /\ d.carry = c.carry
      /\ Opens(d) = Opens(c)
  BY <1>2, <1>7, WithoutGap
<1>10. Queued(d) /\ BeginsAt(d, g)
  BY <1>8, <1>9 DEF Queued, BeginsAt
<1>11. d.started /\ d.lastVolume = p.volume /\ d.carry = 0
  BY <1>5, <1>7, <1>9 DEF Leaves
<1>12. /\ gap = NoGap /\ handover = "none" /\ fetcher = "none"
  BY <1>4 DEF GapIsKnown
<1>13. /\ g > 0 => gap' = <<0, g>> /\ handover' = "Pending" /\ held' = TRUE
                   /\ fetcher' = "waiting" /\ sent' = sent
       /\ ~(g > 0) => gap' = gap /\ handover' = handover /\ held' = held
                   /\ fetcher' = fetcher /\ sent' = sent
       /\ unsent' = p.volume
  <2>1. CASE g > 0
    <3>1. a.gap = <<0, g>> /\ a.gap # NoGap
      BY <1>5, <2>1 DEF NoGap
    <3>2. SpawnBackfill(a.gap) /\ unsent' = p.volume
      BY <1>2, <3>1
    <3>3. QED BY <2>1, <3>1, <3>2 DEF SpawnBackfill
  <2>2. CASE ~(g > 0)
    <3>1. a.gap = NoGap
      BY <1>5, <2>2
    <3>2. unsent' = p.volume /\ UNCHANGED <<sent, held, taskVars>>
      BY <1>2, <3>1
    <3>3. QED BY <2>2, <3>2 DEF taskVars
  <2>3. QED BY <2>1, <2>2
<1>14. GapEnd' = g
  <2>1. CASE g > 0
    <3>1. gap' = <<0, g>> /\ gap' # NoGap /\ gap'[2] = g
      BY <1>13, <2>1 DEF NoGap
    <3>2. QED BY <3>1 DEF GapEnd
  <2>2. CASE ~(g > 0)
    <3>1. gap' = NoGap /\ g = 0
      BY <1>6, <1>12, <1>13, <2>2
    <3>2. QED BY <3>1 DEF GapEnd
  <2>3. QED BY <2>1, <2>2
<1>15. /\ gap' \in {NoGap} \cup (Nat \X Nat)
       /\ fetcher' \in {"none", "waiting", "over"} /\ held' \in BOOLEAN
       /\ handover' \in {"none", "Pending", "Done", "Abandoned"}
       /\ sent' \in Seq(SentBars) /\ sent' = sent
  <2>1. CASE g > 0
    <3>1. gap' = <<0, g>> /\ handover' = "Pending" /\ held' = TRUE
          /\ fetcher' = "waiting" /\ sent' = sent
      BY <1>13, <2>1
    <3>2. gap' \in Nat \X Nat
      BY <1>6, <3>1
    <3>3. QED BY <1>3, <3>1, <3>2
  <2>2. CASE ~(g > 0)
    <3>1. gap' = NoGap /\ handover' = "none" /\ held' = held
          /\ fetcher' = "none" /\ sent' = sent
      BY <1>12, <1>13, <2>2
    <3>2. QED BY <1>3, <3>1, Zenon
  <2>3. QED BY <2>1, <2>2
<1>16. told = {} /\ told' = {} /\ Volume(sent) = 0
  BY <1>2, <1>4 DEF NothingYet, Told
<1>17. GapIsKnown'
  <2>1. CASE g > 0
    <3>1. gap' = <<0, g>> /\ handover' = "Pending" /\ held' = TRUE /\ gap' # NoGap
          /\ gap'[1] = 0 /\ gap'[2] = g
      BY <1>13, <2>1 DEF NoGap
    <3>2. QED BY <1>1, <1>6, <1>11, <2>1, <3>1 DEF GapIsKnown
  <2>2. CASE ~(g > 0)
    <3>1. gap' = NoGap /\ handover' = "none" /\ fetcher' = "none"
      BY <1>12, <1>13, <2>2
    <3>2. QED BY <3>1 DEF GapIsKnown
  <2>3. QED BY <2>1, <2>2
<1>18. SentIsPast'
  <2>1. \A i \in 1..Len(sent) : sent[i].start < 0
    BY <1>4 DEF SentIsPast
  <2>2. \A i \in 1..Len(sent) : sent[i].start \in Int
    <3>1. \A i \in 1..Len(sent) : sent[i] \in SentBars
      BY <1>3
    <3>2. QED BY <3>1 DEF SentBars
  <2>3. \A i \in 1..Len(sent) : sent[i].start < g
    BY <1>6, <2>1, <2>2
  <2>4. QED BY <1>1, <1>14, <1>15, <2>1, <2>3 DEF SentIsPast
<1>19. BarsInOrder'
  BY <1>4, <1>15 DEF BarsInOrder
<1>20. Untouched(agg)' /\ NothingYet'
  BY <1>1, <1>11 DEF Untouched, NothingYet
<1>21. ToldIsKept'
  BY <1>16 DEF ToldIsKept
<1>22. BackfillIsWhole'
  <2>1. handover' # "Done"
    BY <1>12, <1>13
  <2>2. QED BY <1>4, <2>1 DEF BackfillIsWhole
<1>23. VolumeConserved'
  <2>1. /\ Volume(Opens(c)) = Volume(c.closing) + c.current.volume
        /\ Volume(Opens(c)) \in Nat /\ Volume(c.closing) \in Nat /\ c.current.volume \in Nat
    BY <1>7, OpensVolume
  <2>2. Volume(out) \in Nat
    BY <1>7, VolumeTyped, BarsWeighed
  <2>3. Volume(c.closing) = 0 /\ c.current.volume = 0
    <3>1. PICK vo, vc, vq, vk \in Nat : /\ vo = Volume(out) /\ vc = Volume(Opens(c))
                                        /\ vq = Volume(c.closing) /\ vk = c.current.volume
      BY <2>1, <2>2
    <3>2. vo + vc = 0 /\ vc = vq + vk
      BY <1>6, <1>8, <2>1, <3>1
    <3>3. vq = 0 /\ vk = 0
      BY <3>1, <3>2
    <3>4. QED BY <3>1, <3>3
  <2>4. p.volume \in Nat
    BY PacketTyped
  <2>5. d.lastVolume = unsent' + Volume(sent) + Volume(d.closing) + d.current.volume + d.carry
    BY <1>9, <1>11, <1>13, <1>16, <2>3, <2>4
  <2>6. QED BY <1>1, <1>15, <2>5 DEF VolumeConserved
<1>24. NotOverdue'
  <2>1. \A i \in 1..Len(Opens(c)) : clock < Due(Opens(c)[i])
    BY <1>7 DEF Leaves
  <2>2. \A i \in 1..Len(Opens(c)) : clock <= Due(Opens(c)[i])
    <3>1. Opens(c) \in Seq(Bars)
      BY <1>7, OpensTyped
    <3>2. \A i \in 1..Len(Opens(c)) : Opens(c)[i] \in Bars
      BY <3>1
    <3>3. \A i \in 1..Len(Opens(c)) : Due(Opens(c)[i]) \in Int
      BY <3>2 DEF Bars, Due
    <3>4. QED BY <1>3, <2>1, <3>3
  <2>3. clock' = clock
    OBVIOUS
  <2>4. QED BY <1>1, <1>9, <2>1, <2>2, <2>3 DEF NotOverdue
<1>25. Queued(agg)' /\ BeginsAt(agg, GapEnd)'
  BY <1>1, <1>10, <1>14
<1>26. BarsFit'
  BY <1>17, <1>18, <1>19, <1>20, <1>21, <1>22, <1>23, <1>24, <1>25 DEF BarsFit
<1>27. unsent' \in Int
  BY <1>13, PacketTyped
<1>28. QED BY <1>1, <1>9, <1>15, <1>26, <1>27

-----------------------------------------------------------------------------
(* Steps that leave the bars alone *)

\* The types of what the data client and the backfill change.
ClientTyped ==
  /\ agg \in Aggregators /\ agg.gap = NoGap
  /\ held \in BOOLEAN /\ sent \in Seq(SentBars) /\ told \subseteq Nat /\ unsent \in Int
  /\ fetcher \in {"none", "waiting", "over"} /\ gap \in {NoGap} \cup (Nat \X Nat)
  /\ handover \in {"none", "Pending", "Done", "Abandoned"}

\* What the client keeps stays well typed while nothing of it changes.
LEMMA ClientKept ==
  ASSUME Typed, UNCHANGED <<agg, held, sent, told, unsent, fetcher, gap, handover>>
  PROVE  ClientTyped'
BY DEF Typed, ClientTyped

\* The aggregator's bars stay.
Keeps(a, c) ==
  /\ c.closing = a.closing /\ c.current = a.current /\ c.lastClose = a.lastClose
  /\ c.started = a.started /\ c.lastVolume = a.lastVolume /\ c.carry = a.carry

\* The bars fit while the aggregator keeps them and nothing is sent.
LEMMA KeptFits ==
  ASSUME BarsFit, Keeps(agg, agg'), UNCHANGED <<sent, unsent, told, gap>>,
         GapIsKnown', NotOverdue',
         handover' = "Pending" => handover = "Pending",
         handover' = "Done" => handover = "Done",
         \A p \in market'.periods : Aligned(p), fault => fault'
  PROVE  BarsFit'
<1>1. /\ agg'.closing = agg.closing /\ agg'.current = agg.current
      /\ agg'.lastClose = agg.lastClose /\ agg'.started = agg.started
      /\ agg'.lastVolume = agg.lastVolume /\ agg'.carry = agg.carry
  BY DEF Keeps
<1>2. PICK c, a : c = agg' /\ a = agg
  OBVIOUS
<1>3. Opens(c) = Opens(a)
  BY <1>1, <1>2, Zenon DEF Opens
<1>4. GapEnd' = GapEnd
  BY DEF GapEnd
<1>5. Queued(c) /\ Untouched(c) /\ BeginsAt(c, GapEnd)
  BY <1>1, <1>2, <1>3 DEF BarsFit, Queued, Untouched, BeginsAt
<1>6. SentIsPast'
  BY <1>1, <1>4 DEF BarsFit, SentIsPast
<1>7. BarsInOrder'
  BY DEF BarsFit, BarsInOrder
<1>8. NothingYet'
  BY <1>1 DEF BarsFit, NothingYet
<1>9. VolumeConserved'
  BY <1>1 DEF BarsFit, VolumeConserved
<1>10. ToldIsKept'
  BY <1>2, <1>3, <1>4 DEF BarsFit, ToldIsKept
<1>11. BackfillIsWhole'
  BY <1>4 DEF BarsFit, BackfillIsWhole
<1>12. QED BY <1>2, <1>4, <1>5, <1>6, <1>7, <1>8, <1>9, <1>10, <1>11 DEF BarsFit

\* The gap stays known while nothing of it changes.
LEMMA GapKept ==
  ASSUME BarsFit, UNCHANGED <<held, handover, gap, fetcher>>, agg'.started = agg.started
  PROVE  GapIsKnown'
BY DEF BarsFit, GapIsKnown

\* The rest of the step decides about the time.
LEMMA TimeKept ==
  ASSUME BarsFit, Keeps(agg, agg'),
         \/ stopping' \/ phase' \notin {"subscribing", "reading"}
         \/ /\ phase \in {"subscribing", "reading"} /\ clock' = clock /\ stopping' = stopping
            /\ phase' = "reading" /\ ticked' => phase = "reading" /\ ticked
  PROVE  NotOverdue'
<1>1. PICK c, a : c = agg' /\ a = agg
  OBVIOUS
<1>2. Opens(c) = Opens(a)
  BY <1>1, Zenon DEF Opens, Keeps
<1>3. QED BY <1>1, <1>2 DEF BarsFit, NotOverdue

\* The bars fit while nothing of the client changes.
LEMMA AllKept ==
  ASSUME Typed, BarsFit, UNCHANGED <<agg, held, sent, told, unsent, fetcher, gap, handover>>,
         NotOverdue', \A p \in market'.periods : Aligned(p), fault => fault'
  PROVE  ClientTyped' /\ BarsFit'
<1>1. Keeps(agg, agg') /\ agg'.started = agg.started
  BY DEF Keeps
<1>2. GapIsKnown'
  BY <1>1, GapKept
<1>3. QED BY <1>1, <1>2, ClientKept, KeptFits

-----------------------------------------------------------------------------
(* The data client's events *)

\* A later packet.
LEMMA LaterFits ==
  ASSUME Typed, BarsFit, agg.started, NEW p \in Packets,
         Acceptable(agg, p, clock, gen), OnTrustedPacket(p), UNCHANGED <<clock, market>>
  PROVE  ClientTyped' /\ BarsFit'
<1>1. PICK a, out, c :
        a = Observed(agg, p, gen) /\ out = Ripe(a, clock) /\ c = Closed(a, out)
  OBVIOUS
<1>2. Prepared(a) /\ TellsOf(a, Told(a, p))
  BY <1>1, ObservedIs
<1>3. a \in Aggregators /\ a.gap = NoGap /\ Queued(a)
  BY <1>2 DEF Prepared
<1>4. /\ agg' = [c EXCEPT !.gap = NoGap]
      /\ told' = Told(a, p) /\ fault' = fault /\ Publish(out)
  BY <1>1, <1>3, TrustedDoes DEF controlVars
<1>5. clock \in Nat
  BY DEF Typed
<1>6. c \in Aggregators /\ c.gap = NoGap
  BY <1>1, <1>3, <1>5, ClosedLeaves DEF Leaves
<1>7. agg' = Closed(a, Ripe(a, clock))
  BY <1>1, <1>4, <1>6, WithoutGap
<1>8. TellsOf(a, told') /\ Publish(Ripe(a, clock))
  BY <1>1, <1>2, <1>4
<1>9. UNCHANGED <<clock, market, fault>>
  BY <1>4
<1>10. /\ agg' \in Aggregators /\ agg'.gap = NoGap /\ sent' \in Seq(SentBars) /\ unsent' \in Int
       /\ gap' = gap /\ fetcher' = fetcher /\ held' \in BOOLEAN
       /\ handover' \in {"none", "Pending", "Done", "Abandoned"}
       /\ BarsFit'
  BY <1>2, <1>7, <1>8, <1>9, StreamFits
<1>11. told' \subseteq Nat
  BY <1>8 DEF TellsOf
<1>12. gap \in {NoGap} \cup (Nat \X Nat) /\ fetcher \in {"none", "waiting", "over"}
  BY DEF Typed
<1>13. QED BY <1>10, <1>11, <1>12 DEF ClientTyped

\* A refused packet leaves the bars alone: one that starts in the past of the warm-up
\* cannot come, since the warm-up ends before the clock starts.
LEMMA RefusedKeeps ==
  ASSUME Typed, BarsFit, NEW p \in Packets, ~Acceptable(agg, p, clock, gen)
  PROVE  LET c == Refused(agg, p, clock, gen) IN
         c \in Aggregators /\ c.gap = NoGap /\ Keeps(agg, c)
<1>1. PICK n \in Nat : n = gen
  BY DEF Typed
<1>2. agg \in Aggregators /\ agg.gap = NoGap
  BY DEF Typed
<1>3. ASSUME Timely(agg, p, clock), SameGeneration(agg, gen), Continuous(agg, p)
      PROVE  FALSE
  <2>1. ~agg.started /\ ~(Bucket(p.ts) >= agg.lastClose)
    BY <1>3 DEF Acceptable
  <2>2. agg.lastClose = 0
    BY <2>1 DEF BarsFit, Untouched
  <2>3. Bucket(p.ts) \in Nat
    BY PacketTyped, BucketFits
  <2>4. QED BY <2>1, <2>2, <2>3
<1>4. PICK c : c = Refused(agg, p, clock, gen)
  OBVIOUS
<1>5. c = agg \/ c = [agg EXCEPT !.generation = n]
  BY <1>1, <1>3, <1>4 DEF Refused
<1>6. c \in Aggregators
  BY <1>1, <1>2, <1>5, Zenon DEF Aggregators
<1>7. c.gap = NoGap /\ Keeps(agg, c)
  BY <1>2, <1>5 DEF Aggregators, Keeps
<1>8. QED BY <1>4, <1>6, <1>7

\* A packet keeps what the client has, whether it is trusted or not.
LEMMA PacketFits ==
  ASSUME Typed, BarsFit, NEW p \in Packets, OnPacket(p),
         UNCHANGED <<clock, market, phase, ticked>>
  PROVE  ClientTyped' /\ BarsFit' /\ fault' \in BOOLEAN /\ stopping' \in BOOLEAN
         /\ (stopping => stopping')
<1>1. fault \in BOOLEAN /\ stopping \in BOOLEAN
  BY DEF Typed
<1>2. CASE stopping
  <2>1. UNCHANGED <<clientVars, controlVars, taskVars>>
    BY <1>2 DEF OnPacket, UnchangedClient
  <2>2. /\ UNCHANGED <<agg, held, sent, told, unsent, fetcher, gap, handover>>
        /\ fault' = fault /\ stopping' = stopping
    BY <2>1 DEF clientVars, controlVars, taskVars
  <2>3. Keeps(agg, agg')
    BY <2>2 DEF Keeps
  <2>4. NotOverdue'
    BY <1>2, <2>2, <2>3, TimeKept
  <2>5. \A q \in market'.periods : Aligned(q)
    BY DEF BarsFit, BackfillIsWhole
  <2>6. ClientTyped' /\ BarsFit'
    BY <2>2, <2>4, <2>5, AllKept
  <2>7. QED BY <1>1, <2>2, <2>6, Zenon
<1>3. CASE ~stopping /\ Acceptable(agg, p, clock, gen)
  <2>1. OnTrustedPacket(p)
    BY <1>3 DEF OnPacket
  <2>2. fault' = fault /\ stopping' = stopping
    BY <2>1, TrustedDoes DEF controlVars
  <2>3. ClientTyped' /\ BarsFit'
    <3>1. CASE agg.started
      BY <1>3, <2>1, <3>1, LaterFits
    <3>2. CASE ~agg.started
      <4>1. /\ agg' \in Aggregators /\ agg'.gap = NoGap /\ sent' \in Seq(SentBars) /\ unsent' \in Int
            /\ gap' \in {NoGap} \cup (Nat \X Nat)
            /\ fetcher' \in {"none", "waiting", "over"} /\ held' \in BOOLEAN
            /\ handover' \in {"none", "Pending", "Done", "Abandoned"}
            /\ BarsFit'
        BY <2>1, <3>2, FirstFits
      <4>2. told' = told
        BY <2>1, <3>2, TrustedDoes DEF Told
      <4>3. told \subseteq Nat
        BY DEF Typed
      <4>4. QED BY <4>1, <4>2, <4>3 DEF ClientTyped
    <3>3. QED BY <3>1, <3>2
  <2>4. QED BY <1>1, <2>2, <2>3, Zenon
<1>4. CASE ~stopping /\ ~Acceptable(agg, p, clock, gen)
  <2>1. /\ Fail
        /\ agg' = IF FreshAt(p.ts, clock) THEN Refused(agg, p, clock, gen) ELSE agg
        /\ UNCHANGED <<sent, held, told, unsent, taskVars>>
    BY <1>4, Zenon DEF OnPacket
  <2>2. /\ UNCHANGED <<sent, held, told, unsent, fetcher, gap, handover>>
        /\ fault' = TRUE /\ stopping' = TRUE
    BY <2>1 DEF taskVars, Fail
  <2>3. agg' \in Aggregators /\ agg'.gap = NoGap /\ Keeps(agg, agg')
    <3>1. CASE FreshAt(p.ts, clock)
      <4>1. agg' = Refused(agg, p, clock, gen)
        BY <2>1, <3>1
      <4>2. QED BY <1>4, <4>1, RefusedKeeps
    <3>2. CASE ~FreshAt(p.ts, clock)
      <4>1. agg' = agg
        BY <2>1, <3>2
      <4>2. QED BY <4>1 DEF Typed, Keeps
    <3>3. QED BY <3>1, <3>2
  <2>4. NotOverdue'
    BY <2>2, <2>3, TimeKept
  <2>5. agg'.started = agg.started
    BY <2>3 DEF Keeps
  <2>6. GapIsKnown'
    BY <2>2, <2>5, GapKept
  <2>7. \A q \in market'.periods : Aligned(q)
    BY DEF BarsFit, BackfillIsWhole
  <2>8. BarsFit'
    BY <2>2, <2>3, <2>4, <2>6, <2>7, KeptFits
  <2>9. ClientTyped'
    BY <2>2, <2>3 DEF Typed, ClientTyped
  <2>10. QED BY <2>2, <2>8, <2>9, Zenon
<1>5. QED BY <1>2, <1>3, <1>4

\* The Clock event closes what is due.
LEMMA ClockFits ==
  ASSUME Typed, BarsFit, OnClock, UNCHANGED <<clock, market, phase>>
  PROVE  ClientTyped' /\ BarsFit' /\ fault' = fault /\ stopping' = stopping
<1>1. CASE stopping
  <2>1. UNCHANGED <<clientVars, controlVars, taskVars>>
    BY <1>1 DEF OnClock, UnchangedClient
  <2>2. /\ UNCHANGED <<agg, held, sent, told, unsent, fetcher, gap, handover>>
        /\ fault' = fault /\ stopping' = stopping
    BY <2>1 DEF clientVars, controlVars, taskVars
  <2>3. Keeps(agg, agg')
    BY <2>2 DEF Keeps
  <2>4. NotOverdue'
    BY <1>1, <2>2, <2>3, TimeKept
  <2>5. \A q \in market'.periods : Aligned(q)
    BY DEF BarsFit, BackfillIsWhole
  <2>6. QED BY <2>2, <2>4, <2>5, AllKept
<1>2. CASE ~stopping
  <2>1. /\ agg' = Closed(agg, Ripe(agg, clock)) /\ Publish(Ripe(agg, clock))
        /\ UNCHANGED <<told, controlVars>>
    BY <1>2, Zenon DEF OnClock
  <2>2. UNCHANGED <<told, fault, stopping>>
    BY <2>1 DEF controlVars
  <2>3. /\ agg \in Aggregators /\ agg.gap = NoGap /\ told \subseteq Nat
        /\ sent \in Seq(SentBars) /\ unsent \in Int
        /\ gap \in {NoGap} \cup (Nat \X Nat) /\ fetcher \in {"none", "waiting", "over"}
    BY DEF Typed
  <2>4. /\ Queued(agg) /\ BeginsAt(agg, GapEnd) /\ Untouched(agg)
        /\ VolumeConserved /\ ToldIsKept /\ NothingYet
    BY DEF BarsFit
  <2>5. Prepared(agg)
    <3>1. ASSUME ~fault, agg.started
          PROVE  agg.lastVolume = unsent + Volume(sent) + Volume(Opens(agg)) + agg.carry
      <4>1. agg.lastVolume = unsent + Volume(sent) + Volume(agg.closing)
                              + agg.current.volume + agg.carry
        BY <2>4, <3>1 DEF VolumeConserved
      <4>2. /\ Volume(Opens(agg)) = Volume(agg.closing) + agg.current.volume
            /\ Volume(agg.closing) \in Nat /\ agg.current.volume \in Nat
        BY <2>3, OpensVolume
      <4>3. Volume(sent) \in Nat /\ agg.carry \in Nat
        BY <2>3, VolumeTyped, BarsWeighed DEF Aggregators
      <4>4. QED BY <2>3, <4>1, <4>2, <4>3
    <3>2. QED BY <2>3, <2>4, <3>1 DEF Prepared
  <2>6. TellsOf(agg, told')
    BY <2>2, <2>3, <2>4 DEF TellsOf, ToldIsKept, NothingYet
  <2>7. /\ agg' \in Aggregators /\ agg'.gap = NoGap /\ sent' \in Seq(SentBars) /\ unsent' \in Int
        /\ gap' = gap /\ fetcher' = fetcher /\ held' \in BOOLEAN
        /\ handover' \in {"none", "Pending", "Done", "Abandoned"}
        /\ BarsFit'
    BY <2>1, <2>2, <2>5, <2>6, StreamFits
  <2>8. QED BY <2>2, <2>3, <2>7 DEF ClientTyped
<1>3. QED BY <1>1, <1>2

-----------------------------------------------------------------------------
(* The backfill's answer *)

\* The bars of the backfill: every period of the gap, in order, before g.
AsFetched(g) ==
  [i \in 1..(g \div Step) |-> Bar((i - 1) * Step, "backfill", 0)]

\* The bars that are fetched are in order, without volume, and cover the gap.
LEMMA AsFetchedIs ==
  ASSUME NEW g \in Nat, Aligned(g)
  PROVE  /\ AsFetched(g) \in Seq(SentBars) /\ InOrder(AsFetched(g)) /\ Volume(AsFetched(g)) = 0
         /\ \A i \in 1..Len(AsFetched(g)) :
              0 <= AsFetched(g)[i].start /\ AsFetched(g)[i].start < g
         /\ \A p \in 0..(g - 1) : Aligned(p) =>
              \E i \in 1..Len(AsFetched(g)) : AsFetched(g)[i].start = p
<1>1. PICK n \in Nat : n = g \div Step /\ n * Step = g
  BY WholeBars
<1>2. PICK new : new = AsFetched(g)
  OBVIOUS
<1>3. new = [i \in 1..n |-> Bar((i - 1) * Step, "backfill", 0)]
  BY <1>1, <1>2 DEF AsFetched
<1>4. \A i \in 1..n : (i - 1) * Step \in Nat
  <2>1. \A i \in 1..n : i - 1 \in Nat
    OBVIOUS
  <2>2. ASSUME NEW k \in Nat PROVE k * Step \in Nat
    OBVIOUS
  <2>3. QED BY <2>1, <2>2
<1>5. \A i \in 1..n : Bar((i - 1) * Step, "backfill", 0) \in SentBars
  <2>1. ASSUME NEW t \in Nat PROVE Bar(t, "backfill", 0) \in SentBars
    BY DEF Bar, SentBars
  <2>2. QED BY <1>4, <2>1
<1>6. new \in Seq(SentBars) /\ Len(new) = n
  BY <1>3, <1>5
<1>7. \A i \in 1..n : new[i].start = (i - 1) * Step /\ new[i].volume = 0
  BY <1>3 DEF Bar
<1>8. ASSUME NEW k \in Nat, NEW m \in Nat, k < m PROVE k * Step < m * Step
  <2>1. k + 1 <= m
    BY <1>8
  <2>2. (k + 1) * Step <= m * Step
    BY <2>1
  <2>3. (k + 1) * Step = k * Step + Step
    OBVIOUS
  <2>4. k * Step \in Int /\ m * Step \in Int
    OBVIOUS
  <2>5. QED BY <2>2, <2>3, <2>4
<1>9. \A i \in 1..n : 0 <= new[i].start /\ new[i].start < g
  <2>1. ASSUME NEW i \in 1..n PROVE 0 <= new[i].start /\ new[i].start < g
    <3>1. i - 1 \in Nat /\ i - 1 < n
      OBVIOUS
    <3>2. (i - 1) * Step < n * Step
      BY <1>8, <3>1
    <3>3. (i - 1) * Step \in Nat
      BY <1>4
    <3>4. QED BY <1>1, <1>7, <3>2, <3>3
  <2>2. QED BY <2>1
<1>10. InOrder(new)
  <2>1. ASSUME NEW i \in 1..n - 1 PROVE new[i].start < new[i + 1].start
    <3>1. /\ i - 1 \in Nat /\ i \in Nat /\ i - 1 < i /\ i \in 1..n /\ i + 1 \in 1..n
          /\ i + 1 - 1 = i
      OBVIOUS
    <3>2. (i - 1) * Step < i * Step
      BY <1>8, <3>1
    <3>3. new[i].start = (i - 1) * Step /\ new[i + 1].start = i * Step
      BY <1>7, <3>1
    <3>4. QED BY <3>2, <3>3
  <2>2. QED BY <1>6, <2>1 DEF InOrder
<1>11. Volume(new) = 0
  <2>1. Volumes(new) \in Seq(Int) /\ Volume(new) = Total(Volumes(new))
    BY <1>6, VolumeTyped, BarsWeighed
  <2>2. \A i \in 1..Len(Volumes(new)) : Volumes(new)[i] = 0
    BY <1>6, <1>7, VolumesAre
  <2>3. QED BY <2>1, <2>2, TotalZeros
<1>12. ASSUME NEW p \in 0..(g - 1), Aligned(p) PROVE \E i \in 1..n : new[i].start = p
  <2>1. PICK k \in Nat : p = k * Step
    BY <1>12 DEF Aligned
  <2>2. k < n
    <3>1. ASSUME n <= k PROVE n * Step <= k * Step
      BY <3>1
    <3>2. QED BY <1>1, <2>1, <3>1
  <2>3. k + 1 \in 1..n /\ (k + 1) - 1 = k
    BY <2>2
  <2>4. new[k + 1].start = p
    BY <1>7, <2>1, <2>3
  <2>5. QED BY <2>3, <2>4
<1>13. QED BY <1>2, <1>6, <1>9, <1>10, <1>11, <1>12

\* The fetched bars come before what is sent later, and nothing was sent.
LEMMA FetchedFits ==
  ASSUME Typed, BarsFit, handover = "Pending", fetcher' = "over",
         sent' = sent \o AsFetched(GapEnd), handover' = "Done",
         UNCHANGED <<clock, market, phase, ticked, stopping, fault, agg, held, told, unsent, gap>>
  PROVE  ClientTyped' /\ BarsFit'
<1>1. PICK g \in Nat : g = GapEnd
  BY GapEndTyped DEF Typed
<1>2. PICK new : new = AsFetched(g)
  OBVIOUS
<1>3. /\ agg \in Aggregators /\ agg.gap = NoGap /\ sent \in Seq(SentBars) /\ unsent \in Int
      /\ told \subseteq Nat /\ held \in BOOLEAN /\ gap \in {NoGap} \cup (Nat \X Nat)
  BY DEF Typed
<1>4. /\ gap # NoGap /\ gap[1] = 0 /\ g = gap[2] /\ Aligned(g) /\ agg.started /\ held
  BY <1>1 DEF BarsFit, GapIsKnown, GapEnd
<1>5. /\ new \in Seq(SentBars) /\ InOrder(new) /\ Volume(new) = 0
      /\ \A i \in 1..Len(new) : 0 <= new[i].start /\ new[i].start < g
      /\ \A p \in 0..(g - 1) : Aligned(p) => \E i \in 1..Len(new) : new[i].start = p
  <2>1. Aligned(g)
    BY <1>4
  <2>2. QED BY ONLY g \in Nat, <1>2, <2>1, AsFetchedIs
<1>6. /\ \A i \in 1..Len(sent) : sent[i].start < 0
      /\ InOrder(sent)
  BY DEF BarsFit, SentIsPast, BarsInOrder, InOrder
<1>7. sent' = sent \o new
  BY <1>1, <1>2
<1>8. PICK s : s = sent'
  OBVIOUS
<1>9. PICK m, n \in Nat : m = Len(sent) /\ n = Len(new)
  BY <1>3, <1>5
<1>10. /\ s \in Seq(SentBars) /\ Len(s) = m + n
       /\ \A i \in 1..(m + n) : s[i] = IF i <= m THEN sent[i] ELSE new[i - m]
  <2>1. sent \in Seq(SentBars) /\ new \in Seq(SentBars)
    BY <1>3, <1>5
  <2>2. /\ sent \o new \in Seq(SentBars) /\ Len(sent \o new) = Len(sent) + Len(new)
        /\ \A i \in 1..Len(sent) + Len(new) :
             (sent \o new)[i] = IF i <= Len(sent) THEN sent[i] ELSE new[i - Len(sent)]
    BY ONLY <2>1, ConcatProperties
  <2>3. QED BY <1>7, <1>8, <1>9, <2>2
<1>11. /\ \A i \in 1..m : i \in 1..Len(s) /\ s[i] = sent[i]
       /\ \A i \in 1..n : m + i \in 1..Len(s) /\ s[m + i] = new[i]
  <2>1. /\ \A i \in 1..m : i \in 1..(m + n) /\ i <= m
        /\ \A i \in 1..n : m + i \in 1..(m + n) /\ ~(m + i <= m) /\ m + i - m = i
    OBVIOUS
  <2>2. \A i \in 1..m : i \in 1..Len(s) /\ s[i] = sent[i]
    BY <1>10, <2>1
  <2>3. ASSUME NEW i \in 1..n PROVE m + i \in 1..Len(s) /\ s[m + i] = new[i]
    BY <1>10, <2>1
  <2>4. QED BY <2>2, <2>3
<1>12. GapEnd' = GapEnd
  BY DEF GapEnd
<1>13. InOrder(s)
  <2>1. ASSUME NEW i \in 1..Len(sent), NEW j \in 1..Len(new)
        PROVE  sent[i].start < new[j].start
    <3>1. sent[i] \in SentBars /\ new[j] \in SentBars
      BY <1>3, <1>5
    <3>2. sent[i].start \in Int /\ new[j].start \in Int
      BY <3>1 DEF SentBars
    <3>3. QED BY <1>5, <1>6, <3>2
  <2>2. QED BY <1>3, <1>5, <1>6, <1>7, <1>8, <2>1, OrderedConcat
<1>14. \A i \in 1..Len(s) : s[i].start < g
  <2>1. ASSUME NEW i \in 1..m + n PROVE s[i].start < g
    <3>1. CASE i <= m
      <4>1. i \in 1..Len(sent) /\ s[i] = sent[i]
        BY <1>9, <1>10, <3>1
      <4>2. sent[i] \in SentBars /\ sent[i].start < 0
        BY <1>3, <1>6, <4>1
      <4>3. QED BY <4>1, <4>2 DEF SentBars
    <3>2. CASE ~(i <= m)
      <4>1. i - m \in 1..Len(new) /\ s[i] = new[i - m]
        BY <1>9, <1>10, <3>2, SMTT(30)
      <4>2. QED BY <1>5, <4>1
    <3>3. QED BY <3>1, <3>2
  <2>2. QED BY <1>10, <2>1
<1>15. Volume(s) = Volume(sent)
  <2>1. Volume(sent \o new) = Volume(sent) + Volume(new)
    BY <1>3, <1>5, VolumeConcat, BarsWeighed
  <2>2. Volume(sent) \in Nat
    BY <1>3, VolumeTyped, BarsWeighed
  <2>3. QED BY <1>5, <1>7, <1>8, <2>1, <2>2
<1>16. Queued(agg)' /\ BeginsAt(agg, GapEnd)' /\ Untouched(agg)' /\ NotOverdue'
  BY <1>12 DEF BarsFit, NotOverdue
<1>17. GapIsKnown'
  BY <1>4 DEF BarsFit, GapIsKnown
<1>18. SentIsPast' /\ BarsInOrder' /\ NothingYet'
  BY <1>1, <1>4, <1>8, <1>12, <1>13, <1>14 DEF SentIsPast, BarsInOrder, InOrder, NothingYet
<1>19. VolumeConserved'
  BY <1>8, <1>15 DEF BarsFit, VolumeConserved
<1>20. ToldIsKept'
  <2>1. ToldIsKept /\ told' = told /\ agg' = agg
    BY DEF BarsFit
  <2>2. QED BY <1>1, <1>8, <1>9, <1>11, <1>12, <2>1 DEF ToldIsKept
<1>21. BackfillIsWhole'
  <2>1. \A p \in market.periods : Aligned(p)
    BY DEF BarsFit, BackfillIsWhole
  <2>2. \A p \in 0..(g - 1) : Aligned(p) => \E i \in 1..Len(s) : s[i].start = p
    <3>1. ASSUME NEW p \in 0..(g - 1), Aligned(p) PROVE \E i \in 1..Len(s) : s[i].start = p
      <4>1. PICK i \in 1..n : new[i].start = p
        BY <1>5, <1>9, <3>1
      <4>2. QED BY <1>11, <4>1
    <3>2. QED BY <3>1
  <2>3. QED BY <1>1, <1>8, <1>12, <2>1, <2>2 DEF BackfillIsWhole
<1>22. BarsFit'
  BY <1>16, <1>17, <1>18, <1>19, <1>20, <1>21 DEF BarsFit
<1>23. ClientTyped'
  BY <1>3, <1>8, <1>10 DEF ClientTyped
<1>24. QED BY <1>22, <1>23

\* A fetch keeps what the client has, however it ends.
LEMMA FetchFits ==
  ASSUME Typed, BarsFit, Backfill
  PROVE  /\ ClientTyped' /\ BarsFit'
         /\ UNCHANGED <<envVars, supVars, controlVars>>
<1>1. /\ fetcher = "waiting" /\ UNCHANGED <<envVars, supVars, controlVars>>
      /\ UNCHANGED <<agg, held, told, unsent, gap>>
  BY DEF Backfill, FetchSucceeds, FetchFails, Answered
<1>2. UNCHANGED <<clock, market, phase, ticked, stopping, fault>>
  BY <1>1 DEF envVars, supVars, controlVars
<1>3. ASSUME UNCHANGED sent, fetcher' \in {"none", "waiting", "over"},
             handover' \in {handover, "Abandoned"}, handover' = "Abandoned" => handover # "none"
      PROVE  ClientTyped' /\ BarsFit'
  <2>1. Keeps(agg, agg')
    BY <1>1 DEF Keeps
  <2>2. gap # NoGap
    BY <1>1 DEF BarsFit, GapIsKnown
  <2>3. GapIsKnown'
    BY <1>1, <1>3, <2>2 DEF BarsFit, GapIsKnown
  <2>4. NotOverdue'
    BY <1>1, <1>2 DEF BarsFit, NotOverdue
  <2>5. \A q \in market'.periods : Aligned(q)
    BY <1>2 DEF BarsFit, BackfillIsWhole
  <2>6. BarsFit'
    BY <1>1, <1>2, <1>3, <2>1, <2>3, <2>4, <2>5, KeptFits
  <2>7. ClientTyped'
    BY <1>1, <1>3 DEF Typed, ClientTyped
  <2>8. QED BY <2>6, <2>7
<1>4. CASE FetchFails
  BY <1>1, <1>3, <1>4 DEF FetchFails
<1>5. CASE FetchSucceeds
  <2>1. fetcher' = "over" /\ SendsIfPending(GapPeriods)
    BY <1>5 DEF FetchSucceeds
  <2>2. CASE handover # "Pending"
    BY <1>1, <1>3, <2>1, <2>2 DEF SendsIfPending
  <2>3. CASE handover = "Pending"
    <3>1. gap # NoGap /\ gap[1] = 0 /\ GapEnd = gap[2]
      BY <2>3 DEF BarsFit, GapIsKnown, GapEnd
    <3>2. PICK g \in Nat : g = gap[2] /\ g = GapEnd
      BY <3>1, GapEndTyped DEF Typed
    <3>3. GapPeriods = [i \in 1..(g \div Step) |-> (i - 1) * Step]
      <4>1. (g - 0) \div Step = g \div Step
        OBVIOUS
      <4>2. PICK n \in Nat : n = g \div Step
        OBVIOUS
      <4>3. GapPeriods = [i \in 1..n |-> 0 + (i - 1) * Step]
        BY <3>1, <3>2, <4>1, <4>2 DEF GapPeriods
      <4>4. \A i \in 1..n : 0 + (i - 1) * Step = (i - 1) * Step
        OBVIOUS
      <4>5. QED BY <4>2, <4>3, <4>4
    <3>4. PICK n, w : n = g \div Step /\ w = GapPeriods
      OBVIOUS
    <3>5. DOMAIN w = 1..n /\ \A i \in 1..n : w[i] = (i - 1) * Step
      BY <3>3, <3>4
    <3>6. [i \in DOMAIN w |-> Bar(w[i], "backfill", 0)] = AsFetched(g)
      BY <3>4, <3>5 DEF AsFetched
    <3>7. sent' = sent \o AsFetched(GapEnd) /\ handover' = "Done"
      BY <2>1, <2>3, <3>2, <3>4, <3>6 DEF SendsIfPending
    <3>8. QED BY <1>1, <1>2, <2>1, <2>3, <3>7, FetchedFits
  <2>4. QED BY <2>2, <2>3
<1>6. QED BY <1>1, <1>4, <1>5 DEF Backfill

-----------------------------------------------------------------------------
(* Every step *)

\* What the market, the network, the supervisor and the run's control change.
RunTyped ==
  /\ clock \in 0..Duration /\ link \in {"up", "dead", "down"}
  /\ market.trade \in Nat /\ market.volume \in 0..MaxTrades /\ market.periods \subseteq Nat
  /\ wire \in Seq(Packets)
  /\ phase \in Phases /\ gen \in 1..MaxGeneration
  /\ phase = "backoff" => gen < MaxGeneration
  /\ fault \in BOOLEAN /\ stopping \in BOOLEAN

Fits == RunTyped /\ ClientTyped /\ BarsFit /\ FaultedUnlessWhole

\* The invariant, as what fits.
LEMMA InvFits == IInv <=> Fits
BY DEF IInv, Fits, Typed, RunTyped, ClientTyped

\* What a step asks of the time, if it leaves the client and the backfill alone.
InTime ==
  \/ stopping' \/ phase' \notin {"subscribing", "reading"}
  \/ /\ phase \in {"subscribing", "reading"} /\ clock' = clock /\ stopping' = stopping
     /\ phase' = "reading" /\ ticked' => phase = "reading" /\ ticked

\* What the network and the clock do in time keeps what the client has.
LEMMA QuietFits ==
  ASSUME IInv, UNCHANGED <<clientVars, taskVars>>,
         market' = market, fault => fault', InTime
  PROVE  ClientTyped' /\ BarsFit'
<1>1. Typed /\ BarsFit
  BY DEF IInv
<1>2. UNCHANGED <<agg, held, sent, told, unsent, fetcher, gap, handover>>
  BY DEF clientVars, taskVars
<1>3. Keeps(agg, agg')
  BY <1>2 DEF Keeps
<1>4. NotOverdue'
  BY <1>1, <1>3, TimeKept DEF InTime
<1>5. \A p \in market'.periods : Aligned(p)
  BY <1>1 DEF BarsFit, BackfillIsWhole
<1>6. QED BY <1>1, <1>2, <1>4, <1>5, AllKept

\* The clock keeps the invariant.
LEMMA TickFits ==
  ASSUME IInv, Tick
  PROVE  Fits'
<1>1. /\ clock < Duration /\ phase \notin {"subscribing", "connecting"}
      /\ phase = "reading" => ticked
      /\ clock' = clock + 1 /\ ticked' = FALSE
      /\ UNCHANGED <<market, link, wire, phase, gen, heard, summary, wakeAt,
                     clientVars, controlVars, taskVars>>
  BY DEF Tick
<1>2. UNCHANGED <<agg, held, sent, told, unsent, fetcher, gap, handover, fault, stopping>>
  BY <1>1 DEF clientVars, taskVars, controlVars
<1>3. Typed /\ BarsFit /\ FaultedUnlessWhole
  BY DEF IInv
<1>4. RunTyped'
  BY <1>1, <1>2, <1>3 DEF Typed, RunTyped
<1>5. NotOverdue'
  <2>1. SUFFICES ASSUME phase = "reading", ~stopping, NEW i \in 1..Len(Opens(agg))
                 PROVE  clock + 1 <= Due(Opens(agg)[i])
    BY <1>1, <1>2 DEF NotOverdue
  <2>2. clock < Due(Opens(agg)[i])
    BY <1>1, <1>3, <2>1 DEF BarsFit, NotOverdue
  <2>3. Opens(agg) \in Seq(Bars)
    BY <1>3, OpensTyped DEF Typed
  <2>4. Opens(agg)[i] \in Bars
    BY <2>3
  <2>5. Due(Opens(agg)[i]) \in Int /\ clock \in Int
    BY <1>3, <2>4 DEF Bars, Due, Typed
  <2>6. QED BY <2>2, <2>5
<1>6. \A p \in market'.periods : Aligned(p)
  BY <1>1, <1>3 DEF BarsFit, BackfillIsWhole
<1>7. ClientTyped' /\ BarsFit'
  BY <1>2, <1>3, <1>5, <1>6, AllKept
<1>8. FaultedUnlessWhole'
  BY <1>1, <1>2, <1>3 DEF FaultedUnlessWhole
<1>9. QED BY <1>4, <1>7, <1>8 DEF Fits

\* A trade at the exchange keeps it.
LEMMA TradeFits ==
  ASSUME IInv, Trade
  PROVE  Fits'
<1>1. /\ market.volume < MaxTrades
      /\ UNCHANGED <<clock, link, wire, supVars, clientVars, controlVars, taskVars>>
  BY DEF Trade
<1>2. UNCHANGED <<agg, held, sent, told, unsent, fetcher, gap, handover, fault, stopping,
                  clock, link, wire, phase, gen, heard, summary, wakeAt, ticked>>
  BY <1>1 DEF clientVars, taskVars, controlVars, supVars
<1>3. Typed /\ BarsFit /\ FaultedUnlessWhole
  BY DEF IInv
<1>4. PICK at : /\ at \in {Now, Now - 1} /\ at >= 0
                /\ market' = [trade |-> at, volume |-> market.volume + 1,
                              periods |-> market.periods \cup {Bucket(at)}]
  BY DEF Trade
<1>5. at \in Nat
  BY <1>3, <1>4 DEF Now, Typed
<1>6. Bucket(at) \in Nat /\ Aligned(Bucket(at))
  BY <1>5, BucketFits
<1>7. RunTyped'
  BY <1>1, <1>2, <1>3, <1>4, <1>5, <1>6 DEF Typed, RunTyped
<1>8. \A p \in market'.periods : Aligned(p)
  BY <1>3, <1>4, <1>6 DEF BarsFit, BackfillIsWhole
<1>9. NotOverdue'
  BY <1>2, <1>3 DEF BarsFit, NotOverdue
<1>10. ClientTyped' /\ BarsFit'
  BY <1>2, <1>3, <1>8, <1>9, AllKept
<1>11. FaultedUnlessWhole'
  BY <1>2, <1>3 DEF FaultedUnlessWhole, Fresh
<1>12. QED BY <1>7, <1>10, <1>11 DEF Fits

\* A packet on its way, or a broken link, keeps it.
LEMMA NetworkFits ==
  ASSUME IInv, Send \/ LinkBreaks
  PROVE  Fits'
<1>1. /\ UNCHANGED <<clock, market, supVars, clientVars, controlVars, taskVars>>
      /\ link' \in {"up", "dead", "down"}
  BY DEF Send, LinkBreaks
<1>2. UNCHANGED <<fault, stopping, phase, gen, heard, summary, wakeAt, ticked>>
  BY <1>1 DEF controlVars, supVars
<1>3. Typed /\ BarsFit /\ FaultedUnlessWhole
  BY DEF IInv
<1>4. wire' \in Seq(Packets)
  <2>1. CASE LinkBreaks
    <3>1. wire' = <<>>
      BY <2>1 DEF LinkBreaks
    <3>2. QED BY <3>1
  <2>2. CASE Send
    <3>1. PICK p : p = [ts |-> Now, trade |-> market.trade, volume |-> market.volume]
      OBVIOUS
    <3>2. Now \in Nat /\ market.trade \in Nat /\ market.volume \in 0..MaxTrades
      BY <1>3 DEF Typed, Now
    <3>3. p \in Packets
      BY <3>1, <3>2 DEF Packets
    <3>4. wire' = Append(wire, p) /\ wire \in Seq(Packets)
      BY <1>3, <2>2, <3>1 DEF Send, Typed
    <3>5. QED BY <3>3, <3>4
  <2>3. QED BY <2>1, <2>2
<1>5. RunTyped'
  BY <1>1, <1>2, <1>3, <1>4 DEF Typed, RunTyped
<1>6. InTime
  BY <1>1, <1>2 DEF InTime
<1>7. ClientTyped' /\ BarsFit'
  BY <1>1, <1>2, <1>6, QuietFits
<1>8. FaultedUnlessWhole'
  BY <1>1, <1>2, <1>3 DEF FaultedUnlessWhole, Fresh
<1>9. QED BY <1>5, <1>7, <1>8 DEF Fits

\* The end of the supervisor.
LEMMA EndDoes ==
  ASSUME NEW error \in BOOLEAN, NEW fresh, Ends(error, fresh), stopping \in BOOLEAN, fault \in BOOLEAN
  PROVE  /\ phase' = "ended" /\ fault' \in BOOLEAN /\ stopping' \in BOOLEAN /\ (fault => fault')
         /\ stopping => stopping'
         /\ ~stopping' => ~error /\ fresh
<1>1. CASE error \/ (~fresh /\ ~stopping)
  BY <1>1, Zenon DEF Ends, Fail
<1>2. CASE ~(error \/ (~fresh /\ ~stopping))
  BY <1>2, Zenon DEF Ends, controlVars
<1>3. QED BY <1>1, <1>2

\* Supervisor steps in which the client has no part.
LEMMA SubscribeFits ==
  ASSUME IInv, Subscribe
  PROVE  Fits'
<1>1. /\ phase = "subscribing"
      /\ UNCHANGED <<envVars, gen, wakeAt, clientVars, taskVars>>
  BY DEF Subscribe
<1>2. Typed /\ FaultedUnlessWhole /\ stopping \in BOOLEAN /\ fault \in BOOLEAN
  BY DEF IInv, Typed
<1>3. UNCHANGED <<clock, market, link, wire>>
  BY <1>1 DEF envVars
<1>4. CASE phase' = "reading" /\ ticked' = FALSE /\ UNCHANGED controlVars
  <2>1. fault' = fault /\ stopping' = stopping
    BY <1>4 DEF controlVars
  <2>2. RunTyped'
    BY <1>1, <1>2, <1>3, <1>4, <2>1 DEF Typed, RunTyped, Phases
  <2>3. InTime
    BY <1>1, <1>3, <1>4, <2>1 DEF InTime
  <2>4. FaultedUnlessWhole'
    BY <1>1, <1>2, <1>4, <2>1 DEF FaultedUnlessWhole
  <2>5. QED BY <1>1, <1>3, <2>1, <2>2, <2>3, <2>4, QuietFits DEF Fits
<1>5. CASE Ends(TRUE, FALSE)
  <2>1. /\ phase' = "ended" /\ fault' \in BOOLEAN /\ stopping' = TRUE /\ (fault => fault')
    BY <1>2, <1>5, EndDoes, Zenon DEF Ends, Fail
  <2>2. RunTyped'
    BY <1>1, <1>2, <1>3, <2>1 DEF Typed, RunTyped, Phases
  <2>3. InTime /\ FaultedUnlessWhole'
    BY <2>1 DEF InTime, FaultedUnlessWhole
  <2>4. QED BY <1>1, <1>3, <2>1, <2>2, <2>3, QuietFits DEF Fits
<1>6. QED BY <1>4, <1>5 DEF Subscribe

\* The stream ends with an error, or the run is faulted while it is read.
LEMMA StopsFits ==
  ASSUME IInv, UNCHANGED <<clock, market, clientVars, taskVars>>,
         link' \in {"up", "dead", "down"}, wire' \in Seq(Packets),
         phase' \in Phases, gen' = gen, phase' = "backoff" => gen < MaxGeneration,
         fault' \in BOOLEAN, stopping' = TRUE, fault => fault'
  PROVE  Fits'
<1>1. Typed
  BY DEF IInv
<1>2. RunTyped'
  BY <1>1 DEF Typed, RunTyped
<1>3. InTime /\ FaultedUnlessWhole'
  BY DEF InTime, FaultedUnlessWhole
<1>4. QED BY <1>2, <1>3, QuietFits DEF Fits

\* What is received and tells nothing of trades keeps it.
LEMMA ReceivesFits ==
  ASSUME IInv, ReceiveError \/ ReceiveHeartbeat \/ ReceiveOneSided
  PROVE  Fits'
<1>1. /\ phase = "reading" /\ UNCHANGED <<envVars, gen, clientVars, taskVars>>
  BY DEF ReceiveError, ReceiveHeartbeat, ReceiveOneSided, Arrives
<1>2. /\ UNCHANGED <<clock, market, link, wire>>
      /\ link \in {"up", "dead", "down"} /\ wire \in Seq(Packets)
      /\ fault \in BOOLEAN /\ stopping \in BOOLEAN
      /\ Typed /\ FaultedUnlessWhole
  BY <1>1 DEF envVars, IInv, Typed
<1>3. CASE ReceiveError
  <2>1. Ends(TRUE, FALSE)
    BY <1>3 DEF ReceiveError
  <2>2. /\ phase' = "ended" /\ fault' \in BOOLEAN /\ stopping' = TRUE /\ (fault => fault')
    BY <1>2, <2>1, EndDoes, Zenon DEF Ends, Fail
  <2>3. phase' \in Phases
    BY <2>2 DEF Phases
  <2>4. QED BY <1>1, <1>2, <2>2, <2>3, StopsFits
<1>4. CASE ReceiveOneSided
  <2>1. phase' = phase /\ Fail
    BY <1>4 DEF ReceiveOneSided
  <2>2. fault' = TRUE /\ stopping' = TRUE
    BY <2>1 DEF Fail
  <2>3. phase' \in Phases
    BY <1>1, <2>1 DEF Phases
  <2>4. fault' \in BOOLEAN
    BY <2>2, Zenon
  <2>5. QED BY <1>1, <1>2, <2>1, <2>2, <2>3, <2>4, StopsFits
<1>5. CASE ReceiveHeartbeat
  <2>1. UNCHANGED <<phase, ticked, summary, controlVars>>
    BY <1>5 DEF ReceiveHeartbeat
  <2>2. fault' = fault /\ stopping' = stopping
    BY <2>1 DEF controlVars
  <2>3. RunTyped'
    BY <1>1, <1>2, <2>1, <2>2 DEF Typed, RunTyped
  <2>4. InTime
    BY <1>1, <1>2, <2>1, <2>2 DEF InTime
  <2>5. FaultedUnlessWhole'
    BY <1>1, <1>2, <2>1, <2>2 DEF FaultedUnlessWhole
  <2>6. QED BY <1>1, <1>2, <2>2, <2>3, <2>4, <2>5, QuietFits DEF Fits
<1>6. QED BY <1>3, <1>4, <1>5

\* A lost connection keeps it.
LEMMA LosesFits ==
  ASSUME IInv, LosesConnection
  PROVE  Fits'
<1>1. /\ link' = "down" /\ fault' = TRUE /\ stopping' = TRUE
      /\ UNCHANGED <<clock, market, wire, gen, clientVars, taskVars>>
  BY DEF LosesConnection, GapFaults, Fail
<1>2. wire \in Seq(Packets) /\ gen \in 1..MaxGeneration
  BY DEF IInv, Typed
<1>3. phase' \in Phases /\ (phase' = "backoff" => gen < MaxGeneration)
  <2>1. CASE clock >= Duration \/ gen >= MaxGeneration
    BY <2>1 DEF LosesConnection, Phases
  <2>2. CASE ~(clock >= Duration \/ gen >= MaxGeneration)
    BY <1>2, <2>2 DEF LosesConnection, Phases
  <2>3. QED BY <2>1, <2>2
<1>4. fault' \in BOOLEAN
  BY <1>1, Zenon
<1>5. QED BY <1>1, <1>2, <1>3, <1>4, StopsFits

\* The end of a pause keeps it.
LEMMA WakesFits ==
  ASSUME IInv, Wakes
  PROVE  Fits'
<1>1. /\ phase = "backoff" /\ UNCHANGED <<envVars, clientVars, taskVars>>
  BY DEF Wakes
<1>2. /\ UNCHANGED <<clock, market, link, wire>>
      /\ Typed /\ FaultedUnlessWhole /\ fault \in BOOLEAN /\ stopping \in BOOLEAN
  BY <1>1 DEF envVars, IInv, Typed
<1>3. stopping
  BY <1>1, <1>2 DEF FaultedUnlessWhole
<1>4. /\ phase' \in {"ended", "connecting"} /\ gen' \in 1..MaxGeneration
      /\ fault' \in BOOLEAN /\ stopping' = TRUE /\ (fault => fault')
  <2>1. CASE clock = Duration
    <3>1. Ends(FALSE, FALSE) /\ gen' = gen
      BY <2>1 DEF Wakes
    <3>2. /\ phase' = "ended" /\ fault' \in BOOLEAN /\ stopping' \in BOOLEAN
          /\ (fault => fault') /\ (stopping => stopping')
      BY <1>2, <3>1, EndDoes
    <3>3. QED BY <1>2, <1>3, <3>1, <3>2 DEF Typed
  <2>2. CASE clock # Duration
    <3>1. phase' = "connecting" /\ gen' = gen + 1 /\ UNCHANGED controlVars
      BY <2>2 DEF Wakes
    <3>2. gen \in 1..MaxGeneration /\ gen < MaxGeneration
      BY <1>1, <1>2 DEF Typed
    <3>3. gen + 1 \in 1..MaxGeneration
      BY <3>2
    <3>4. fault' = fault /\ stopping' = stopping
      BY <3>1 DEF controlVars
    <3>5. QED BY <1>2, <1>3, <3>1, <3>3, <3>4, Zenon
  <2>3. QED BY <2>1, <2>2
<1>5. RunTyped'
  BY <1>2, <1>4 DEF Typed, RunTyped, Phases
<1>6. InTime /\ FaultedUnlessWhole'
  BY <1>4 DEF InTime, FaultedUnlessWhole
<1>7. QED BY <1>1, <1>2, <1>4, <1>5, <1>6, QuietFits DEF Fits

\* An attempt to connect keeps it.
LEMMA ConnectFits ==
  ASSUME IInv, Connect
  PROVE  Fits'
<1>1. /\ phase = "connecting"
      /\ UNCHANGED <<clock, market, gen, clientVars, taskVars>>
  BY DEF Connect
<1>2. Typed /\ FaultedUnlessWhole /\ fault \in BOOLEAN /\ stopping \in BOOLEAN
  BY DEF IInv, Typed
<1>3. stopping
  BY <1>1, <1>2 DEF FaultedUnlessWhole
<1>4. /\ phase' \in {"subscribing", "ended"} /\ fault' \in BOOLEAN /\ stopping' = TRUE
      /\ (fault => fault') /\ link' \in {"up", "dead", "down"} /\ wire' \in Seq(Packets)
  <2>1. CASE phase' = "subscribing" /\ link' = "up" /\ wire' = <<>> /\ UNCHANGED controlVars
    <3>1. fault' = fault /\ stopping' = stopping
      BY <2>1 DEF controlVars
    <3>2. wire' \in Seq(Packets)
      BY <2>1
    <3>3. QED BY <1>2, <1>3, <2>1, <3>1, <3>2, Zenon
  <2>2. CASE Ends(TRUE, FALSE) /\ UNCHANGED <<link, wire>>
    <3>1. /\ phase' = "ended" /\ fault' \in BOOLEAN /\ stopping' \in BOOLEAN
          /\ (fault => fault') /\ (stopping => stopping')
      BY <1>2, <2>2, EndDoes
    <3>2. QED BY <1>2, <1>3, <2>2, <3>1 DEF Typed
  <2>3. QED BY <2>1, <2>2 DEF Connect
<1>5. phase' \in Phases /\ phase' # "backoff"
  BY <1>4 DEF Phases
<1>6. QED BY <1>1, <1>4, <1>5, StopsFits

\* The end of the run keeps it.
LEMMA DurationFits ==
  ASSUME IInv, DurationReached
  PROVE  Fits'
<1>1. /\ phase = "reading" /\ clock = Duration /\ Ends(FALSE, Fresh)
      /\ UNCHANGED <<envVars, gen, heard, summary, clientVars, taskVars>>
  BY DEF DurationReached
<1>2. /\ UNCHANGED <<clock, market, link, wire>>
      /\ Typed /\ FaultedUnlessWhole /\ fault \in BOOLEAN /\ stopping \in BOOLEAN
  BY <1>1 DEF envVars, IInv, Typed
<1>3. /\ phase' = "ended" /\ fault' \in BOOLEAN /\ stopping' \in BOOLEAN /\ (fault => fault')
      /\ (stopping => stopping') /\ (~stopping' => Fresh)
  <2>1. CASE ~Fresh /\ ~stopping
    BY <1>1, <2>1, Zenon DEF Ends, Fail
  <2>2. CASE Fresh \/ stopping
    BY <1>1, <1>2, <2>2, Zenon DEF Ends, controlVars
  <2>3. QED BY <2>1, <2>2
<1>4. RunTyped'
  BY <1>1, <1>2, <1>3 DEF Typed, RunTyped, Phases
<1>5. InTime
  BY <1>3 DEF InTime
<1>6. FaultedUnlessWhole'
  <2>1. SUFFICES ASSUME ~stopping'
                 PROVE  gen' = 1 /\ phase' = "ended" /\ clock' = Duration /\ Fresh'
    BY DEF FaultedUnlessWhole
  <2>2. ~stopping /\ Fresh
    BY <1>2, <1>3, <2>1
  <2>3. Fresh'
    BY <1>1, <1>2, <2>2 DEF Fresh
  <2>4. QED BY <1>1, <1>2, <1>3, <2>2, <2>3 DEF FaultedUnlessWhole
<1>7. QED BY <1>1, <1>2, <1>3, <1>4, <1>5, <1>6, QuietFits DEF Fits

\* A stop of the feed keeps it.
LEMMA StopFits ==
  ASSUME IInv, Stop \/ Cancel
  PROVE  Fits'
<1>1. /\ UNCHANGED <<clock, market, link, wire, gen, clientVars, taskVars, fault>>
      /\ stopping' = TRUE
      /\ phase' = phase \/ phase' = "cancelled"
  <2>1. CASE Stop
    BY <2>1 DEF Stop, envVars, supVars
  <2>2. CASE Cancel
    <3>1. stopping \in BOOLEAN /\ stopping
      BY <2>2 DEF Cancel, IInv, Typed
    <3>2. QED BY <2>2, <3>1 DEF Cancel, envVars, controlVars
  <2>3. QED BY <2>1, <2>2
<1>2. phase' \in Phases /\ (phase' = "backoff" => gen < MaxGeneration)
  BY <1>1 DEF IInv, Typed, Phases
<1>3. /\ link' \in {"up", "dead", "down"} /\ wire' \in Seq(Packets) /\ fault' \in BOOLEAN
  BY <1>1, Zenon DEF IInv, Typed
<1>4. QED BY <1>1, <1>2, <1>3, StopsFits

\* Supervisor steps in which the client has a part.
LEMMA ClockEventFits ==
  ASSUME IInv, ClockEvent
  PROVE  Fits'
<1>1. /\ OnClock /\ phase = "reading"
      /\ UNCHANGED <<envVars, phase, gen, heard, summary, wakeAt>>
  BY DEF ClockEvent
<1>2. /\ UNCHANGED <<clock, market, link, wire>>
      /\ Typed /\ BarsFit /\ FaultedUnlessWhole
  BY <1>1 DEF envVars, IInv
<1>3. ClientTyped' /\ BarsFit' /\ fault' = fault /\ stopping' = stopping
  BY <1>1, <1>2, ClockFits
<1>4. RunTyped'
  BY <1>1, <1>2, <1>3 DEF Typed, RunTyped
<1>5. FaultedUnlessWhole'
  BY <1>1, <1>2, <1>3 DEF FaultedUnlessWhole
<1>6. QED BY <1>3, <1>4, <1>5 DEF Fits

\* A packet that is received keeps it.
LEMMA ReceivePacketFits ==
  ASSUME IInv, ReceivePacket
  PROVE  Fits'
<1>1. /\ phase = "reading" /\ wire # <<>> /\ wire' = Tail(wire) /\ OnPacket(Head(wire))
      /\ UNCHANGED <<clock, market, link, phase, gen, wakeAt, ticked>>
  BY DEF ReceivePacket
<1>2. Typed /\ BarsFit /\ FaultedUnlessWhole /\ wire \in Seq(Packets)
  BY DEF IInv, Typed
<1>3. PICK p \in Packets : p = Head(wire)
  BY <1>1, <1>2
<1>4. wire' \in Seq(Packets)
  BY <1>1, <1>2
<1>5. ClientTyped' /\ BarsFit' /\ fault' \in BOOLEAN /\ stopping' \in BOOLEAN
      /\ (stopping => stopping')
  <2>1. OnPacket(p) /\ UNCHANGED <<clock, market, phase, ticked>>
    BY <1>1, <1>3
  <2>2. QED BY <1>2, <2>1, PacketFits
<1>6. RunTyped'
  BY <1>1, <1>2, <1>4, <1>5 DEF Typed, RunTyped
<1>7. FaultedUnlessWhole'
  BY <1>1, <1>2, <1>5 DEF FaultedUnlessWhole
<1>8. QED BY <1>5, <1>6, <1>7 DEF Fits

\* A step of the fetch keeps it.
LEMMA BackfillFits ==
  ASSUME IInv, Backfill
  PROVE  Fits'
<1>1. Typed /\ BarsFit /\ FaultedUnlessWhole
  BY DEF IInv
<1>2. ClientTyped' /\ BarsFit' /\ UNCHANGED <<envVars, supVars, controlVars>>
  BY <1>1, FetchFits
<1>3. UNCHANGED <<clock, market, link, wire, phase, gen, summary, fault, stopping>>
  BY <1>2 DEF envVars, supVars, controlVars
<1>4. RunTyped'
  BY <1>1, <1>3 DEF Typed, RunTyped
<1>5. FaultedUnlessWhole'
  BY <1>1, <1>3 DEF FaultedUnlessWhole, Fresh
<1>6. QED BY <1>2, <1>4, <1>5 DEF Fits

\* A step that changes nothing keeps it.
LEMMA StutterFits ==
  ASSUME IInv, UNCHANGED vars
  PROVE  Fits'
<1>1. /\ Typed /\ BarsFit /\ FaultedUnlessWhole
      /\ UNCHANGED <<clock, market, link, wire, phase, gen, ticked, summary, fault, stopping>>
      /\ UNCHANGED <<agg, held, sent, told, unsent, fetcher, gap, handover>>
  BY DEF IInv, vars, envVars, supVars, clientVars, controlVars, taskVars
<1>2. RunTyped'
  BY <1>1 DEF Typed, RunTyped
<1>3. NotOverdue' /\ \A p \in market'.periods : Aligned(p)
  BY <1>1 DEF BarsFit, NotOverdue, BackfillIsWhole
<1>4. ClientTyped' /\ BarsFit'
  BY <1>1, <1>3, AllKept
<1>5. FaultedUnlessWhole'
  BY <1>1 DEF FaultedUnlessWhole, Fresh
<1>6. QED BY <1>2, <1>4, <1>5 DEF Fits

\* The invariant holds when the run begins, ...
LEMMA InitFits ==
  ASSUME Init
  PROVE  Fits
<1>1. PICK a : a = NewAggregator(0)
  OBVIOUS
<1>2. /\ agg = a /\ a.closing = <<>> /\ a.current = NoBar /\ a.lastClose = 0 /\ a.started = FALSE
      /\ a.carry = 0 /\ a.gap = NoGap
  BY <1>1 DEF Init, NewAggregator
<1>3. a \in Aggregators
  <2>1. <<>> \in Seq(Bars) /\ Unseen \in Int /\ 0 \in Nat
    BY DEF Unseen
  <2>2. QED BY <1>1, <2>1, Zenon DEF NewAggregator, Aggregators
<1>4. Opens(a) = <<>> /\ Len(Opens(a)) = 0
  BY <1>2 DEF Opens
<1>5. PICK b : b = Bar(-Step, "warmup", 0)
  OBVIOUS
<1>6. b \in SentBars /\ b.start < 0 /\ b.volume = 0
  BY <1>5 DEF Bar, SentBars
<1>7. sent = <<b>>
  BY <1>5 DEF Init
<1>8. sent \in Seq(SentBars) /\ Len(sent) = 1 /\ sent[1] = b
  BY <1>6, <1>7
<1>9. ClientTyped
  <2>1. held \in BOOLEAN
    BY Zenon DEF Init
  <2>2. told \subseteq Nat /\ unsent \in Int
    BY DEF Init
  <2>3. /\ fetcher \in {"none", "waiting", "over"} /\ gap \in {NoGap} \cup (Nat \X Nat)
        /\ handover \in {"none", "Pending", "Done", "Abandoned"}
    BY DEF Init
  <2>4. QED BY <1>2, <1>3, <1>8, <2>1, <2>2, <2>3 DEF ClientTyped
<1>10. RunTyped
  <2>1. fault \in BOOLEAN /\ stopping \in BOOLEAN
    BY Zenon DEF Init
  <2>2. wire \in Seq(Packets) /\ link \in {"up", "dead", "down"}
    BY DEF Init
  <2>3. market.trade \in Nat /\ market.volume \in 0..MaxTrades /\ market.periods \subseteq Nat
    BY DEF Init
  <2>4. phase \in Phases /\ phase # "backoff" /\ gen \in 1..MaxGeneration /\ clock \in 0..Duration
    BY DEF Init, Phases
  <2>5. QED BY <2>1, <2>2, <2>3, <2>4 DEF RunTyped
<1>11. FaultedUnlessWhole
  BY DEF Init, FaultedUnlessWhole
<1>12. Volume(sent) = 0
  <2>1. Volumes(sent) \in Seq(Int) /\ Volume(sent) = Total(Volumes(sent))
    BY <1>8, VolumeTyped, BarsWeighed
  <2>2. \A i \in 1..Len(Volumes(sent)) : Volumes(sent)[i] = 0
    BY <1>6, <1>8, VolumesAre
  <2>3. QED BY <2>1, <2>2, TotalZeros
<1>13. GapEnd = 0
  BY DEF Init, GapEnd
<1>14. Queued(a) /\ BeginsAt(a, 0) /\ Untouched(a)
  <2>1. Aligned(0)
    BY DEF Aligned
  <2>2. QED BY <1>2, <1>4, <2>1 DEF Queued, BeginsAt, Untouched
<1>15. GapIsKnown
  BY <1>2 DEF Init, GapIsKnown
<1>16. SentIsPast /\ BarsInOrder
  BY <1>2, <1>6, <1>8 DEF SentIsPast, BarsInOrder
<1>17. NothingYet /\ VolumeConserved /\ ToldIsKept /\ BackfillIsWhole
  BY <1>2, <1>12 DEF Init, NothingYet, VolumeConserved, ToldIsKept, BackfillIsWhole
<1>18. NotOverdue
  BY <1>2, <1>4 DEF NotOverdue
<1>19. BarsFit
  BY <1>2, <1>13, <1>14, <1>15, <1>16, <1>17, <1>18 DEF BarsFit
<1>20. QED BY <1>9, <1>10, <1>11, <1>19 DEF Fits

\* ... and every step keeps it.
LEMMA StepFits ==
  ASSUME IInv, [Next]_vars
  PROVE  IInv'
<1>1. Fits'
  <2>1. CASE Supervisor
    <3>1. CASE Subscribe
      BY <3>1, SubscribeFits
    <3>2. CASE ClockEvent
      BY <3>2, ClockEventFits
    <3>3. CASE ReceiveError \/ ReceiveHeartbeat \/ ReceiveOneSided
      BY <3>3, ReceivesFits
    <3>4. CASE ReceivePacket
      BY <3>4, ReceivePacketFits
    <3>5. CASE LosesConnection
      BY <3>5, LosesFits
    <3>6. CASE Wakes
      BY <3>6, WakesFits
    <3>7. CASE Connect
      BY <3>7, ConnectFits
    <3>8. CASE DurationReached
      BY <3>8, DurationFits
    <3>9. QED BY <2>1, <3>1, <3>2, <3>3, <3>4, <3>5, <3>6, <3>7, <3>8 DEF Supervisor
  <2>2. CASE Tick
    BY <2>2, TickFits
  <2>3. CASE Trade
    BY <2>3, TradeFits
  <2>4. CASE Send \/ LinkBreaks
    BY <2>4, NetworkFits
  <2>5. CASE Stop \/ Cancel
    BY <2>5, StopFits
  <2>6. CASE Backfill
    BY <2>6, BackfillFits
  <2>7. CASE UNCHANGED vars
    BY <2>7, StutterFits
  <2>8. QED BY <2>1, <2>2, <2>3, <2>4, <2>5, <2>6, <2>7 DEF Next
<1>2. QED BY <1>1 DEF IInv, Fits, Typed, RunTyped, ClientTyped

\* The inductive invariant.
THEOREM Invariance == Spec => []IInv
<1>1. Init => IInv
  BY InitFits, InvFits
<1>2. IInv /\ [Next]_vars => IInv'
  BY StepFits
<1>3. QED BY <1>1, <1>2, PTL DEF Spec

-----------------------------------------------------------------------------
(* The properties *)

\* The invariant gives the types.
LEMMA InvTyped == ASSUME IInv PROVE TypeOK
<1>1. /\ Typed /\ Queued(agg)
  BY DEF IInv, BarsFit
<1>2. PICK a : a = agg
  OBVIOUS
<1>3. /\ a \in Aggregators /\ a.closing \in Seq(Bars) /\ a.current \in Bars \cup {NoBar}
      /\ a.carry \in Nat /\ a.late \in Nat
  BY <1>1, <1>2 DEF Typed, Aggregators
<1>4. Bars \subseteq AnyBar /\ NoBar \in AnyBar
  <2>1. NoBar \in AnyBar
    <3>1. -1 \in Int /\ 0 \in Nat
      OBVIOUS
    <3>2. QED BY <3>1, Zenon DEF NoBar, AnyBar
  <2>2. Bars \subseteq AnyBar
    BY DEF Bars, AnyBar
  <2>3. QED BY <2>1, <2>2
<1>5. \A i \in 1..Len(a.closing) : a.closing[i] \in AnyBar
  BY <1>3, <1>4
<1>6. PICK n, q : n = Len(a.closing) /\ q = Opens(a)
  OBVIOUS
<1>7. /\ n \in Nat /\ Len(q) = IF a.current = NoBar THEN n ELSE n + 1
      /\ \A i \in 1..n : q[i] = a.closing[i]
      /\ a.current # NoBar => q[n + 1] = a.current
  BY <1>3, <1>6, OpensTyped
<1>8. \A i, j \in 1..Len(q) : i < j => q[i].start < q[j].start
  BY <1>1, <1>2, <1>6 DEF Queued
<1>9. ASSUME NEW i \in 1..n
      PROVE  /\ \A j \in 1..i - 1 : a.closing[j].start < a.closing[i].start
             /\ a.current # NoBar => a.closing[i].start < a.current.start
  <2>1. ASSUME NEW j \in 1..i - 1 PROVE a.closing[j].start < a.closing[i].start
    <3>1. j \in 1..n /\ j \in 1..Len(q) /\ i \in 1..Len(q) /\ j < i
      BY <1>7
    <3>2. QED BY <1>7, <1>8, <3>1
  <2>2. ASSUME a.current # NoBar PROVE a.closing[i].start < a.current.start
    <3>1. i \in 1..Len(q) /\ n + 1 \in 1..Len(q) /\ i < n + 1
      BY <1>7, <2>2
    <3>2. QED BY <1>7, <1>8, <2>2, <3>1
  <2>3. QED BY <2>1, <2>2
<1>10. DOMAIN a.closing = 1..n
  BY <1>3, <1>6
<1>11. \A i \in DOMAIN a.closing :
         /\ a.closing[i] \in AnyBar
         /\ \A j \in 1..i - 1 : a.closing[j].start < a.closing[i].start
         /\ a.current # NoBar => a.closing[i].start < a.current.start
  BY <1>5, <1>6, <1>9, <1>10
<1>12. \A i \in DOMAIN wire : wire[i].volume \in 0..MaxTrades
  <2>1. \A i \in DOMAIN wire : wire[i] \in Packets
    BY <1>1 DEF Typed
  <2>2. QED BY <2>1 DEF Packets
<1>13. a.current \in AnyBar
  BY <1>3, <1>4
<1>14. QED BY <1>1, <1>2, <1>3, <1>11, <1>12, <1>13 DEF Typed, TypeOK

\* The invariant gives that every hole in what was sent is known.
LEMMA InvHoles == ASSUME IInv PROVE HolesAreKnown
<1>1. /\ Typed /\ ToldIsKept /\ BackfillIsWhole /\ NotOverdue /\ GapIsKnown
  BY DEF IInv, BarsFit
<1>2. PICK g \in Nat : g = GapEnd
  BY <1>1, GapEndTyped DEF Typed
<1>3. SUFFICES ASSUME phase = "reading", ~stopping,
                      NEW p \in told \cup (market.periods \cap 0..(GapEnd - 1)),
                      p + Step + Grace < clock
               PROVE  \/ \E i \in DOMAIN sent : sent[i].start = p
                      \/ gap # NoGap /\ p < gap[2] /\ handover # "Done"
  BY DEF HolesAreKnown, GapEnd
<1>4. p \in Nat /\ Aligned(p) /\ DOMAIN sent = 1..Len(sent) /\ clock \in Nat
  BY <1>1, <1>3 DEF Typed, ToldIsKept, BackfillIsWhole
<1>5. CASE p < GapEnd
  <2>1. gap # NoGap /\ p < gap[2]
    BY <1>4, <1>5 DEF GapEnd
  <2>2. p \in 0..(GapEnd - 1)
    BY <1>2, <1>4, <1>5
  <2>3. handover = "Done" => \E i \in 1..Len(sent) : sent[i].start = p
    BY <1>1, <1>4, <2>2 DEF BackfillIsWhole
  <2>4. QED BY <1>4, <2>1, <2>3
<1>6. CASE ~(p < GapEnd)
  <2>1. p \in told
    BY <1>2, <1>3, <1>4, <1>6
  <2>2. CASE \E i \in 1..Len(Opens(agg)) : Opens(agg)[i].start = p
    <3>1. PICK i \in 1..Len(Opens(agg)) : Opens(agg)[i].start = p
      BY <2>2
    <3>2. clock <= Due(Opens(agg)[i])
      BY <1>1, <1>3, <3>1 DEF NotOverdue
    <3>3. QED BY <1>3, <1>4, <3>1, <3>2 DEF Due
  <2>3. QED BY <1>1, <1>4, <1>6, <2>1, <2>2 DEF ToldIsKept
<1>7. QED BY <1>5, <1>6

\* Every variable keeps its type; the bars that wait out their grace are in order and
\* before the current one.
THEOREM TypeCorrect == Spec => []TypeOK
BY Invariance, InvTyped, PTL

\* Warm-up, backfill and stream together give the strategy every bar at most once and
\* in order.
THEOREM BarsInOrderHolds == Spec => []BarsInOrder
<1>1. IInv => BarsInOrder
  BY DEF IInv, BarsFit
<1>2. QED BY <1>1, Invariance, PTL

\* Every traded lot the stream told is in one bar, sent or open, or waits to be
\* carried, unless the run is faulted.
THEOREM VolumeConservedHolds == Spec => []VolumeConserved
<1>1. IInv => VolumeConserved
  BY DEF IInv, BarsFit
<1>2. QED BY <1>1, Invariance, PTL

\* Every period with a trade told in time has its bar when its grace is over, and a
\* period before the stream's first bar has its bar unless the backfill gave up.
THEOREM HolesAreKnownHolds == Spec => []HolesAreKnown
BY Invariance, InvHoles, PTL

\* A run that goes on without a fault had one unbroken connection; a stream that
\* ended without a fault ended on time and fresh.
THEOREM FaultedUnlessWholeHolds == Spec => []FaultedUnlessWhole
<1>1. IInv => FaultedUnlessWhole
  BY DEF IInv
<1>2. QED BY <1>1, Invariance, PTL
===============================================================================
