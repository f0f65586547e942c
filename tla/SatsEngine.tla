------------------------------ MODULE SatsEngine ------------------------------
(***************************************************************************)
(* The SATS model (crates/sats: engine.rs, trade.rs, supertrend.rs and     *)
(* learn.rs; built and tested, not used by the node).  An entry is a flip  *)
(* of the adaptive SuperTrend; a third of the position is closed at each   *)
(* target; the experimental calibration moves the quality influence after  *)
(* an epoch of trades that were poor.  `input` is what a bar shows:        *)
(*   flip    price or character flip of the trend                          *)
(*   warmed  indicators are ready                                          *)
(*   fits    quality above the minimum and a valid entry plan              *)
(* Slippage and fees are left out of the calibration's R.                  *)
(***************************************************************************)
EXTENDS ModelTrade

CONSTANTS
  TimeoutBars,   \* trade_timeout_bars
  Window,        \* closed trades in an epoch: max(calibration_window, cooldown)
  BadR,          \* an epoch below this mean is poor, above GoodR good
  GoodR,
  MaxQ           \* the quality influence is one of the steps 0..MaxQ

ASSUME SatsAssumption ==
  /\ TimeoutBars \in Nat \ {0} /\ Window \in Nat \ {0}
  /\ BadR \in Int /\ GoodR \in Int /\ BadR < GoodR
  /\ MaxQ \in Nat \ {0}

Thirds == 3

\* on: auto_calibration.
NewLearn(on) == [on |-> on, q |-> 0, epoch |-> 0, seen |-> 0, sum |-> 0, shift |-> 0, mean |-> {}]
\* mean and net hold a value or nothing; trend: 0 before the first bar.
NewSats(on) == [trade |-> NoTrade, trend |-> 0, learn |-> NewLearn(on)]
SatsInputs == [flip : BOOLEAN, warmed : BOOLEAN, fits : BOOLEAN]

\* `AdaptiveSuperTrend::update`: the first bar sets the trend and is no flip.
TrendAfter(e, input) ==
  IF e.trend = 0 THEN Long ELSE IF input.flip THEN -e.trend ELSE e.trend
Flips(e, input) == e.trend # 0 /\ input.flip

SatsOpened(dir, learn) ==
  [dir |-> dir, stop |-> -1, hits |-> {}, left |-> Thirds, age |-> 0, taken |-> 0,
   epoch |-> learn.epoch, q |-> learn.q]

TookThird(r, level) ==
  [trade |-> [r.trade EXCEPT !.hits = @ \cup {level}, !.left = @ - 1, !.taken = @ + level],
   events |-> Append(r.events, PartialOf(r.trade, level, 1))]

\* `settle`: the events, the trade that is left, and the R of a closed one.
Over(r, gain, reason) ==
  [trade |-> NoTrade, events |-> Append(r.events, ExitOf(r.trade, gain, reason)),
   net |-> {r.trade.taken + r.trade.left * gain}]
Settle(t, b, trend) ==
  LET touched == Touched(t, b)
      thirds(r, k) == IF k \in touched THEN TookThird(r, k) ELSE r
      h == thirds(thirds(Result(t, <<>>), 1), 2)
  IN IF Stopped(t, b) THEN Over(Result(t, <<>>), Smaller(Gain(t, b.open), t.stop), "stop")
     ELSE IF 3 \in touched THEN Over(h, 3, "TP3")
     ELSE IF t.dir # trend THEN Over(h, Gain(t, b.close), "flip")
     ELSE IF t.age + 1 >= TimeoutBars THEN Over(h, Gain(t, b.close), "timeout")
     ELSE [trade |-> [h.trade EXCEPT !.age = @ + 1], events |-> h.events, net |-> {}]

\* `Learn::record`: a trade of another epoch does not count; a full epoch that
\* was poor moves the influence on in the last direction if that did not make
\* things worse, and turns at the ends.
Direction(l, sum) ==
  LET on == IF l.shift = 0 THEN 1
            ELSE IF \A m \in l.mean : sum >= m THEN l.shift
            ELSE -l.shift
  IN IF (on > 0 /\ l.q >= MaxQ) \/ (on < 0 /\ l.q <= 0) THEN -on ELSE on
Recorded(l, net, epoch) ==
  LET sum == l.sum + net
      next == [l EXCEPT !.epoch = @ + 1, !.seen = 0, !.sum = 0, !.mean = {sum}]
      full == l.seen + 1 >= Window
      d == Direction(l, sum)
  IN IF ~l.on \/ epoch # l.epoch THEN l
     ELSE IF ~full THEN [l EXCEPT !.seen = @ + 1, !.sum = sum]
     ELSE IF sum < BadR * Window THEN [next EXCEPT !.q = @ + d, !.shift = d]
     ELSE IF sum > GoodR * Window THEN [next EXCEPT !.shift = 0]
     ELSE next

\* Mutant: an entry belongs to the epoch that its bar's exit began.
EpochAfterSettle(before, after) == [before EXCEPT !.epoch = after.epoch]
\* An entry belongs to the epoch its signal was computed in, which ends on
\* this bar if the exit of the old trade fills it.
EpochOfSignal(before, after) == before

SatsOnBar(e, b, input, enabled) ==
  LET trend == TrendAfter(e, input)
      s == IF e.trade = NoTrade THEN [trade |-> NoTrade, events |-> <<>>, net |-> {}]
           ELSE Settle(e.trade, b, trend)
      learn == IF s.net = {} THEN e.learn
               ELSE Recorded(e.learn, CHOOSE r \in s.net : TRUE, e.trade.epoch)
      enters == Flips(e, input) /\ input.warmed /\ s.trade = NoTrade /\ enabled /\ input.fits
  IN IF enters
     THEN Result([trade |-> SatsOpened(trend, EpochOfSignal(e.learn, learn)),
                  trend |-> trend, learn |-> learn],
                 Append(s.events, EntryOf(trend)))
     ELSE Result([trade |-> s.trade, trend |-> trend, learn |-> learn], s.events)
===============================================================================
