------------------------------ MODULE ModelTrade ------------------------------
(***************************************************************************)
(* The trade a bar model holds open (crates/wvad, and the same code in     *)
(* crates/sniper), its events and the bars it is settled on.               *)
(*                                                                         *)
(* Prices are relative to the entry, in units of the trade's risk: a price *)
(* is worth its gain, the initial stop is at -1 and target k at k.         *)
(* Fractions of the position are whole lots, as the slot's configuration   *)
(* makes them (tp1_lots / lots).                                           *)
(***************************************************************************)
EXTENDS Integers, Sequences, FiniteSets

CONSTANTS
  Lots,      \* size of a position
  Tp1Lots,   \* lots closed at the first and the second target
  Tp2Lots,
  Prices,    \* prices of the bars
  StepStop   \* the stop follows the targets

\* `SlotConfig::validate` and `Params::validate`: a lot is left for the third target.
ASSUME TradeAssumption ==
  /\ Lots \in Nat \ {0} /\ Tp1Lots \in Nat /\ Tp2Lots \in Nat
  /\ Tp1Lots + Tp2Lots < Lots
  /\ Prices \subseteq Int /\ StepStop \in BOOLEAN

Long == 1
Short == -1
Levels == 1..3
Smaller(x, y) == IF x < y THEN x ELSE y

\* A bar opens at one of its extremes: either it does not gap or it gaps most.
Bars == {b \in [open : Prices, high : Prices, low : Prices, close : Prices] :
           b.open \in {b.low, b.high} /\ b.low <= b.close /\ b.close <= b.high}

NoTrade == [dir |-> 0]
Opened(dir) == [dir |-> dir, stop |-> -1, hits |-> {}, left |-> Lots]

EntryOf(dir) == [kind |-> "Entry", dir |-> dir]
PartialOf(t, level, n) == [kind |-> "Partial", dir |-> t.dir, level |-> level, lots |-> n]
ExitOf(t, gain, reason) ==
  [kind |-> "Exit", dir |-> t.dir, lots |-> t.left, gain |-> gain, reason |-> reason]

Gain(t, price) == t.dir * price
Worst(t, b) == IF t.dir = Long THEN Gain(t, b.low) ELSE Gain(t, b.high)
Best(t, b) == IF t.dir = Long THEN Gain(t, b.high) ELSE Gain(t, b.low)
Stopped(t, b) == Worst(t, b) <= t.stop
Touched(t, b) == {k \in Levels \ t.hits : Best(t, b) >= k}

\* What an operation of a model leaves behind and tells its runner.
Result(t, events) == [trade |-> t, events |-> events]

\* `Trade::finish`: a gap through the stop fills at the open.
Finished(t, before, gain, reason) == Result(NoTrade, Append(before, ExitOf(t, gain, reason)))
StoppedOut(t, b) == Finished(t, <<>>, Smaller(Gain(t, b.open), t.stop), "stop")

\* `Trade::hit`: a level counts once; a fraction never exceeds what is open.
LotsAt(level) == IF level = 1 THEN Tp1Lots ELSE IF level = 2 THEN Tp2Lots ELSE 0
\* Mutant: a level that was marked before is closed again.
HitAgain(r, level) ==
  LET n == Smaller(LotsAt(level), r.trade.left)
      t == [r.trade EXCEPT !.hits = @ \cup {level}, !.left = @ - n]
  IN IF n > 0 THEN Result(t, Append(r.events, PartialOf(t, level, n))) ELSE Result(t, r.events)
Hit(r, level) ==
  LET n == IF level \in r.trade.hits THEN 0 ELSE Smaller(LotsAt(level), r.trade.left)
      t == [r.trade EXCEPT !.hits = @ \cup {level}, !.left = @ - n]
  IN IF n > 0 THEN Result(t, Append(r.events, PartialOf(t, level, n))) ELSE Result(t, r.events)

\* The levels in order.
HitAll(t, levels) ==
  LET at(r, k) == IF k \in levels THEN Hit(r, k) ELSE r
  IN at(at(at(Result(t, <<>>), 1), 2), 3)

\* The step stop moves only to a better level.
Raised(t, level) == [t EXCEPT !.stop = IF StepStop /\ level > @ THEN level ELSE @]
===============================================================================
