--------------------------- MODULE LorentzianEngine ---------------------------
(***************************************************************************)
(* The Lorentzian classification model (crates/lorentzian/src/engine.rs;   *)
(* built and tested, not used by the node).  It has no targets: a trade    *)
(* ends at its stop, on a reversal, or by the rule of its exit mode.       *)
(* `input` is what its indicators show on a bar:                           *)
(*   vote    sign of the neighbours' prediction if every filter passes     *)
(*   turn    the kernel estimate turned up or down on this bar             *)
(*   fits    trend, kernel and minimum risk let an entry pass              *)
(***************************************************************************)
EXTENDS ModelTrade

CONSTANTS HoldBars   \* HOLD_BARS

ASSUME LorentzianAssumption == HoldBars \in Nat \ {0}

ExitModes == {"Fixed", "FixedFlip", "Dynamic"}

\* signal: -1, 1, or 0 before the first; age: bars since the entry (bound:
\* counted to HoldBars).
NewLorentzian(mode) == [trade |-> NoTrade, signal |-> 0, age |-> 0, mode |-> mode]
LorentzianInputs == [vote : {-1, 0, 1}, turn : {-1, 0, 1}, fits : BOOLEAN]

Signalled(e, input) == IF input.vote = 0 THEN e.signal ELSE input.vote

\* A changed signal is the direction of an entry.
LorentzianSignal(e, input, allowed) ==
  LET now == Signalled(e, input) IN
  IF now # e.signal /\ allowed /\ input.fits THEN now ELSE 0

\* Why the trade ends at the close, if it does.
Ends(e, input, signal) ==
  LET t == e.trade
      against == Signalled(e, input) = -t.dir
  IN \/ signal = -t.dir
     \/ e.mode \in {"Fixed", "FixedFlip"} /\ e.age + 1 >= HoldBars
     \/ e.mode = "FixedFlip" /\ against
     \/ e.mode = "Dynamic" /\ input.turn = -t.dir

\* A reversal is told apart: the replay charges it as one order.
Because(t, signal) == IF signal = -t.dir THEN "Reversal" ELSE "rule"

LorentzianSettled(e, b, input, signal) ==
  LET t == e.trade IN
  IF Stopped(t, b) THEN StoppedOut(t, b)
  ELSE IF Ends(e, input, signal)
  THEN Finished(t, <<>>, Gain(t, b.close), Because(t, signal))
  ELSE Result(t, <<>>)

LorentzianOnBar(e, b, input, allowed) ==
  LET signal == LorentzianSignal(e, input, allowed)
      s == IF e.trade = NoTrade THEN Result(NoTrade, <<>>)
           ELSE LorentzianSettled(e, b, input, signal)
      kept == [e EXCEPT !.trade = s.trade, !.signal = Signalled(e, input),
                        !.age = IF s.trade = NoTrade THEN 0 ELSE Smaller(@ + 1, HoldBars)]
  IN IF signal # 0 /\ s.trade = NoTrade
     THEN Result([kept EXCEPT !.trade = Opened(signal)], Append(s.events, EntryOf(signal)))
     ELSE Result(kept, s.events)

LorentzianForceClosed(e, price, reason) ==
  LET s == Finished(e.trade, <<>>, Gain(e.trade, price), reason)
  IN Result([e EXCEPT !.trade = s.trade, !.age = 0], s.events)
===============================================================================
