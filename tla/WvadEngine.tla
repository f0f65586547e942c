------------------------------ MODULE WvadEngine ------------------------------
(***************************************************************************)
(* The WVAD model (crates/wvad/src/engine.rs), the one that trades live.   *)
(* Its indicators are a choice: `input` says what they show on a bar.      *)
(*   cross  crossover of WVAD and its signal line: up, down or none        *)
(*   ready  the warm-up is over and every indicator has a value            *)
(*   fits   ADX, higher-timeframe candle and minimum risk let it pass      *)
(***************************************************************************)
EXTENDS ModelTrade

NewWvad == [trade |-> NoTrade]
WvadInputs == [cross : {-1, 0, 1}, ready : BOOLEAN, fits : BOOLEAN]

\* The direction of an accepted crossover, or 0.
WvadSignal(input, allowed) ==
  IF input.ready /\ allowed /\ input.fits THEN input.cross ELSE 0

\* Where the step stop belongs after the targets that were marked.
WvadLevelStop(t) == IF 2 \in t.hits THEN 1 ELSE IF 1 \in t.hits THEN 0 ELSE t.stop

\* The open trade on a bar: its stop first, then the targets, then a reversal,
\* then the stop's move.
WvadSettled(t, b, signal) ==
  LET touched == Touched(t, b)
      h == HitAll(t, touched)
  IN IF Stopped(t, b) THEN StoppedOut(t, b)
     ELSE IF 3 \in touched THEN Finished(h.trade, h.events, 3, "TP3")
     ELSE IF signal = -t.dir THEN Finished(h.trade, h.events, Gain(t, b.close), "Reversal")
     ELSE Result(Raised(h.trade, WvadLevelStop(h.trade)), h.events)

\* `on_bar`: settle, then enter at the close if nothing is open.
WvadOnBar(e, b, input, allowed) ==
  LET signal == WvadSignal(input, allowed)
      s == IF e.trade = NoTrade THEN Result(NoTrade, <<>>) ELSE WvadSettled(e.trade, b, signal)
  IN IF signal # 0 /\ s.trade = NoTrade
     THEN Result([e EXCEPT !.trade = Opened(signal)], Append(s.events, EntryOf(signal)))
     ELSE Result([e EXCEPT !.trade = s.trade], s.events)

\* `force_close`: the price is a tick's or the bar's close.
WvadForceClosed(e, price, reason) ==
  LET s == Finished(e.trade, <<>>, Gain(e.trade, price), reason)
  IN Result([e EXCEPT !.trade = s.trade], s.events)

\* Mutant: only the level that was reached is marked.
WvadMarkedAlone(e, level) ==
  LET h == HitAll(e.trade, {level})
      s == IF level = 3 THEN Finished(h.trade, h.events, 3, "TP3") ELSE h
  IN Result([e EXCEPT !.trade = s.trade], s.events)
\* `mark_target`: a tick reached `level` before the bar closed.
WvadMarked(e, level) ==
  LET h == HitAll(e.trade, 1..level)
      s == IF level = 3 THEN Finished(h.trade, h.events, 3, "TP3") ELSE h
  IN Result([e EXCEPT !.trade = s.trade], s.events)
===============================================================================
