----------------------------- MODULE SniperEngine -----------------------------
(***************************************************************************)
(* The Precision Sniper model (crates/sniper/src/engine.rs; built and      *)
(* tested, not used by the node).  Unlike WVAD a crossover is a candidate  *)
(* that may be confirmed on a later bar, and the third target may leave    *)
(* the trade open.  `input` is what the indicators show on a bar:          *)
(*   cross     crossover of the two averages, after the warm-up            *)
(*   momentum  the side of both averages the close is on, or 0             *)
(*   fits      the other gates pass (evidence, volatility, plan, ...)      *)
(***************************************************************************)
EXTENDS ModelTrade

CONSTANT ConfirmWindow   \* bars a candidate may wait

ASSUME SniperAssumption == ConfirmWindow \in Nat

NoCandidate == [dir |-> 0, age |-> 0]
\* fullTp3: the third target closes the rest.
NewSniper(full) == [trade |-> NoTrade, candidate |-> NoCandidate, fullTp3 |-> full]
SniperInputs == [cross : {-1, 0, 1}, momentum : {-1, 0, 1}, fits : BOOLEAN]

\* A new crossover replaces the candidate, an old one gets a bar older.
Candidate(e, input) ==
  IF input.cross # 0 THEN [dir |-> input.cross, age |-> 0]
  ELSE IF e.candidate.dir = 0 THEN NoCandidate
  ELSE [e.candidate EXCEPT !.age = @ + 1]

\* The candidate is taken, dies or waits.  A trade in its direction kills it,
\* also one that is stopped on this very bar.
Taken(e, c, input, allowed) ==
  /\ c.dir # 0 /\ input.momentum = c.dir /\ input.fits /\ allowed
  /\ e.trade.dir # c.dir
Dies(e, c, input, allowed) ==
  \/ c.age >= ConfirmWindow \/ input.momentum # c.dir
  \/ e.trade.dir = c.dir \/ ~allowed

SniperLevelStop(t) ==
  IF 3 \in t.hits THEN 2 ELSE IF 2 \in t.hits THEN 1 ELSE IF 1 \in t.hits THEN 0 ELSE t.stop

SniperSettled(e, b, signal) ==
  LET t == e.trade
      touched == Touched(t, b)
      h == HitAll(t, touched)
  IN IF Stopped(t, b) THEN StoppedOut(t, b)
     ELSE IF 3 \in touched /\ e.fullTp3 THEN Finished(h.trade, h.events, 3, "TP3")
     ELSE IF signal = -t.dir THEN Finished(h.trade, h.events, Gain(t, b.close), "Reversal")
     ELSE Result(Raised(h.trade, SniperLevelStop(h.trade)), h.events)

SniperOnBar(e, b, input, allowed) ==
  LET c == Candidate(e, input)
      taken == Taken(e, c, input, allowed)
      signal == IF taken THEN c.dir ELSE 0
      kept == IF taken \/ Dies(e, c, input, allowed) THEN NoCandidate ELSE c
      s == IF e.trade = NoTrade THEN Result(NoTrade, <<>>) ELSE SniperSettled(e, b, signal)
  IN IF signal # 0 /\ s.trade = NoTrade
     THEN Result([e EXCEPT !.trade = Opened(signal), !.candidate = kept], Append(s.events, EntryOf(signal)))
     ELSE Result([e EXCEPT !.trade = s.trade, !.candidate = kept], s.events)

SniperForceClosed(e, price, reason) ==
  LET s == Finished(e.trade, <<>>, Gain(e.trade, price), reason)
  IN Result([e EXCEPT !.trade = s.trade], s.events)

SniperMarked(e, level) ==
  LET h == HitAll(e.trade, 1..level)
      s == IF level = 3 /\ e.fullTp3 THEN Finished(h.trade, h.events, 3, "TP3") ELSE h
  IN Result([e EXCEPT !.trade = s.trade], s.events)
===============================================================================
