------------------------------ MODULE SatsReplay ------------------------------
(***************************************************************************)
(* The replay of the SATS model (backup/kite-node/sats_backtest.rs with    *)
(* sats_trail.rs): one executed position beside the model's trade, closed  *)
(* by the trade's events as the exit mode says, and inside a bar by a      *)
(* trailing stop or a bracket.  A trailing position may end before the     *)
(* trade or outlive it.  Prices are the gains of ModelTrade; slippage, the *)
(* offset of the breakeven and the scoring of trades are left out.         *)
(*   exits     thirds, single or trail; `at` is the target of single, and  *)
(*   intrabar  its stop and target are checked inside bars                 *)
(***************************************************************************)
EXTENDS SatsEngine

CONSTANT Modes   \* the exit modes: [exits, at, intrabar]

\* `SatsConfig::validate`: thirds need lots that divide by three.
ASSUME SatsReplayAssumption ==
  Modes \subseteq [exits : {"thirds", "single", "trail"}, at : Levels, intrabar : BOOLEAN]

\* ended: the trade has closed (`model_close`); active: the trail's first target
\* was reached; at: the executed entry, the open after the signal's bar.
NoPosition(mode) ==
  [mode |-> mode, dir |-> 0, left |-> 0, ended |-> FALSE,
   fresh |-> FALSE, at |-> 0, stop |-> -1, active |-> FALSE]
Positioned(mode, dir) ==
  [NoPosition(mode) EXCEPT !.dir = dir, !.left = Thirds, !.fresh = mode.exits = "trail"]

\* `Open::close`, and `record` of what is done.
Closes(p, n) ==
  LET rest == [p EXCEPT !.left = @ - n] IN
  IF rest.left = 0 /\ rest.ended THEN NoPosition(p.mode) ELSE rest

\* The entry fills at the open of the bar after the signal; only a trail, whose
\* breakeven it is, looks at it.
Filled(p, b) ==
  IF p.fresh THEN [p EXCEPT !.fresh = FALSE, !.at = Gain(p, b.open)] ELSE p

\* `Trail::tighten` and `activate`.
Tightened(p, level) == [p EXCEPT !.stop = IF level > @ THEN level ELSE @]
Activated(p, gain) ==
  IF ~p.active /\ gain >= 1 THEN [Tightened(p, p.at) EXCEPT !.active = TRUE] ELSE p

\* `Trail::on_bar`: a breakeven stop that this bar set is taken to be hit by it.
Trailed(p, b) ==
  LET a == Activated(p, Best(p, b)) IN
  CASE Stopped(p, b) -> Closes(p, p.left)
    [] ~Stopped(p, b) /\ Stopped(a, b) -> Closes(a, p.left)
    [] OTHER -> a

\* `Bracket::on_bar`.
Bracketed(p, b) ==
  IF Stopped(p, b) \/ Best(p, b) >= p.mode.at THEN Closes(p, p.left) ELSE p

InBar(p, b) ==
  CASE p.left > 0 /\ p.mode.exits = "trail" -> Trailed(p, b)
    [] p.left > 0 /\ p.mode.exits = "single" /\ p.mode.intrabar -> Bracketed(p, b)
    [] OTHER -> p

\* `Execution::lots_to_close`.
ClosedBy(p, e) ==
  LET closing == e.kind = "Exit"
  IN CASE p.mode.exits = "thirds" -> IF closing THEN p.left ELSE Smaller(Thirds \div 3, p.left)
       [] p.mode.exits = "single" -> IF closing \/ e.level = p.mode.at THEN p.left ELSE 0
       [] p.mode.exits = "trail" -> IF closing /\ e.reason # "TP3" THEN p.left ELSE 0

\* An entry closes what is left of the position before it.
AfterEvent(p, e) ==
  CASE e.kind = "Entry" -> Positioned(p.mode, e.dir)
    [] e.kind # "Entry" /\ (p.dir = 0 \/ p.ended) -> p
    [] OTHER -> Closes([p EXCEPT !.ended = e.kind = "Exit"], ClosedBy(p, e))

AfterEvents(p, events) ==
  LET upTo[i \in 0..Len(events)] == IF i = 0 THEN p ELSE AfterEvent(upTo[i - 1], events[i])
  IN  upTo[Len(events)]

\* `Trail::on_bar_close`: the stop follows the SuperTrend line, any price here.
Followed(p, trend) ==
  IF p.left > 0 /\ p.active /\ p.dir = trend
  THEN {Tightened(p, Gain(p, line)) : line \in Prices} ELSE {p}

PositionsAfter(p, b, events, trend) ==
  Followed(AfterEvents(InBar(Filled(p, b), b), events), trend)
===============================================================================
