------------------------------ MODULE BarModels ------------------------------
(***************************************************************************)
(* A bar model and its runner.  The model is one of the four engines; the  *)
(* runner is either the live strategy, which also closes trades and marks  *)
(* targets on ticks (KN/model_strategy.rs, check_levels), or the replay    *)
(* on history (KN/model_backtest.rs), which keeps the day's schedule and a *)
(* book of executed lots.  SATS has a replay of its own (SatsReplay).      *)
(***************************************************************************)
EXTENDS WvadEngine, SniperEngine, LorentzianEngine, SatsReplay

CONSTANTS
  DayEnd,        \* last bar of a full day
  EntriesUntil,  \* no entry on a bar that closes then or later
  SquareOff,     \* positions are closed on the first bar then or later
  Blackouts,     \* bars without entries
  MaxEpochs      \* bound: epochs of the SATS calibration

\* `SlotConfig::validate`.
ASSUME RulesAssumption ==
  /\ DayEnd \in Nat \ {0} /\ EntriesUntil \in Nat /\ SquareOff \in Nat
  /\ EntriesUntil <= SquareOff
  /\ Blackouts \subseteq Nat /\ MaxEpochs \in Nat

VARIABLES
  kind,      \* which engine
  runner,    \* live or replay
  engine,    \* its state
  told,      \* the events of the last call or calls of one bar
  slot,      \* replay: the day's last bar, 0 between days
  trading,   \* replay: the days after FROM
  book       \* replay: the executed trade, its direction and open lots

vars == <<kind, runner, engine, told, slot, trading, book>>

Kinds == {"wvad", "sniper", "lorentzian", "sats"}
NoBook == [dir |-> 0, lots |-> 0]

NewEngines(k) ==
  CASE k = "wvad" -> {NewWvad}
    [] k = "sniper" -> {NewSniper(full) : full \in BOOLEAN}
    [] k = "lorentzian" -> {NewLorentzian(mode) : mode \in ExitModes}
    [] k = "sats" -> {NewSats(on) : on \in BOOLEAN}

Init ==
  /\ kind \in Kinds
  /\ runner \in {"live", "replay"}
  /\ engine \in NewEngines(kind)
  /\ kind = "sats" /\ runner = "replay" => ~engine.learn.on   \* bound: the default
  /\ told = <<>> /\ slot = 0 /\ trading = FALSE
  /\ book \in IF kind = "sats" /\ runner = "replay" THEN {NoPosition(m) : m \in Modes} ELSE {NoBook}

Open == engine.trade # NoTrade
UnchangedReplay == UNCHANGED <<slot, trading, book>>

-----------------------------------------------------------------------------
(* The calls, whatever the engine. *)

\* Every result of a confirmed bar.
OnBar(b, allowed) ==
  CASE kind = "wvad" -> {WvadOnBar(engine, b, i, allowed) : i \in WvadInputs}
    [] kind = "sniper" -> {SniperOnBar(engine, b, i, allowed) : i \in SniperInputs}
    [] kind = "lorentzian" -> {LorentzianOnBar(engine, b, i, allowed) : i \in LorentzianInputs}
    [] kind = "sats" -> {SatsOnBar(engine, b, i, allowed) : i \in SatsInputs}

ForceClosed(e, price, reason) ==
  IF e.trade = NoTrade THEN Result(e, <<>>)
  ELSE CASE kind = "wvad" -> WvadForceClosed(e, price, reason)
         [] kind = "sniper" -> SniperForceClosed(e, price, reason)
         [] kind = "lorentzian" -> LorentzianForceClosed(e, price, reason)

Marked(e, level) ==
  IF kind = "wvad" THEN WvadMarked(e, level) ELSE SniperMarked(e, level)

-----------------------------------------------------------------------------
(* The live runner. *)

Called(r) ==
  /\ engine' = r.trade /\ told' = r.events
  /\ UNCHANGED <<kind, runner>> /\ UnchangedReplay

LiveBar ==
  /\ runner = "live"
  /\ \E b \in Bars, allowed \in BOOLEAN :
       /\ allowed /\ kind = "sats" => engine.learn.epoch < MaxEpochs
       /\ \E r \in OnBar(b, allowed) : Called(r)

\* A quote at or through the stop, or at or past a target that is not marked.
LiveStop ==
  /\ runner = "live" /\ kind # "sats" /\ Open
  /\ \E price \in Prices :
       /\ Gain(engine.trade, price) <= engine.trade.stop
       /\ Called(ForceClosed(engine, price, "stop"))

LiveTarget ==
  /\ runner = "live" /\ kind \in {"wvad", "sniper"} /\ Open
  /\ \E level \in Levels \ engine.trade.hits : Called(Marked(engine, level))

\* Square-off, or the warm-up's trade when trading starts.
LiveCloses ==
  /\ runner = "live" /\ kind # "sats" /\ Open
  /\ \E price \in Prices : Called(ForceClosed(engine, price, "Square-off"))

-----------------------------------------------------------------------------
(* The replay. *)

\* Mutant: the day's last bar is like any other.
AllowedOnLast(s, last) ==
  trading /\ s < EntriesUntil /\ s \notin Blackouts
Allowed(s, last) ==
  trading /\ ~last /\ s < EntriesUntil /\ s \notin Blackouts
Squares(s, last) == s >= SquareOff \/ last

\* `handle`: a partial is executed in whole lots and never takes the last one.
TrancheOfOpen(n, open) == (n * open) \div Lots   \* mutant: a fraction of what is left
Tranche(n, open) == Smaller(n, open)
Executed(held, e) ==
  CASE e.kind = "Entry" -> [dir |-> e.dir, lots |-> Lots]
    [] e.kind = "Exit" -> NoBook
    [] e.kind = "Partial" ->
         LET n == Tranche(e.lots, held.lots) IN
         IF 0 < n /\ n < held.lots THEN [held EXCEPT !.lots = @ - n] ELSE held

ExecutedAll(held, events) ==
  LET upTo[i \in 0..Len(events)] == IF i = 0 THEN held ELSE Executed(upTo[i - 1], events[i])
  IN  upTo[Len(events)]

\* A bar of history: some may be missing, and the last one known of a day is
\* seen to be the last.
ReplayBar ==
  /\ runner = "replay" /\ kind # "sats"
  /\ \E b \in Bars, s \in slot + 1..DayEnd, last \in BOOLEAN :
       /\ s = DayEnd => last
       /\ \E r \in OnBar(b, Allowed(s, last)) :
            LET closed == IF Squares(s, last) THEN ForceClosed(r.trade, b.close, "Square-off")
                          ELSE Result(r.trade, <<>>)
            IN /\ engine' = closed.trade
               /\ told' = r.events \o closed.events
               /\ book' = ExecutedAll(book, told')
       /\ slot' = IF last THEN 0 ELSE s
       /\ trading' \in IF last THEN {trading, TRUE} ELSE {trading}
  /\ UNCHANGED <<kind, runner>>

\* A bar of SATS' replay, which keeps no schedule but the hours of entries.
SatsReplayBar ==
  /\ runner = "replay" /\ kind = "sats"
  /\ \E b \in Bars, allowed \in BOOLEAN :
       \E r \in OnBar(b, allowed) :
            /\ engine' = r.trade /\ told' = r.events
            /\ book' \in PositionsAfter(book, b, told', engine'.trend)
  /\ UNCHANGED <<kind, runner, slot, trading>>

-----------------------------------------------------------------------------
Next == LiveBar \/ LiveStop \/ LiveTarget \/ LiveCloses \/ ReplayBar \/ SatsReplayBar

Spec == Init /\ [][Next]_vars

-----------------------------------------------------------------------------
Position ==
  IF Open THEN [dir |-> engine.trade.dir, left |-> engine.trade.left,
                closed |-> IF kind = "sats" THEN engine.trade.hits
                           ELSE {k \in engine.trade.hits : LotsAt(k) > 0}]
  ELSE [dir |-> 0, left |-> 0, closed |-> {}]

\* Every engine keeps what `BarModel` promises its runner, on bars and ticks:
\* Entry, Partials at rising targets, and one Exit of exactly the rest; and
\* its stop follows the targets that were reached, and no further.
Contract == INSTANCE BarModel WITH
  position <- Position, size <- IF kind = "sats" THEN Thirds ELSE Lots,
  stop <- IF Open THEN engine.trade.stop ELSE -1,
  hits <- IF Open THEN engine.trade.hits ELSE {}
ImplementsBarModel == Contract!Spec

\* A target that is marked on a tick changes nothing that the bar would not
\* have done: the same events in the same order, the same trade afterwards
\* (`mark_target`: "the same partials the bar-close model would").  The bar that
\* contains the tick does not touch the stop, where the model would have taken
\* the stop first.
TicksAgreeWithBars ==
  kind = "wvad" /\ runner = "live" /\ Open =>
    \A b \in Bars : ~Stopped(engine.trade, b) =>
      \A level \in Touched(engine.trade, b), cross \in {-1, 0, 1} :
        LET input == [cross |-> cross, ready |-> TRUE, fits |-> TRUE]
            tick == WvadMarked(engine, level)
            then == WvadOnBar(tick.trade, b, input, TRUE)
        IN WvadOnBar(engine, b, input, TRUE)
             = Result(then.trade, tick.events \o then.events)

\* The replay holds nothing overnight, and never opens a trade on a bar on
\* which it closes all: whatever bars are missing and however short the day.
FlatOvernight ==
  runner = "replay" /\ kind # "sats" =>
    /\ slot = 0 => ~Open
    /\ \A i, j \in DOMAIN told :
         i < j /\ told[i].kind = "Entry" => told[j].kind # "Exit"

\* What SATS' exit mode leaves of the lots while its trade is open.
LotsLeft(mode, t) ==
  IF mode.exits = "thirds" THEN t.left
  ELSE IF mode.at \in t.hits THEN 0 ELSE Thirds

\* The executed lots of the replay are those of the model at every bar.  With a
\* bracket, which looks at the bar before the model does, they are the same as
\* without; with a trailing stop, the position leaves the trade early only at a
\* stop that trails, and outlives it only with a stop that loses nothing.
BookFollowsModel ==
  runner = "replay" =>
    IF kind # "sats"
    THEN book = IF Open THEN [dir |-> engine.trade.dir, lots |-> engine.trade.left] ELSE NoBook
    ELSE IF book.mode.exits # "trail"
    THEN IF Open THEN /\ book.dir = engine.trade.dir /\ ~book.ended
                      /\ book.left = LotsLeft(book.mode, engine.trade)
         ELSE book = NoPosition(book.mode)
    ELSE /\ Open => book.dir = engine.trade.dir /\ ~book.ended /\ (book.left = 0 => book.active)
         /\ ~Open /\ book.dir # 0 => book.left > 0 /\ book.active /\ book.stop >= book.at

\* A trade only counts in an epoch of the calibration if it was entered under
\* that epoch's quality influence, also when an exit ends the epoch on the bar
\* of the entry.
EpochPure ==
  kind = "sats" /\ Open =>
    (engine.trade.epoch = engine.learn.epoch => engine.trade.q = engine.learn.q)
===============================================================================
