------------------------------ MODULE SatsLive ------------------------------
(***************************************************************************)
(* The parked SATS strategy (backup/kite-node/sats_strategy.rs,            *)
(* sats_trail.rs) over the execution client (native_client/mod.rs,         *)
(* dispatch.rs) and Kite.  It rests a stop order at the exchange once its  *)
(* entry fills; every other exit cancels that stop first and is sent when  *)
(* the cancel is confirmed, "so the two can never both fill".  Kite does   *)
(* not enforce reduce-only.                                                *)
(*                                                                         *)
(* A call goes through the queue of spawned tasks, an event through the    *)
(* node's: both arrive later, in order.  Deadlines are reached or not.     *)
(***************************************************************************)
EXTENDS Integers, Sequences, FiniteSets, TLC, Totals

LOCAL INSTANCE SequencesExt

CONSTANTS
  Setups,     \* the settings: [exits, at (the target that ends a single exit),
              \* intrabar, exchangeStop, lots of an entry]
  MaxTrades,  \* bound: trades of the model
  MaxQuirks,  \* bound: refusals and cancels of Kite, denials, stop requests
  MaxCalls    \* bound: calls that wait when the timer runs

\* Assumed by Services.
SatsLiveAssumption ==
  /\ MaxTrades \in Nat /\ MaxQuirks \in Nat /\ MaxCalls \in Nat
  \* SatsConfig::validate
  /\ \A u \in Setups : /\ u.lots \in Nat \ {0}
                       /\ u.at \in {"TP1", "TP2", "TP3"}
                       /\ u.exits = "thirds" => u.lots % 3 = 0
                       /\ ~(u.exchangeStop /\ u.exits = "thirds")

VARIABLES
  setup,   \* the settings of the run
  model,   \* the engine's trade
  begun,   \* trades of the model so far
  strategy, \* SatsStrategy
  calls,   \* its calls on the client that have not run
  working, \* the dispatcher's unresolved orders, with what Kite did to them
  owned,   \* the dispatcher's position
  up,      \* the client is active
  news,    \* events that have not reached the strategy
  stopped, \* stop requested, or a fault
  quirks

clientVars == <<working, owned, up>>
vars == <<setup, model, begun, strategy, calls, clientVars, news, stopped, quirks>>

Sign(x) == CASE x > 0 -> 1 [] x < 0 -> -1 [] OTHER -> 0
Abs(x) == x * Sign(x)

Flat == [side |-> 0, trade |-> 0, hits |-> 0]

\* stop_order is None.  Stops are numbered from 1, other orders (0) need not be told
\* apart.
NoStop == -1

\* entry: the trade this run opened (live_entry_bar); stop: the resting stop order;
\* waits: an exit waits for its cancel; pending: the entry that waits for an exit to
\* fill; side: of the position this run opened (entry_sl); sent: the calls of a handler.
NewStrategy ==
  [pos |-> 0, open |-> 0, entry |-> 0, exiting |-> FALSE, halted |-> FALSE,
   pending |-> Flat, stop |-> NoStop, side |-> 0, waits |-> FALSE, refused |-> FALSE,
   level |-> "none", done |-> FALSE, flat |-> TRUE, stops |-> 0, sent |-> <<>>]

Init ==
  /\ setup \in Setups
  /\ model = Flat /\ begun = 0
  /\ strategy = NewStrategy /\ calls = <<>>
  /\ working = {} /\ owned = 0 /\ up = TRUE
  /\ news = <<>> /\ stopped = FALSE /\ quirks = 0

Quirk == quirks < MaxQuirks /\ quirks' = quirks + 1

-----------------------------------------------------------------------------
(* The strategy.  A handler is a function of its state; the calls it makes are *)
(* appended to sent.                                                           *)

\* submit_order: the position goes along as the cache has it.
Submit(t, id, side, lots, reduce) ==
  [t EXCEPT !.sent = Append(@, [call |-> "place", id |-> id, side |-> side,
                                lots |-> lots, reduce |-> reduce, position |-> t.pos])]

Halt(t) ==
  [t EXCEPT !.halted = TRUE, !.pending = Flat,
            !.entry = IF t.pending = Flat THEN @ ELSE 0,
            !.open = IF t.pending = Flat THEN @ ELSE 0]

\* flatten: with a resting stop the exit waits for its cancel.
Flatten(before) ==
  LET t == [before EXCEPT !.entry = 0, !.open = 0, !.level = "none"]
  IN CASE t.stop # NoStop /\ t.waits -> t
       [] t.stop # NoStop /\ ~t.waits ->
            [t EXCEPT !.waits = TRUE, !.exiting = TRUE, !.flat = FALSE,
                      !.sent = Append(@, [call |-> "cancel", id |-> t.stop])]
       [] t.stop = NoStop /\ t.pos = 0 -> [t EXCEPT !.exiting = FALSE, !.flat = TRUE]
       [] t.stop = NoStop /\ t.pos # 0 /\ t.exiting -> t
       [] OTHER -> Submit([t EXCEPT !.exiting = TRUE, !.flat = FALSE],
                          0, -Sign(t.pos), Abs(t.pos), TRUE)

\* Execution::lots_to_close
Closing == {"SL", "flip", "timeout"}
LotsToClose(kind, open) ==
  LET third == setup.lots \div 3
      all == \/ kind \in Closing
             \/ kind = "TP3" /\ setup.exits = "thirds"
             \/ kind \in {setup.at, "TP3"} /\ setup.exits = "single"
  IN CASE all -> open
       [] ~all /\ setup.exits = "thirds" -> IF third < open THEN third ELSE open
       [] OTHER -> 0

\* handle, from the halt check on.
Ordered(t, event, side, lots, reduce) ==
  LET fits == IF reduce THEN Sign(t.pos) = -side /\ Abs(t.pos) >= lots
              ELSE t.pos = 0 /\ ~t.exiting
      level == CASE ~reduce /\ setup.exits = "trail" -> "initial"
                 [] ~reduce /\ setup.exits = "single" /\ setup.intrabar -> "bracket"
                 [] OTHER -> IF t.open = 0 THEN "none" ELSE t.level
  IN CASE t.halted -> t
       [] ~t.halted /\ reduce /\ t.stop # NoStop -> Flatten(t)
       [] ~t.halted /\ ~reduce /\ t.exiting -> [t EXCEPT !.pending = event]
       [] ~t.halted /\ ~(reduce /\ t.stop # NoStop) /\ ~(~reduce /\ t.exiting) /\ ~fits ->
            Flatten(Halt(t))
       [] OTHER ->
            Submit([t EXCEPT !.flat = FALSE, !.level = level,
                             !.exiting = @ \/ (reduce /\ t.open = 0),
                             !.side = IF reduce THEN @ ELSE side],
                   0, side, lots, reduce)

Entered(t, event, allowed) ==
  LET flipped == IF setup.exits = "trail" /\ t.open > 0 THEN Flatten(t) ELSE t
  IN  IF ~allowed THEN flipped
      ELSE Ordered([flipped EXCEPT !.entry = event.trade, !.open = setup.lots],
                   event, event.side, setup.lots, FALSE)

Exited(t, event, kind) ==
  LET lots == LotsToClose(kind, t.open)
      after == [t EXCEPT !.open = @ - lots,
                         !.entry = IF kind \in Closing \cup {"TP3"} THEN 0 ELSE @]
  IN CASE t.entry # event.trade -> t
       [] t.entry = event.trade /\ lots = 0 -> after
       [] OTHER -> Ordered(after, event, -event.side, lots, TRUE)

\* try_pending; allowed: the clock has not reached the square-off.
TriesPending(t, allowed, late) ==
  CASE t.pending = Flat -> t
    [] t.pending # Flat /\ t.pos = 0 ->
         Entered([t EXCEPT !.exiting = FALSE, !.pending = Flat, !.entry = 0, !.open = 0],
                 t.pending, allowed /\ ~t.done /\ ~stopped /\ ~t.halted)
    [] t.pending # Flat /\ t.pos # 0 /\ late -> Flatten(Halt(t))
    [] OTHER -> t

\* check_cancel_deadline
ChecksCancel(t, late) ==
  CASE t.waits /\ t.pos = 0 /\ t.stop = NoStop -> [t EXCEPT !.waits = FALSE, !.exiting = FALSE]
    [] t.waits /\ (t.pos # 0 \/ t.stop # NoStop) /\ late -> Halt([t EXCEPT !.waits = FALSE])
    [] OTHER -> t

\* on_order_filled; the cache has the fill already.
StopWanted(t, side) ==
  /\ setup.exchangeStop /\ ~t.refused
  /\ t.pos # 0 /\ t.stop = NoStop /\ side = t.side
  /\ ~t.exiting /\ Sign(t.pos) = t.side
OnFill(before, e, allowed) ==
  LET t == IF before.stop = e.id THEN [before EXCEPT !.stop = NoStop, !.waits = FALSE]
           ELSE before
      next == CASE t.pending # Flat -> TriesPending(t, allowed, FALSE)
                [] t.pending = Flat /\ t.pos = 0 -> [t EXCEPT !.exiting = FALSE, !.flat = TRUE]
                [] OTHER -> t
  IN  IF StopWanted(next, e.side)
        THEN Submit([next EXCEPT !.stop = next.stops + 1, !.stops = @ + 1], next.stops + 1,
                    -next.side, Abs(next.pos), TRUE)
        ELSE next

OnCancel(t, e) ==
  CASE t.stop # e.id -> t
    [] t.stop = e.id /\ ~t.waits -> [t EXCEPT !.stop = NoStop]
    [] OTHER -> Flatten([t EXCEPT !.stop = NoStop, !.waits = FALSE, !.exiting = FALSE])

\* on_order_rejected, on_order_denied
OnRefusal(t, e) ==
  IF t.stop = e.id THEN [t EXCEPT !.stop = NoStop, !.refused = TRUE]
  ELSE Halt([t EXCEPT !.exiting = FALSE])

Handled(t, e, allowed) ==
  CASE e.event = "filled" -> OnFill([t EXCEPT !.pos = @ + e.side * e.lots], e, allowed)
    [] e.event = "cancelled" -> OnCancel(t, e)
    [] e.event = "refused" -> OnRefusal(t, e)
    [] OTHER -> t

\* What a handler leaves.
Becomes(t) ==
  /\ strategy' = [t EXCEPT !.sent = <<>>]
  /\ calls' = calls \o t.sent

-----------------------------------------------------------------------------
(* What comes to the strategy. *)

Hit(k) == CASE k = 1 -> "TP1" [] k = 2 -> "TP2" [] k = 3 -> "TP3"
Hits(j, k) == [i \in 1..(k - j) |-> Hit(j + i)]

\* sats::settle: the stop first; else targets, and what ends the trade after them.
\* Of a trade this run did not open it matters only that it ends.
Exits ==
  IF model = Flat THEN {<<>>}
  ELSE IF model.trade # strategy.entry THEN {<<>>, <<"SL">>}
  ELSE {<<"SL">>} \cup {Hits(model.hits, k) : k \in model.hits..3}
       \cup {Append(Hits(model.hits, k), "flip") : k \in model.hits..2}
       \cup {Append(Hits(model.hits, k), "timeout") : k \in model.hits..2}
Ends(exits) == exits # <<>> /\ Last(exits) \in Closing \cup {"TP3"}

\* After the cutoff the exits of a trade this run did not open are passed over.
AfterExits(start, exits, cutoff) ==
  LET upTo[i \in 0..Len(exits)] ==
        IF i = 0 THEN start
        ELSE IF cutoff /\ upTo[i - 1].entry = 0 THEN upTo[i - 1]
        ELSE Exited(upTo[i - 1], model, exits[i])
  IN  upTo[Len(exits)]

\* on_bar: the engine's events on the bar; the square-off; late: no entry.
Bar(exits, enters, cutoff, late) ==
  LET squares == cutoff /\ ~strategy.done
      start == IF squares THEN Flatten([strategy EXCEPT !.done = TRUE]) ELSE strategy
      allowed == ~cutoff /\ ~stopped /\ ~start.halted /\ ~late
      next == [side |-> enters, trade |-> begun + 1, hits |-> 0]
      out == AfterExits(start, exits, cutoff)
  IN  /\ Becomes(IF enters = 0 THEN out ELSE Entered(out, next, allowed))
      /\ model' = CASE enters # 0 -> next
                    [] enters = 0 /\ Ends(exits) -> Flat
                    [] OTHER -> [model EXCEPT !.hits = IF model = Flat THEN 0 ELSE @ + Len(exits)]
      /\ begun' = IF enters # 0 THEN begun + 1 ELSE begun

OnBar ==
  /\ \E exits \in Exits, enters \in {-1, 0, 1}, cutoff, late \in BOOLEAN :
       /\ enters # 0 => begun < MaxTrades /\ (model = Flat \/ Ends(exits))
       /\ "flip" \in Range(exits) => enters \in {0, -model.side}
       /\ exits # <<>> \/ enters # 0 \/ (cutoff /\ ~strategy.done)
       /\ strategy.done => cutoff
       /\ late => enters # 0 /\ ~cutoff /\ ~stopped
       /\ Bar(exits, enters, cutoff, late)
  /\ UNCHANGED <<setup, clientVars, news, stopped, quirks>>

\* on_quote: check_bracket (the target, or the stop when none rests at Kite) and
\* check_trail, which TP1 activates and whose first level is the stop.
OnQuote ==
  /\ strategy.open > 0 /\ ~strategy.exiting
  /\ \/ strategy.level = "bracket" /\ Becomes(Flatten(strategy))
     \/ strategy.level = "initial" /\ Becomes([strategy EXCEPT !.level = "active"])
     \/ strategy.level = "initial" /\ strategy.stop = NoStop /\ Becomes(Flatten(strategy))
     \/ strategy.level = "active" /\ Becomes(Flatten(strategy))
  /\ UNCHANGED <<setup, model, begun, clientVars, news, stopped, quirks>>

\* on_time_event, every second.
OnTimer ==
  /\ Len(calls) < MaxCalls
  /\ \E late, allowed \in BOOLEAN :
       /\ late => strategy.waits \/ strategy.pending # Flat
       /\ ~allowed => strategy.pending # Flat
       /\ LET guarded == IF strategy.halted THEN strategy ELSE Halt(strategy)
              tried == ChecksCancel(TriesPending(strategy, allowed, late), late)
          IN  Becomes(IF stopped THEN ChecksCancel(Flatten(guarded), late)
                      ELSE [tried EXCEPT !.flat = tried.pos = 0 /\ ~tried.exiting])
  /\ UNCHANGED <<setup, model, begun, clientVars, news, stopped, quirks>>

OnEvent ==
  /\ news # <<>>
  /\ news' = Tail(news)
  /\ \E allowed \in BOOLEAN :
       /\ ~allowed => strategy.pending # Flat
       /\ Becomes(Handled(strategy, Head(news), allowed))
  /\ UNCHANGED <<setup, model, begun, clientVars, stopped, quirks>>

StopAsked ==
  /\ ~stopped /\ stopped' = TRUE
  /\ up => Quirk
  /\ ~up => UNCHANGED quirks
  /\ UNCHANGED <<setup, model, begun, strategy, calls, clientVars, news>>

-----------------------------------------------------------------------------
(* The client and Kite. *)

Order(id) == CHOOSE o \in working : o.id = id
Works(id) == \E o \in working : o.id = id
Left(o) == IF o.over THEN 0 ELSE o.lots - o.filled
Emits(list) == news' = news \o list
Refused(id) == [event |-> "refused", id |-> id]

\* Dispatcher::admit.
\* Mutant: an order is admitted beside one that still works.
AdmitsBeside(c) ==
  /\ c.position = owned
  /\ IF c.reduce THEN Sign(owned) = -c.side /\ c.lots <= Abs(owned) ELSE owned = 0
Admits(c) == AdmitsBeside(c) /\ working = {}

Runs(call) == calls # <<>> /\ Head(calls).call = call /\ calls' = Tail(calls)

\* submit_guarded: denied; rejected by Kite, or the stream or budget denies an entry;
\* else it works (the answer may be lost).
Places ==
  /\ Runs("place") /\ up
  /\ LET c == Head(calls)
     IN  \/ /\ ~Admits(c)
            /\ Emits(<<Refused(c.id)>>)
            /\ UNCHANGED <<working, quirks>>
         \/ /\ Admits(c) /\ Quirk
            /\ Emits(<<Refused(c.id)>>)
            /\ UNCHANGED working
         \/ /\ Admits(c)
            /\ working' = working \cup
                 {[id |-> c.id, side |-> c.side, lots |-> c.lots,
                   reduce |-> c.reduce, filled |-> 0, told |-> 0, over |-> FALSE, tried |-> FALSE]}
            /\ UNCHANGED <<news, quirks>>
  /\ UNCHANGED <<setup, model, begun, strategy, owned, up, stopped>>

CancelTried(o, over) ==
  working' = (working \ {o}) \cup {[o EXCEPT !.tried = TRUE, !.over = over]}

\* Dispatcher::cancel: of an order that closed, or a second time, it faults the client;
\* Kite cancels what is left, or refuses.
Cancels ==
  /\ Runs("cancel") /\ up
  /\ LET id == Head(calls).id
         o == Order(id)
     IN  \/ /\ Works(id) => o.tried
            /\ up' = FALSE
            /\ UNCHANGED <<working, news, quirks>>
         \/ /\ Works(id) /\ ~o.tried /\ Left(o) > 0
            /\ CancelTried(o, TRUE)
            /\ UNCHANGED <<up, news, quirks>>
         \/ /\ Works(id) /\ ~o.tried
            /\ IF Left(o) > 0 THEN Quirk ELSE UNCHANGED quirks
            /\ CancelTried(o, o.over)
            /\ Emits(<<[event |-> "cancel refused", id |-> id]>>)
            /\ UNCHANGED up
  /\ UNCHANGED <<setup, model, begun, strategy, owned, stopped>>

\* An inactive client ignores a call.
Ignores ==
  /\ ~up /\ calls # <<>> /\ calls' = Tail(calls)
  /\ UNCHANGED <<setup, model, begun, strategy, clientVars, news, stopped, quirks>>

\* A stop triggers and fills like any other order, a lot at a time.
KiteFills(o) ==
  /\ Left(o) > 0
  /\ working' = (working \ {o}) \cup {[o EXCEPT !.filled = @ + 1]}
  /\ UNCHANGED <<setup, model, begun, strategy, calls, owned, up, news, stopped, quirks>>

\* Kite cancels the rest of an order, by itself or by hand.
KiteCancels(o) ==
  /\ Left(o) > 0 /\ Quirk
  /\ working' = (working \ {o}) \cup {[o EXCEPT !.over = TRUE]}
  /\ UNCHANGED <<setup, model, begun, strategy, calls, owned, up, news, stopped>>

\* Dispatcher::refresh.
Reconciles(o) ==
  /\ up /\ (o.filled > o.told \/ o.over)
  /\ LET lots == o.filled - o.told
         fill == IF lots > 0
                   THEN <<[event |-> "filled", id |-> o.id, side |-> o.side, lots |-> lots]>>
                   ELSE <<>>
         end == IF o.over THEN <<[event |-> "cancelled", id |-> o.id]>> ELSE <<>>
     IN  /\ Emits(fill \o end)
         /\ owned' = owned + o.side * lots
         /\ working' = (working \ {o}) \cup
                         (IF Left(o) = 0 THEN {} ELSE {[o EXCEPT !.told = o.filled]})
  /\ UNCHANGED <<setup, model, begun, strategy, calls, up, stopped, quirks>>

Next ==
  \/ OnBar \/ OnQuote \/ OnTimer \/ OnEvent \/ StopAsked
  \/ Places \/ Cancels \/ Ignores
  \/ \E o \in working : KiteFills(o) \/ KiteCancels(o) \/ Reconciles(o)

Spec == Init /\ [][Next]_vars

-----------------------------------------------------------------------------
Held == owned + TotalOn([o \in working |-> o.side * (o.filled - o.told)], working)
Exposed(side) ==
  TotalOn([o \in working |-> Left(o)], {o \in working : o.reduce /\ o.side = side})

\* The resting stop and an exit can never both fill: what the exits that work at
\* Kite may still trade is no more than the position, whatever was cancelled,
\* refused, partly filled or is still on its way; and the position never exceeds the
\* lots of one entry (sats_strategy.rs:17-19).
NeverBothFill ==
  /\ \A side \in {-1, 1} : Exposed(side) > 0 =>
       Sign(Held) = -side /\ Exposed(side) <= Abs(Held)
  /\ Abs(Held) <= setup.lots
=============================================================================
