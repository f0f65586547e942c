---------------------------- MODULE Services_proofs ----------------------------
(***************************************************************************)
(* What is proved of a part holds of the run that has it as its subject:   *)
(* every step of Services is a step of the part or leaves it as it is.     *)
(***************************************************************************)
EXTENDS Services, DataLemmas, TLAPS

-----------------------------------------------------------------------------
(* The stop whose trigger is moved *)

StopProofs == INSTANCE ProtectiveStop_proofs

\* The two instances of ProtectiveStop start alike.
LEMMA SameInit == Stop!Init => StopProofs!Init
BY Zenon DEF Stop!Init, StopProofs!Init, Stop!Lowest, StopProofs!Lowest, Stop!NoCall,
  StopProofs!NoCall, Stop!Cancel, StopProofs!Cancel

\* ... and take the same steps.
LEMMA SameNext == Stop!Next => StopProofs!Next
<1> USE DEF Stop!Cancel, StopProofs!Cancel, Stop!NoCall, StopProofs!NoCall,
  Stop!Refreshing, StopProofs!Refreshing, Stop!Free, StopProofs!Free,
  Stop!kiteVars, StopProofs!kiteVars, Stop!Faults, StopProofs!Faults,
  Stop!Awaits, StopProofs!Awaits, Stop!Recorded, StopProofs!Recorded,
  Stop!UnchangedClient, StopProofs!UnchangedClient, Stop!Answers, StopProofs!Answers
<1>1. ASSUME NEW what, Stop!Command(what) PROVE StopProofs!Command(what)
  BY <1>1 DEF Stop!Command, StopProofs!Command
<1>2. ASSUME NEW what, Stop!KiteTakes(what) PROVE StopProofs!KiteTakes(what)
  BY <1>2 DEF Stop!KiteTakes, StopProofs!KiteTakes
<1>3. ASSUME NEW what, Stop!KiteRefuses(what) PROVE StopProofs!KiteRefuses(what)
  BY <1>3 DEF Stop!KiteRefuses, StopProofs!KiteRefuses
<1>4. ASSUME NEW to, Stop!Modifies(to) PROVE StopProofs!Modifies(to)
  BY <1>4, Zenon DEF Stop!Modifies, StopProofs!Modifies, Stop!Modifiable, StopProofs!Modifiable,
    Stop!ModifiableTwice, StopProofs!ModifiableTwice, Stop!Sends, StopProofs!Sends,
    Stop!Refuses, StopProofs!Refuses
<1>5. ASSUME NEW to, Stop!ExchangeSettles(to) PROVE StopProofs!ExchangeSettles(to)
  BY <1>5 DEF Stop!ExchangeSettles, StopProofs!ExchangeSettles
<1>6. Stop!Cancels => StopProofs!Cancels
  BY Zenon DEF Stop!Cancels, StopProofs!Cancels, Stop!Cancellable, StopProofs!Cancellable,
    Stop!Sends, StopProofs!Sends, Stop!Refuses, StopProofs!Refuses
<1>7. (Stop!Acknowledged \/ Stop!Uncertain \/ Stop!CancelEnds)
        => (StopProofs!Acknowledged \/ StopProofs!Uncertain \/ StopProofs!CancelEnds)
  BY Zenon DEF Stop!Acknowledged, StopProofs!Acknowledged, Stop!Uncertain, StopProofs!Uncertain,
    Stop!CancelEnds, StopProofs!CancelEnds
<1>8. Stop!Refresh => StopProofs!Refresh
  BY Zenon DEF Stop!Refresh, StopProofs!Refresh, Stop!Contradicts, StopProofs!Contradicts,
    Stop!Moved, StopProofs!Moved, Stop!Confirmed, StopProofs!Confirmed, Stop!Requested,
    StopProofs!Requested, Stop!Lags, StopProofs!Lags, Stop!Observed, StopProofs!Observed
<1>9. (Stop!StreamFails \/ Stop!StreamFaults \/ Stop!Aborts)
        => (StopProofs!StreamFails \/ StopProofs!StreamFaults \/ StopProofs!Aborts)
  BY DEF Stop!StreamFails, StopProofs!StreamFails, Stop!StreamFaults, StopProofs!StreamFaults,
    Stop!Aborts, StopProofs!Aborts
<1>10. (Stop!ExchangeMoves \/ Stop!BookCatchesUp \/ Stop!TradesCatchUp)
        => (StopProofs!ExchangeMoves \/ StopProofs!BookCatchesUp \/ StopProofs!TradesCatchUp)
  BY Zenon DEF Stop!ExchangeMoves, StopProofs!ExchangeMoves, Stop!BookCatchesUp, StopProofs!BookCatchesUp,
    Stop!TradesCatchUp, StopProofs!TradesCatchUp
<1>11. QED
  BY <1>1, <1>2, <1>3, <1>4, <1>5, <1>6, <1>7, <1>8, <1>9, <1>10 DEF Stop!Next, StopProofs!Next

\* The trigger of the resting stop is only ever tightened at Kite, and a dispatcher
\* that goes on with nothing outstanding has Kite's trigger (dispatch.rs, modify_stop).
THEOREM StopNeverLoosensHolds == Spec => StopNeverLoosens
<1>1. StopProofs!StopAssumption
  BY ServicesAssumption DEF Stop!StopAssumption, StopProofs!StopAssumption
<1>2. Init => StopProofs!Init
  BY SameInit DEF Init
<1>3. [Next]_vars => [StopProofs!Next]_StopProofs!vars
  BY SameNext DEF Next, BudgetStep, DashStep, AccountStep, SatsStep, StopStep, vars, stopVars,
    StopProofs!vars, StopProofs!clientVars, StopProofs!kiteVars
<1>4. [/\ atKite'.trigger >= atKite.trigger
       /\ ~poisoned' /\ management' = {} => record'.trigger = atKite'.trigger]_StopProofs!vars
      => [/\ atKite'.trigger >= atKite.trigger
          /\ ~poisoned' /\ management' = {} => record'.trigger = atKite'.trigger]_Stop!vars
  BY DEF Stop!vars, Stop!clientVars, Stop!kiteVars, StopProofs!vars, StopProofs!clientVars, StopProofs!kiteVars
<1>5. StopProofs!Spec => StopProofs!StopNeverLoosens
  BY <1>1, StopProofs!StopNeverLoosensHolds
<1>6. Spec => StopProofs!Spec
  BY <1>2, <1>3, PTL DEF Spec, StopProofs!Spec
<1>7. StopProofs!StopNeverLoosens => StopNeverLoosens
  BY <1>4, PTL DEF StopProofs!StopNeverLoosens, StopNeverLoosens, Stop!StopNeverLoosens
<1>8. QED BY <1>5, <1>6, <1>7, PTL

-----------------------------------------------------------------------------
(* The resting stop of SATS, and the exit that follows its cancel *)

\* A call of the strategy: an entry has the lots of the setup.
Placings == [call : {"place"}, id : Nat, side : {-1, 0, 1}, lots : Nat, reduce : BOOLEAN, position : Int]
Commands(lots) == {c \in Placings : c.reduce \/ c.lots = lots} \cup [call : {"cancel"}, id : Nat]

ModelTrades == [side : {-1, 0, 1}, trade : Nat, hits : Int]

\* What the strategy's handlers keep of its state; its flags may be anything.
Fields == {"pos", "open", "entry", "exiting", "halted", "pending", "stop", "side", "waits",
           "refused", "level", "done", "flat", "stops", "sent"}
Keeps(t) ==
  /\ DOMAIN t = Fields
  /\ t.pos \in Int /\ t.open \in Nat /\ t.pending \in ModelTrades
  /\ t.stop \in Nat \cup {Sats!NoStop} /\ t.stops \in Nat /\ t.side \in {-1, 0, 1}
  /\ t.sent \in Seq(Commands(setup.lots))

\* Nothing is sent by changes of what is not sent.
LEMMA SatsFlags ==
  ASSUME NEW t, Keeps(t), NEW x, NEW y, NEW z
  PROVE  /\ Keeps([t EXCEPT !.level = x])
         /\ Keeps([t EXCEPT !.done = x])
         /\ Keeps([t EXCEPT !.flat = x])
         /\ Keeps([t EXCEPT !.entry = x])
         /\ Keeps([t EXCEPT !.exiting = x])
         /\ Keeps([t EXCEPT !.waits = x])
         /\ Keeps([t EXCEPT !.waits = x, !.exiting = y])
         /\ Keeps([t EXCEPT !.exiting = x, !.flat = y])
BY DEF Keeps, Fields

\* The side and the size of what a position needs to be flat.
LEMMA SatsSize ==
  ASSUME NEW x \in Int
  PROVE  Sats!Sign(x) \in {-1, 0, 1} /\ -Sats!Sign(x) \in {-1, 0, 1} /\ Sats!Abs(x) \in Nat
<1>1. /\ x > 0 => Sats!Sign(x) = 1
      /\ x < 0 => Sats!Sign(x) = -1
      /\ x = 0 => Sats!Sign(x) = 0
  BY DEF Sats!Sign
<1>2. PICK s \in {-1, 0, 1} : s = Sats!Sign(x)
  BY <1>1
<1>3. Sats!Abs(x) = x * s
  BY <1>2, Zenon DEF Sats!Abs
<1>4. x * s \in Nat
  <2>1. CASE s = 1
    BY <1>1, <1>2, <2>1
  <2>2. CASE s = -1
    BY <1>1, <1>2, <2>2
  <2>3. CASE s = 0
    BY <2>3
  <2>4. QED BY <2>1, <2>2, <2>3
<1>5. -s \in {-1, 0, 1}
  OBVIOUS
<1>6. QED BY <1>2, <1>3, <1>4, <1>5

\* A sequence with one more is a sequence.
LEMMA SatsAppends ==
  ASSUME NEW S, NEW s \in Seq(S), NEW c \in S
  PROVE  Append(s, c) \in Seq(S)
OBVIOUS

\* What is sent are calls.
LEMMA SatsSends ==
  ASSUME NEW t, Keeps(t), NEW x, NEW y, NEW z, NEW sent \in Seq(Commands(setup.lots))
  PROVE  /\ Keeps([t EXCEPT !.sent = sent])
         /\ Keeps([t EXCEPT !.waits = x, !.exiting = y, !.flat = z, !.sent = sent])
BY DEF Keeps, Fields

\* A trade that is taken up, or none.
LEMMA SatsTakesUp ==
  ASSUME NEW t, Keeps(t), NEW x, NEW y, NEW open \in Nat, NEW pending \in ModelTrades
  PROVE  /\ Keeps([t EXCEPT !.entry = x, !.open = open])
         /\ Keeps([t EXCEPT !.entry = x, !.open = open, !.level = y])
         /\ Keeps([t EXCEPT !.open = open, !.entry = x])
         /\ Keeps([t EXCEPT !.pending = pending])
         /\ Keeps([t EXCEPT !.halted = x, !.pending = pending, !.entry = y, !.open = open])
         /\ Keeps([t EXCEPT !.exiting = x, !.pending = pending, !.entry = y, !.open = open])
BY DEF Keeps, Fields

\* No trade is a trade of the model.
LEMMA SatsNone == Sats!Flat \in ModelTrades /\ 0 \in Nat
<1>1. 0 \in Nat /\ 0 \in Int /\ 0 \in {-1, 0, 1}
  OBVIOUS
<1>2. QED BY <1>1, Zenon DEF Sats!Flat, ModelTrades

\* `submit_order` sends one call; an entry has the lots of the setup.
LEMMA SatsSubmits ==
  ASSUME NEW t, Keeps(t), NEW id \in Nat, NEW side \in {-1, 0, 1}, NEW lots \in Nat,
         NEW reduce \in BOOLEAN, reduce \/ lots = setup.lots
  PROVE  Keeps(Sats!Submit(t, id, side, lots, reduce))
<1>1. PICK c : c = [call |-> "place", id |-> id, side |-> side,
                    lots |-> lots, reduce |-> reduce, position |-> t.pos]
  OBVIOUS
<1>2. c \in Placings /\ c.reduce = reduce /\ c.lots = lots
  BY <1>1, Zenon DEF Placings, Keeps
<1>3. c \in Commands(setup.lots)
  BY <1>2 DEF Commands
<1>4. PICK sent : sent = Append(t.sent, c)
  OBVIOUS
<1>5. sent \in Seq(Commands(setup.lots))
  BY <1>3, <1>4, SatsAppends DEF Keeps
<1>6. Sats!Submit(t, id, side, lots, reduce) = [t EXCEPT !.sent = sent]
  BY <1>1, <1>4, Zenon DEF Sats!Submit
<1>7. Keeps([t EXCEPT !.sent = sent])
  BY <1>5, SatsSends
<1>8. QED BY <1>6, <1>7, Zenon

\* `halt` sends nothing.
LEMMA SatsHalts ==
  ASSUME NEW t, Keeps(t)
  PROVE  Keeps(Sats!Halt(t))
<1>1. PICK entry : entry = IF t.pending = Sats!Flat THEN t.entry ELSE 0
  OBVIOUS
<1>2. PICK open \in Nat : open = IF t.pending = Sats!Flat THEN t.open ELSE 0
  BY DEF Keeps
<1>3. PICK u : u = [t EXCEPT !.halted = TRUE, !.pending = Sats!Flat, !.entry = entry, !.open = open]
  OBVIOUS
<1>4. Sats!Halt(t) = u
  BY <1>1, <1>2, <1>3, Zenon DEF Sats!Halt
<1>5. Keeps(u)
  BY <1>3, SatsNone, SatsTakesUp, Zenon
<1>6. QED BY <1>4, <1>5, Zenon

\* `flatten` sends a cancel or an exit of the position.
LEMMA SatsFlattens ==
  ASSUME NEW t, Keeps(t)
  PROVE  Keeps(Sats!Flatten(t))
<1>1. PICK u : u = [t EXCEPT !.entry = 0, !.open = 0, !.level = "none"]
  OBVIOUS
<1>2. Keeps(u)
  BY <1>1, SatsNone, SatsTakesUp, Zenon
<1>3. CASE u.stop # Sats!NoStop /\ u.waits
  BY <1>1, <1>2, <1>3, Zenon DEF Sats!Flatten
<1>4. CASE u.stop # Sats!NoStop /\ ~u.waits
  <2>1. PICK c : c = [call |-> "cancel", id |-> u.stop]
    OBVIOUS
  <2>2. c \in [call : {"cancel"}, id : Nat]
    <3>1. u.stop \in Nat
      BY <1>2, <1>4, Zenon DEF Keeps
    <3>2. QED BY <2>1, <3>1
  <2>3. PICK sent : sent = Append(u.sent, c)
    OBVIOUS
  <2>4. sent \in Seq(Commands(setup.lots))
    <3>1. c \in Commands(setup.lots)
      BY <2>2 DEF Commands
    <3>2. QED BY <1>2, <2>3, <3>1, SatsAppends DEF Keeps
  <2>5. PICK v : v = [u EXCEPT !.waits = TRUE, !.exiting = TRUE, !.flat = FALSE, !.sent = sent]
    OBVIOUS
  <2>6. Sats!Flatten(t) = v
    BY <1>1, <1>4, <2>1, <2>3, <2>5, Zenon DEF Sats!Flatten
  <2>7. Keeps(v)
    BY <1>2, <2>4, <2>5, SatsSends, Zenon
  <2>8. QED BY <2>6, <2>7, Zenon
<1>5. CASE u.stop = Sats!NoStop /\ u.pos = 0
  <2>1. PICK v : v = [u EXCEPT !.exiting = FALSE, !.flat = TRUE]
    OBVIOUS
  <2>2. Sats!Flatten(t) = v
    BY <1>1, <1>5, <2>1, Zenon DEF Sats!Flatten
  <2>3. Keeps(v)
    BY <1>2, <2>1, SatsFlags, Zenon
  <2>4. QED BY <2>2, <2>3, Zenon
<1>6. CASE u.stop = Sats!NoStop /\ u.pos # 0 /\ u.exiting
  BY <1>1, <1>2, <1>6, Zenon DEF Sats!Flatten
<1>7. CASE u.stop = Sats!NoStop /\ u.pos # 0 /\ ~u.exiting
  <2>1. PICK v : v = [u EXCEPT !.exiting = TRUE, !.flat = FALSE]
    OBVIOUS
  <2>2. Keeps(v)
    BY <1>2, <2>1, SatsFlags, Zenon
  <2>3. PICK side \in {-1, 0, 1}, lots \in Nat : side = -Sats!Sign(u.pos) /\ lots = Sats!Abs(u.pos)
    BY <1>2, SatsSize DEF Keeps
  <2>4. Sats!Flatten(t) = Sats!Submit(v, 0, side, lots, TRUE)
    BY <1>1, <1>7, <2>1, <2>3, Zenon DEF Sats!Flatten
  <2>5. PICK reduce \in BOOLEAN, id \in Nat : reduce = TRUE /\ id = 0
    OBVIOUS
  <2>6. Keeps(Sats!Submit(v, id, side, lots, reduce))
    BY <2>2, <2>5, SatsSubmits
  <2>7. QED BY <2>4, <2>5, <2>6, Zenon
<1>8. QED BY <1>3, <1>4, <1>5, <1>6, <1>7

\* An exit closes no more than is open.
LEMMA SatsCloses ==
  ASSUME NEW kind, NEW open \in Nat, setup.lots \in Nat
  PROVE  Sats!LotsToClose(kind, open) \in 0..open
<1>1. PICK third \in Nat : third = setup.lots \div 3
  OBVIOUS
<1>2. Sats!LotsToClose(kind, open) \in {open, IF third < open THEN third ELSE open, 0}
  BY <1>1, Zenon DEF Sats!LotsToClose
<1>3. QED BY <1>2

\* `handle` on an order.
LEMMA SatsOrders ==
  ASSUME NEW t, Keeps(t), NEW event \in ModelTrades, NEW side \in {-1, 0, 1}, NEW lots \in Nat,
         NEW reduce \in BOOLEAN, reduce \/ lots = setup.lots
  PROVE  Keeps(Sats!Ordered(t, event, side, lots, reduce))
<1> DEFINE Fits == IF reduce THEN Sats!Sign(t.pos) = -side /\ Sats!Abs(t.pos) >= lots
                   ELSE t.pos = 0 /\ ~t.exiting
<1>1. CASE t.halted
  <2>1. Sats!Ordered(t, event, side, lots, reduce) = t
    BY <1>1, Zenon DEF Sats!Ordered
  <2>2. QED BY <2>1, Zenon
<1>2. CASE ~t.halted /\ reduce /\ t.stop # Sats!NoStop
  <2>1. Sats!Ordered(t, event, side, lots, reduce) = Sats!Flatten(t)
    BY <1>2, Zenon DEF Sats!Ordered
  <2>2. QED BY <2>1, SatsFlattens, Zenon
<1>3. CASE ~t.halted /\ ~reduce /\ t.exiting
  <2>1. PICK u : u = [t EXCEPT !.pending = event]
    OBVIOUS
  <2>2. Sats!Ordered(t, event, side, lots, reduce) = u
    BY <1>3, <2>1, Zenon DEF Sats!Ordered
  <2>3. Keeps(u)
    BY <2>1, SatsTakesUp, SatsNone, Zenon
  <2>4. QED BY <2>2, <2>3, Zenon
<1>4. CASE ~t.halted /\ ~(reduce /\ t.stop # Sats!NoStop) /\ ~(~reduce /\ t.exiting) /\ ~Fits
  <2>1. Sats!Ordered(t, event, side, lots, reduce) = Sats!Flatten(Sats!Halt(t))
    BY <1>4, Zenon DEF Sats!Ordered
  <2>2. QED BY <2>1, SatsHalts, SatsFlattens, Zenon
<1>5. CASE ~t.halted /\ ~(reduce /\ t.stop # Sats!NoStop) /\ ~(~reduce /\ t.exiting) /\ Fits
  <2>1. PICK level : level = CASE ~reduce /\ setup.exits = "trail" -> "initial"
                               [] ~reduce /\ setup.exits = "single" /\ setup.intrabar -> "bracket"
                               [] OTHER -> IF t.open = 0 THEN "none" ELSE t.level
    OBVIOUS
  <2>2. PICK s \in {-1, 0, 1} : s = IF reduce THEN t.side ELSE side
    BY DEF Keeps
  <2>3. PICK u : u = [t EXCEPT !.flat = FALSE, !.level = level,
                               !.exiting = t.exiting \/ (reduce /\ t.open = 0), !.side = s]
    OBVIOUS
  <2>4. Keeps(u)
    <3>1. \A x, y, z : Keeps([t EXCEPT !.flat = x, !.level = y, !.exiting = z, !.side = s])
      BY DEF Keeps, Fields
    <3>2. QED BY <2>3, <3>1, Zenon
  <2>5. Sats!Ordered(t, event, side, lots, reduce) = Sats!Submit(u, 0, side, lots, reduce)
    BY <1>5, <2>1, <2>2, <2>3, Zenon DEF Sats!Ordered
  <2>6. PICK id \in Nat : id = 0
    OBVIOUS
  <2>7. Keeps(Sats!Submit(u, id, side, lots, reduce))
    BY <2>4, SatsSubmits
  <2>8. QED BY <2>5, <2>6, <2>7, Zenon
<1>6. QED BY <1>1, <1>2, <1>3, <1>4, <1>5, Zenon

\* An entry, which flips a trailing position first.
LEMMA SatsEnters ==
  ASSUME NEW t, Keeps(t), NEW event \in ModelTrades, NEW may, setup.lots \in Nat
  PROVE  Keeps(Sats!Entered(t, event, may))
<1>1. PICK u : u = IF setup.exits = "trail" /\ t.open > 0 THEN Sats!Flatten(t) ELSE t
  OBVIOUS
<1>2. Keeps(u)
  BY <1>1, SatsFlattens, Zenon
<1>3. CASE ~may
  <2>1. Sats!Entered(t, event, may) = u
    BY <1>1, <1>3, Zenon DEF Sats!Entered
  <2>2. QED BY <1>2, <2>1, Zenon
<1>4. CASE may
  <2>1. PICK v : v = [u EXCEPT !.entry = event.trade, !.open = setup.lots]
    OBVIOUS
  <2>2. Keeps(v)
    BY <1>2, <2>1, SatsTakesUp, SatsNone, Zenon
  <2>3. Sats!Entered(t, event, may) = Sats!Ordered(v, event, event.side, setup.lots, FALSE)
    BY <1>1, <1>4, <2>1, Zenon DEF Sats!Entered
  <2>4. PICK side \in {-1, 0, 1}, lots \in Nat : side = event.side /\ lots = setup.lots
    BY DEF ModelTrades
  <2>5. PICK reduce \in BOOLEAN : reduce = FALSE
    OBVIOUS
  <2>6. Keeps(Sats!Ordered(v, event, side, lots, reduce))
    BY <2>2, <2>4, SatsOrders
  <2>7. QED BY <2>3, <2>4, <2>5, <2>6, Zenon
<1>5. QED BY <1>3, <1>4

\* An exit of the model's trade.
LEMMA SatsExits ==
  ASSUME NEW t, Keeps(t), NEW event \in ModelTrades, NEW kind, setup.lots \in Nat
  PROVE  Keeps(Sats!Exited(t, event, kind))
<1>1. PICK lots \in Nat : lots = Sats!LotsToClose(kind, t.open) /\ lots <= t.open
  <2>1. t.open \in Nat
    BY DEF Keeps
  <2>2. PICK n : n = Sats!LotsToClose(kind, t.open)
    OBVIOUS
  <2>3. n \in 0..t.open
    BY <2>1, <2>2, SatsCloses, Zenon
  <2>4. QED BY <2>1, <2>2, <2>3
<1>2. PICK open \in Nat : open = t.open - lots
  BY <1>1 DEF Keeps
<1>3. PICK entry : entry = IF kind \in Sats!Closing \cup {"TP3"} THEN 0 ELSE t.entry
  OBVIOUS
<1>4. PICK after : after = [t EXCEPT !.open = open, !.entry = entry]
  OBVIOUS
<1>5. Keeps(after)
  BY <1>4, SatsTakesUp, SatsNone, Zenon
<1>6. CASE t.entry # event.trade
  <2>1. Sats!Exited(t, event, kind) = t
    BY <1>6, Zenon DEF Sats!Exited
  <2>2. QED BY <2>1, Zenon
<1>7. CASE t.entry = event.trade /\ lots = 0
  <2>1. Sats!Exited(t, event, kind) = after
    BY <1>1, <1>2, <1>3, <1>4, <1>7, Zenon DEF Sats!Exited
  <2>2. QED BY <1>5, <2>1, Zenon
<1>8. CASE t.entry = event.trade /\ lots # 0
  <2>1. PICK side \in {-1, 0, 1} : side = -event.side
    BY DEF ModelTrades
  <2>2. PICK reduce \in BOOLEAN : reduce = TRUE
    OBVIOUS
  <2>3. Sats!Exited(t, event, kind) = Sats!Ordered(after, event, side, lots, TRUE)
    BY <1>1, <1>2, <1>3, <1>4, <1>8, <2>1, Zenon DEF Sats!Exited
  <2>4. Keeps(Sats!Ordered(after, event, side, lots, reduce))
    BY <1>5, <2>2, SatsOrders
  <2>5. QED BY <2>2, <2>3, <2>4, Zenon
<1>9. QED BY <1>6, <1>7, <1>8

\* `try_pending`.
LEMMA SatsTriesPending ==
  ASSUME NEW t, Keeps(t), NEW may, NEW overdue, setup.lots \in Nat
  PROVE  Keeps(Sats!TriesPending(t, may, overdue))
<1>1. CASE t.pending = Sats!Flat
  <2>1. Sats!TriesPending(t, may, overdue) = t
    BY <1>1, Zenon DEF Sats!TriesPending
  <2>2. QED BY <2>1, Zenon
<1>2. CASE t.pending # Sats!Flat /\ t.pos = 0
  <2>1. PICK u : u = [t EXCEPT !.exiting = FALSE, !.pending = Sats!Flat, !.entry = 0, !.open = 0]
    OBVIOUS
  <2>2. Keeps(u)
    BY <2>1, SatsTakesUp, SatsNone, Zenon
  <2>3. PICK event \in ModelTrades : event = t.pending
    BY DEF Keeps
  <2>4. Sats!TriesPending(t, may, overdue)
          = Sats!Entered(u, event, may /\ ~t.done /\ ~stopped /\ ~t.halted)
    BY <1>2, <2>1, <2>3, Zenon DEF Sats!TriesPending
  <2>5. \A x : Keeps(Sats!Entered(u, event, x))
    BY <2>2, SatsEnters, Zenon
  <2>6. QED BY <2>4, <2>5, Zenon
<1>3. CASE t.pending # Sats!Flat /\ t.pos # 0 /\ overdue
  <2>1. Sats!TriesPending(t, may, overdue) = Sats!Flatten(Sats!Halt(t))
    BY <1>3, Zenon DEF Sats!TriesPending
  <2>2. QED BY <2>1, SatsHalts, SatsFlattens, Zenon
<1>4. CASE t.pending # Sats!Flat /\ t.pos # 0 /\ ~overdue
  <2>1. Sats!TriesPending(t, may, overdue) = t
    BY <1>4, Zenon DEF Sats!TriesPending
  <2>2. QED BY <2>1, Zenon
<1>5. QED BY <1>1, <1>2, <1>3, <1>4

\* `check_cancel_deadline`.
LEMMA SatsChecksCancel ==
  ASSUME NEW t, Keeps(t), NEW overdue
  PROVE  Keeps(Sats!ChecksCancel(t, overdue))
<1>1. CASE t.waits /\ t.pos = 0 /\ t.stop = Sats!NoStop
  <2>1. PICK u : u = [t EXCEPT !.waits = FALSE, !.exiting = FALSE]
    OBVIOUS
  <2>2. Sats!ChecksCancel(t, overdue) = u
    BY <1>1, <2>1, Zenon DEF Sats!ChecksCancel
  <2>3. Keeps(u)
    BY <2>1, SatsFlags, Zenon
  <2>4. QED BY <2>2, <2>3, Zenon
<1>2. CASE t.waits /\ (t.pos # 0 \/ t.stop # Sats!NoStop) /\ overdue
  <2>1. PICK u : u = [t EXCEPT !.waits = FALSE]
    OBVIOUS
  <2>2. Sats!ChecksCancel(t, overdue) = Sats!Halt(u)
    BY <1>2, <2>1, Zenon DEF Sats!ChecksCancel
  <2>3. Keeps(u)
    BY <2>1, SatsFlags, Zenon
  <2>4. QED BY <2>2, <2>3, SatsHalts, Zenon
<1>3. CASE ~(t.waits /\ t.pos = 0 /\ t.stop = Sats!NoStop) /\ ~(t.waits /\ (t.pos # 0 \/ t.stop # Sats!NoStop) /\ overdue)
  <2>1. Sats!ChecksCancel(t, overdue) = t
    BY <1>3, Zenon DEF Sats!ChecksCancel
  <2>2. QED BY <2>1, Zenon
<1>4. QED BY <1>1, <1>2, <1>3, Zenon

\* What the stop order's end and its filling change.
LEMMA SatsStopChanges ==
  ASSUME NEW t, Keeps(t), NEW number \in Nat \cup {Sats!NoStop}, NEW next \in Nat, NEW x, NEW y,
         NEW pos \in Int
  PROVE  /\ Keeps([t EXCEPT !.stop = number])
         /\ Keeps([t EXCEPT !.stop = number, !.waits = x])
         /\ Keeps([t EXCEPT !.stop = number, !.waits = x, !.exiting = y])
         /\ Keeps([t EXCEPT !.stop = number, !.refused = x])
         /\ Keeps([t EXCEPT !.stop = number, !.stops = next])
         /\ Keeps([t EXCEPT !.pos = pos])
BY DEF Keeps, Fields

\* `on_order_filled`.
LEMMA SatsOnFill ==
  ASSUME NEW t, Keeps(t), NEW e, NEW may, setup.lots \in Nat
  PROVE  Keeps(Sats!OnFill(t, e, may))
<1>1. PICK u : u = IF t.stop = e.id THEN [t EXCEPT !.stop = Sats!NoStop, !.waits = FALSE] ELSE t
  OBVIOUS
<1>2. Keeps(u)
  <2>1. PICK v : v = [t EXCEPT !.stop = Sats!NoStop, !.waits = FALSE]
    OBVIOUS
  <2>2. PICK none \in Nat \cup {Sats!NoStop} : none = Sats!NoStop
    OBVIOUS
  <2>3. \A x : Keeps([t EXCEPT !.stop = none, !.waits = x])
    <3>1. 0 \in Int /\ 0 \in Nat
      OBVIOUS
    <3>2. QED BY <3>1, SatsStopChanges, Zenon
  <2>4. Keeps(v)
    BY <2>1, <2>2, <2>3, Zenon
  <2>5. QED BY <1>1, <2>1, <2>4, Zenon
<1>3. PICK next : next = CASE u.pending # Sats!Flat -> Sats!TriesPending(u, may, FALSE)
                           [] u.pending = Sats!Flat /\ u.pos = 0 -> [u EXCEPT !.exiting = FALSE, !.flat = TRUE]
                           [] OTHER -> u
  OBVIOUS
<1>4. Keeps(next)
  <2>1. PICK no, yes : no = FALSE /\ yes = TRUE
    OBVIOUS
  <2>2. PICK tried, left : /\ tried = Sats!TriesPending(u, may, no)
                           /\ left = [u EXCEPT !.exiting = no, !.flat = yes]
    OBVIOUS
  <2>3. Keeps(tried) /\ Keeps(left)
    BY <1>2, <2>2, SatsTriesPending, SatsFlags, Zenon
  <2>4. next \in {tried, left, u}
    BY <1>3, <2>1, <2>2, Zenon
  <2>5. QED BY <1>2, <2>3, <2>4
<1>5. CASE ~Sats!StopWanted(next, e.side)
  <2>1. Sats!OnFill(t, e, may) = next
    BY <1>1, <1>3, <1>5, Zenon DEF Sats!OnFill
  <2>2. QED BY <1>4, <2>1, Zenon
<1>6. CASE Sats!StopWanted(next, e.side)
  <2>1. PICK number \in Nat : number = next.stops + 1
    BY <1>4 DEF Keeps
  <2>2. PICK v : v = [next EXCEPT !.stop = number, !.stops = number]
    OBVIOUS
  <2>3. Keeps(v)
    <3>1. 0 \in Int /\ number \in Nat \cup {Sats!NoStop}
      OBVIOUS
    <3>2. QED BY <1>4, <2>1, <2>2, <3>1, SatsStopChanges, Zenon
  <2>4. PICK lots \in Nat, side \in {-1, 0, 1} : lots = Sats!Abs(next.pos) /\ side = -next.side
    <3>1. -next.side \in {-1, 0, 1}
      BY <1>4 DEF Keeps
    <3>2. Sats!Abs(next.pos) \in Nat
      BY <1>4, SatsSize DEF Keeps
    <3>3. QED BY <3>1, <3>2
  <2>5. Sats!OnFill(t, e, may) = Sats!Submit(v, number, side, lots, TRUE)
    BY <1>1, <1>3, <1>6, <2>1, <2>2, <2>4, Zenon DEF Sats!OnFill
  <2>6. PICK reduce \in BOOLEAN : reduce = TRUE
    OBVIOUS
  <2>7. Keeps(Sats!Submit(v, number, side, lots, reduce))
    BY <2>3, <2>6, SatsSubmits
  <2>8. QED BY <2>5, <2>6, <2>7, Zenon
<1>7. QED BY <1>5, <1>6

\* `on_order_canceled`.
LEMMA SatsOnCancel ==
  ASSUME NEW t, Keeps(t), NEW e
  PROVE  Keeps(Sats!OnCancel(t, e))
<1>1. PICK none \in Nat \cup {Sats!NoStop}, zero \in Nat, at \in Int :
        none = Sats!NoStop /\ zero = 0 /\ at = 0
  <2>1. PICK none : none = Sats!NoStop
    OBVIOUS
  <2>2. none \in Nat \cup {Sats!NoStop} /\ 0 \in Nat /\ 0 \in Int
    BY <2>1
  <2>3. QED BY <2>1, <2>2, Zenon
<1>2. CASE t.stop # e.id
  <2>1. Sats!OnCancel(t, e) = t
    BY <1>2, Zenon DEF Sats!OnCancel
  <2>2. QED BY <2>1, Zenon
<1>3. CASE t.stop = e.id /\ ~t.waits
  <2>1. PICK u : u = [t EXCEPT !.stop = none]
    OBVIOUS
  <2>2. Sats!OnCancel(t, e) = u
    BY <1>1, <1>3, <2>1, Zenon DEF Sats!OnCancel
  <2>3. Keeps(u)
    BY <1>1, <2>1, SatsStopChanges, Zenon
  <2>4. QED BY <2>2, <2>3, Zenon
<1>4. CASE t.stop = e.id /\ t.waits
  <2>1. PICK u : u = [t EXCEPT !.stop = none, !.waits = FALSE, !.exiting = FALSE]
    OBVIOUS
  <2>2. Sats!OnCancel(t, e) = Sats!Flatten(u)
    BY <1>1, <1>4, <2>1, Zenon DEF Sats!OnCancel
  <2>3. Keeps(u)
    BY <1>1, <2>1, SatsStopChanges, Zenon
  <2>4. QED BY <2>2, <2>3, SatsFlattens, Zenon
<1>5. QED BY <1>2, <1>3, <1>4

\* `on_order_rejected`, `on_order_denied`.
LEMMA SatsOnRefusal ==
  ASSUME NEW t, Keeps(t), NEW e
  PROVE  Keeps(Sats!OnRefusal(t, e))
<1>1. PICK none \in Nat \cup {Sats!NoStop}, zero \in Nat, at \in Int :
        none = Sats!NoStop /\ zero = 0 /\ at = 0
  <2>1. PICK none : none = Sats!NoStop
    OBVIOUS
  <2>2. none \in Nat \cup {Sats!NoStop} /\ 0 \in Nat /\ 0 \in Int
    BY <2>1
  <2>3. QED BY <2>1, <2>2, Zenon
<1>2. CASE t.stop = e.id
  <2>1. PICK u : u = [t EXCEPT !.stop = none, !.refused = TRUE]
    OBVIOUS
  <2>2. Sats!OnRefusal(t, e) = u
    BY <1>1, <1>2, <2>1, Zenon DEF Sats!OnRefusal
  <2>3. Keeps(u)
    BY <1>1, <2>1, SatsStopChanges, Zenon
  <2>4. QED BY <2>2, <2>3, Zenon
<1>3. CASE t.stop # e.id
  <2>1. PICK u : u = [t EXCEPT !.exiting = FALSE]
    OBVIOUS
  <2>2. Sats!OnRefusal(t, e) = Sats!Halt(u)
    BY <1>3, <2>1, Zenon DEF Sats!OnRefusal
  <2>3. Keeps(u)
    BY <2>1, SatsFlags, Zenon
  <2>4. QED BY <2>2, <2>3, SatsHalts, Zenon
<1>4. QED BY <1>2, <1>3

\* What the client tells.
Reports == [event : {"filled"}, id : Nat, side : {-1, 0, 1}, lots : Nat]
           \cup [event : {"cancelled", "refused", "cancel refused"}, id : Nat]

\* Any event.
LEMMA SatsHandles ==
  ASSUME NEW t, Keeps(t), NEW e \in Reports, NEW may, setup.lots \in Nat
  PROVE  Keeps(Sats!Handled(t, e, may))
<1>1. CASE e.event = "filled"
  <2>1. PICK pos \in Int : pos = t.pos + e.side * e.lots
    <3>1. e.side \in {-1, 0, 1} /\ e.lots \in Nat
      BY <1>1 DEF Reports
    <3>2. QED BY <3>1 DEF Keeps
  <2>2. PICK u : u = [t EXCEPT !.pos = pos]
    OBVIOUS
  <2>3. Keeps(u)
    <3>1. 0 \in Nat /\ Sats!NoStop \in Nat \cup {Sats!NoStop}
      OBVIOUS
    <3>2. QED BY <2>2, <3>1, SatsStopChanges, Zenon
  <2>4. Sats!Handled(t, e, may) = Sats!OnFill(u, e, may)
    BY <1>1, <2>1, <2>2, Zenon DEF Sats!Handled
  <2>5. QED BY <2>3, <2>4, SatsOnFill, Zenon
<1>2. CASE e.event = "cancelled"
  <2>1. Sats!Handled(t, e, may) = Sats!OnCancel(t, e)
    BY <1>2, Zenon DEF Sats!Handled
  <2>2. QED BY <2>1, SatsOnCancel, Zenon
<1>3. CASE e.event = "refused"
  <2>1. Sats!Handled(t, e, may) = Sats!OnRefusal(t, e)
    BY <1>3, Zenon DEF Sats!Handled
  <2>2. QED BY <2>1, SatsOnRefusal, Zenon
<1>4. CASE e.event # "filled" /\ e.event # "cancelled" /\ e.event # "refused"
  <2>1. Sats!Handled(t, e, may) = t
    BY <1>4, Zenon DEF Sats!Handled
  <2>2. QED BY <2>1, Zenon
<1>5. QED BY <1>1, <1>2, <1>3, <1>4, Zenon

Exits(h, start, exits, cutoff, n) ==
  h = [i \in 0..n |-> IF i = 0 THEN start
                      ELSE IF cutoff /\ h[i - 1].entry = 0 THEN h[i - 1]
                      ELSE Sats!Exited(h[i - 1], model, exits[i])]
ExitsStep(t, u, cutoff, kind) ==
  u = IF cutoff /\ t.entry = 0 THEN t ELSE Sats!Exited(t, model, kind)

\* A history of the strategy on a bar starts at start and follows every exit in turn.
LEMMA ExitsInTurn ==
  ASSUME NEW start, NEW exits, NEW cutoff, NEW n \in Nat, NEW h
  PROVE  Exits(h, start, exits, cutoff, n) <=>
           /\ Reaches(h, n) /\ h[0] = start
           /\ \A i \in 1..n : ExitsStep(h[i - 1], h[i], cutoff, exits[i])
<1> DEFINE Now(i) == IF i = 0 THEN start
                     ELSE IF cutoff /\ h[i - 1].entry = 0 THEN h[i - 1]
                     ELSE Sats!Exited(h[i - 1], model, exits[i])
<1>1. ASSUME \A i \in 0..n : h[i] = Now(i)
      PROVE  [i \in 0..n |-> h[i]] = [i \in 0..n |-> Now(i)]
  BY <1>1, Zenon
<1>2. (\A i \in 0..n : h[i] = Now(i))
        <=> (h[0] = start /\ \A i \in 1..n : ExitsStep(h[i - 1], h[i], cutoff, exits[i]))
  <2>1. 0 \in 0..n /\ (\A i \in 1..n : i \in 0..n /\ i # 0) /\ \A i \in 0..n : i # 0 => i \in 1..n
    OBVIOUS
  <2>2. QED BY <2>1, Zenon DEF ExitsStep
<1>3. ASSUME Exits(h, start, exits, cutoff, n) PROVE \A i \in 0..n : h[i] = Now(i)
  BY <1>3, Zenon DEF Exits
<1>4. QED BY <1>1, <1>2, <1>3, Zenon DEF Exits, Reaches

\* Every number of exits has one.
LEMMA ExitsExist ==
  ASSUME NEW start, NEW exits, NEW cutoff, NEW n \in Nat
  PROVE  \E h : Exits(h, start, exits, cutoff, n)
<1> DEFINE S == {k \in Nat : \E h : Exits(h, start, exits, cutoff, k)}
<1>1. 0 \in S
  <2>1. PICK f : f = [i \in 0..0 |-> start]
    OBVIOUS
  <2>2. PICK h : Reaches(h, 0) /\ \A i \in 0..0 : h[i] = f[i]
    BY CutHistory
  <2>3. h[0] = start
    <3>1. 0 \in 0..0
      OBVIOUS
    <3>2. QED BY <2>1, <2>2, <3>1
  <2>4. \A i \in 1..0 : ExitsStep(h[i - 1], h[i], cutoff, exits[i])
    OBVIOUS
  <2>5. 0 \in Nat
    OBVIOUS
  <2>6. Exits(h, start, exits, cutoff, 0)
    BY ONLY <2>2, <2>3, <2>4, <2>5, ExitsInTurn
  <2>7. QED BY <2>6
<1>2. ASSUME NEW k \in Nat, k \in S PROVE k + 1 \in S
  <2>1. PICK h : Exits(h, start, exits, cutoff, k)
    BY <1>2
  <2>2. PICK x : ExitsStep(h[k], x, cutoff, exits[k + 1])
    BY Zenon DEF ExitsStep
  <2>3. PICK g : Reaches(g, k + 1) /\ g[k + 1] = x /\ \A i \in 0..k : g[i] = h[i]
    <3>1. \E g : Longer(g, h, k, x)
      BY LongerHistory
    <3>2. QED BY <3>1, Zenon DEF Longer
  <2>4. h[0] = start /\ \A i \in 1..k : ExitsStep(h[i - 1], h[i], cutoff, exits[i])
    BY ONLY k \in Nat, <2>1, ExitsInTurn
  <2>5. g[0] = start
    <3>1. 0 \in 0..k
      OBVIOUS
    <3>2. QED BY ONLY <2>3, <2>4, <3>1, Zenon
  <2>6. ASSUME NEW i \in 1..(k + 1) PROVE ExitsStep(g[i - 1], g[i], cutoff, exits[i])
    <3>1. i - 1 \in 0..k
      OBVIOUS
    <3>2. CASE i = k + 1
      <4>1. i - 1 = k
        BY <3>2
      <4>2. QED BY ONLY <2>2, <2>3, <3>1, <3>2, <4>1, Zenon
    <3>3. CASE i # k + 1
      <4>1. i \in 1..k /\ i \in 0..k
        BY <3>3
      <4>2. QED BY ONLY <2>3, <2>4, <3>1, <4>1, Zenon
    <3>4. QED BY <3>2, <3>3
  <2>7. k + 1 \in Nat
    OBVIOUS
  <2>8. Exits(g, start, exits, cutoff, k + 1)
    BY ONLY <2>3, <2>5, <2>6, <2>7, ExitsInTurn
  <2>9. QED BY <2>7, <2>8
<1>3. Nat \subseteq S
  <2> HIDE DEF S
  <2>1. QED BY <1>1, <1>2, Grows
<1>4. QED BY <1>3

\* What is sent on a bar's exits are calls.
LEMMA SatsAfterExits ==
  ASSUME NEW start, Keeps(start), NEW exits, Len(exits) \in Nat, NEW cutoff,
         model \in ModelTrades, setup.lots \in Nat
  PROVE  Keeps(Sats!AfterExits(start, exits, cutoff))
<1>1. PICK n \in Nat : n = Len(exits)
  OBVIOUS
<1>2. PICK h : h = CHOOSE f : Exits(f, start, exits, cutoff, n)
  OBVIOUS
<1>3. Exits(h, start, exits, cutoff, n)
  <2>1. \E f : Exits(f, start, exits, cutoff, n)
    BY ExitsExist
  <2>2. QED BY <1>2, <2>1, Zenon
<1>4. Sats!AfterExits(start, exits, cutoff) = h[n]
  BY <1>1, <1>2, Zenon DEF Sats!AfterExits, Exits
<1>5. h[0] = start /\ \A i \in 1..n : ExitsStep(h[i - 1], h[i], cutoff, exits[i])
  BY ONLY n \in Nat, <1>3, ExitsInTurn
<1> DEFINE Kept == {i \in Nat : i <= n => Keeps(h[i])}
<1>6. 0 \in Kept
  BY <1>5
<1>7. ASSUME NEW i \in Nat, i \in Kept PROVE i + 1 \in Kept
  <2>1. SUFFICES ASSUME i + 1 <= n PROVE Keeps(h[i + 1])
    OBVIOUS
  <2>2. Keeps(h[i]) /\ i + 1 \in 1..n /\ (i + 1) - 1 = i
    BY <1>7, <2>1
  <2>3. ExitsStep(h[i], h[i + 1], cutoff, exits[i + 1])
    BY <1>5, <2>2, Zenon
  <2>4. Keeps(Sats!Exited(h[i], model, exits[i + 1]))
    BY <2>2, SatsExits, Zenon
  <2>5. QED BY <2>2, <2>3, <2>4, Zenon DEF ExitsStep
<1>8. Nat \subseteq Kept
  <2> HIDE DEF Kept
  <2>1. QED BY <1>6, <1>7, Grows
<1>9. n \in Kept
  <2> HIDE DEF Kept
  <2>1. QED BY <1>8
<1>10. Keeps(h[n])
  BY <1>9
<1>11. QED BY <1>4, <1>10, Zenon

\* An order at Kite.  An exit may trade no more than the position that is not told
\* yet; an entry met no position, and all that is owned is what was told of it.
OrderFields == {"id", "side", "lots", "reduce", "filled", "told", "over", "tried"}
Fits(o) ==
  /\ DOMAIN o = OrderFields
  /\ o.id \in Nat /\ o.side \in {-1, 0, 1}
  /\ o.lots \in Nat /\ o.filled \in Nat /\ o.told \in Nat
  /\ o.told <= o.filled /\ o.filled <= o.lots
  /\ o.reduce => -(o.side * owned) >= o.lots - o.told
  /\ ~o.reduce => owned = o.side * o.told /\ o.lots = setup.lots

\* The inductive invariant: one order at a time, admitted on the position it meets.
SatsInv ==
  /\ setup \in Setups /\ setup.lots \in Nat
  /\ model \in ModelTrades /\ begun \in Nat
  /\ Keeps(strategy) /\ calls \in Seq(Commands(setup.lots)) /\ news \in Seq(Reports)
  /\ owned \in -setup.lots..setup.lots
  /\ working = {} \/ \E o : working = {o} /\ Fits(o)

\* The market's and the account's part of the invariant, which no handler touches.
AtKite ==
  /\ news \in Seq(Reports)
  /\ owned \in -setup.lots..setup.lots
  /\ working = {} \/ \E o : working = {o} /\ Fits(o)

\* Nothing is a sequence of anything.
LEMMA NothingSent ==
  ASSUME NEW S
  PROVE  <<>> \in Seq(S)
OBVIOUS

\* The strategy starts without an order.
LEMMA SatsStarts == Init => SatsInv
<1>1. SUFFICES ASSUME Init PROVE SatsInv
  OBVIOUS
<1>2. setup \in Setups /\ setup.lots \in Nat
  BY <1>1, ServicesAssumption DEF Init, Sats!Init, Sats!SatsLiveAssumption
<1>3. model \in ModelTrades /\ begun \in Nat /\ working = {} /\ owned = 0
  BY <1>1, SatsNone DEF Init, Sats!Init
<1>4. news \in Seq(Reports) /\ calls \in Seq(Commands(setup.lots))
  BY <1>1 DEF Init, Sats!Init
<1>5. Keeps(strategy)
  <2>1. strategy = Sats!NewStrategy
    BY <1>1 DEF Init, Sats!Init
  <2>2. PICK none \in Seq(Commands(setup.lots)) : none = <<>>
    BY NothingSent, Zenon
  <2>3. 0 \in Int /\ 0 \in Nat /\ 0 \in {-1, 0, 1}
    OBVIOUS
  <2>4. /\ DOMAIN strategy = Fields
        /\ strategy.pos = 0 /\ strategy.open = 0 /\ strategy.pending = Sats!Flat
        /\ strategy.stop = Sats!NoStop /\ strategy.stops = 0 /\ strategy.side = 0 /\ strategy.sent = <<>>
    BY <2>1 DEF Sats!NewStrategy, Fields
  <2>5. QED BY <2>2, <2>3, <2>4, SatsNone, Zenon DEF Keeps
<1>6. QED BY <1>2, <1>3, <1>4, <1>5 DEF SatsInv

\* What a handler leaves is the strategy without the calls, which go to their queue.
LEMMA SatsBecomes ==
  ASSUME SatsInv, NEW t, Keeps(t), Sats!Becomes(t), UNCHANGED setup
  PROVE  Keeps(strategy)' /\ calls' \in Seq(Commands(setup'.lots))
<1>1. PICK none \in Seq(Commands(setup.lots)) : none = <<>>
  BY NothingSent, Zenon
<1>2. strategy' = [t EXCEPT !.sent = none] /\ calls' = calls \o t.sent
  BY <1>1, Zenon DEF Sats!Becomes
<1>3. Keeps(strategy')
  BY <1>2, SatsSends, Zenon
<1>4. PICK a \in Seq(Commands(setup.lots)), b \in Seq(Commands(setup.lots)) : a = calls /\ b = t.sent
  BY DEF SatsInv, Keeps
<1>5. a \o b \in Seq(Commands(setup.lots))
  BY ConcatProperties
<1>6. calls' \in Seq(Commands(setup.lots))
  BY <1>2, <1>4, <1>5, Zenon
<1>7. QED BY <1>3, <1>6 DEF Keeps

\* A handler leaves the account alone.
LEMMA SatsHandlerKeeps ==
  ASSUME SatsInv, NEW t, Keeps(t), Sats!Becomes(t), UNCHANGED <<setup, working, owned>>,
         model' \in ModelTrades, begun' \in Nat, news' \in Seq(Reports)
  PROVE  SatsInv'
<1>1. Keeps(strategy)' /\ calls' \in Seq(Commands(setup'.lots))
  BY SatsBecomes, Zenon
<1>2. AtKite'
  BY DEF SatsInv, AtKite, Fits
<1>3. QED BY <1>1, <1>2 DEF SatsInv, AtKite

\* The events of a trade on a bar are so many.
LEMMA SatsExitsType ==
  ASSUME model \in ModelTrades, NEW exits \in Sats!Exits
  PROVE  Len(exits) \in Nat
<1> DEFINE Kinds == {Sats!Hit(k) : k \in Int} \cup {"SL", "flip", "timeout"}
<1>1. ASSUME NEW k \in model.hits..3 PROVE Sats!Hits(model.hits, k) \in Seq(Kinds)
  <2>1. PICK j \in Int, n \in Nat : j = model.hits /\ n = k - j
    BY <1>1 DEF ModelTrades
  <2>2. \A i \in 1..n : Sats!Hit(j + i) \in Kinds
    OBVIOUS
  <2> HIDE DEF Kinds
  <2>3. [i \in 1..n |-> Sats!Hit(j + i)] \in Seq(Kinds)
    BY <2>2
  <2>4. QED BY <2>1, <2>3, Zenon DEF Sats!Hits
<1>2. ASSUME NEW s \in Seq(Kinds), NEW end \in {"flip", "timeout"} PROVE Append(s, end) \in Seq(Kinds)
  <2>1. end \in Kinds
    OBVIOUS
  <2> HIDE DEF Kinds
  <2>2. QED BY <2>1
<1>3. <<>> \in Seq(Kinds) /\ <<"SL">> \in Seq(Kinds)
  OBVIOUS
<1> HIDE DEF Kinds
<1>4. exits \in Seq(Kinds)
  <2>1. CASE model = Sats!Flat
    <3>1. exits \in {<<>>}
      BY <2>1, Zenon DEF Sats!Exits
    <3>2. QED BY <1>3, <3>1, Zenon
  <2>2. CASE model # Sats!Flat /\ model.trade # strategy.entry
    <3>1. exits \in {<<>>, <<"SL">>}
      BY <2>2, Zenon DEF Sats!Exits
    <3>2. QED BY <1>3, <3>1, Zenon
  <2>3. CASE model # Sats!Flat /\ model.trade = strategy.entry
    <3>1. PICK A : A = {<<"SL">>}
      OBVIOUS
    <3>2. PICK B : B = {Sats!Hits(model.hits, k) : k \in model.hits..3}
      OBVIOUS
    <3>3. PICK C : C = {Append(Sats!Hits(model.hits, k), "flip") : k \in model.hits..2}
      OBVIOUS
    <3>4. PICK D : D = {Append(Sats!Hits(model.hits, k), "timeout") : k \in model.hits..2}
      OBVIOUS
    <3>5. Sats!Exits = ((A \cup B) \cup C) \cup D
      BY <2>3, <3>1, <3>2, <3>3, <3>4, Zenon DEF Sats!Exits
    <3>6. model.hits..2 \subseteq model.hits..3
      BY DEF ModelTrades
    <3>7. A \subseteq Seq(Kinds)
      BY <1>3, <3>1, Zenon
    <3>8. B \subseteq Seq(Kinds)
      BY <1>1, <3>2, Zenon
    <3>9. C \subseteq Seq(Kinds) /\ D \subseteq Seq(Kinds)
      BY <1>1, <1>2, <3>3, <3>4, <3>6, Zenon
    <3>10. QED BY <3>5, <3>7, <3>8, <3>9, Zenon
  <2>4. QED BY <2>1, <2>2, <2>3
<1>5. QED BY <1>4

\* A bar of the strategy.
LEMMA SatsBarKeeps ==
  ASSUME SatsInv, Sats!OnBar
  PROVE  SatsInv'
<1>1. PICK exits \in Sats!Exits, enters \in {-1, 0, 1}, cutoff \in BOOLEAN, overdue \in BOOLEAN :
        Sats!Bar(exits, enters, cutoff, overdue)
  BY Zenon DEF Sats!OnBar
<1>2. UNCHANGED <<setup, working, owned, news>>
  BY DEF Sats!OnBar, Sats!clientVars
<1>3. /\ model \in ModelTrades /\ setup.lots \in Nat /\ Keeps(strategy) /\ begun \in Nat
      /\ news \in Seq(Reports)
  BY DEF SatsInv
<1>4. Len(exits) \in Nat
  BY <1>3, SatsExitsType, Zenon
<1>5. PICK marked : marked = [strategy EXCEPT !.done = TRUE]
  OBVIOUS
<1>6. Keeps(marked)
  BY <1>3, <1>5, SatsFlags, Zenon
<1>7. PICK start : start = IF cutoff /\ ~strategy.done THEN Sats!Flatten(marked) ELSE strategy
  OBVIOUS
<1>8. Keeps(start)
  BY <1>3, <1>6, <1>7, SatsFlattens, Zenon
<1>9. PICK out : out = Sats!AfterExits(start, exits, cutoff)
  OBVIOUS
<1>10. Keeps(out)
  BY <1>3, <1>4, <1>8, <1>9, SatsAfterExits, Zenon
<1>11. PICK next : next = [side |-> enters, trade |-> begun + 1, hits |-> 0]
  OBVIOUS
<1>12. next \in ModelTrades
  BY <1>3, <1>11 DEF ModelTrades
<1>13. \A may : Keeps(Sats!Entered(out, next, may))
  BY <1>3, <1>10, <1>12, SatsEnters, Zenon
<1>14. /\ Sats!Becomes(IF enters = 0 THEN out
                      ELSE Sats!Entered(out, next, ~cutoff /\ ~stopped /\ ~start.halted /\ ~overdue))
       /\ model' = CASE enters # 0 -> next
                     [] enters = 0 /\ Sats!Ends(exits) -> Sats!Flat
                     [] OTHER -> [model EXCEPT !.hits = IF model = Sats!Flat THEN 0 ELSE @ + Len(exits)]
       /\ begun' = IF enters # 0 THEN begun + 1 ELSE begun
  BY <1>1, <1>5, <1>7, <1>9, <1>11, Zenon DEF Sats!Bar
<1>15. model' \in ModelTrades
  <2>1. PICK hits \in Int : hits = IF model = Sats!Flat THEN 0 ELSE model.hits + Len(exits)
    BY <1>3, <1>4 DEF ModelTrades
  <2>2. [model EXCEPT !.hits = hits] \in ModelTrades
    BY <1>3 DEF ModelTrades
  <2>3. model' \in {next, Sats!Flat, [model EXCEPT !.hits = hits]}
    BY <1>14, <2>1, Zenon
  <2>4. QED BY <1>12, <2>2, <2>3, SatsNone, Zenon
<1>16. begun' \in Nat /\ news' \in Seq(Reports)
  BY <1>2, <1>3, <1>14
<1>17. PICK t : t = IF enters = 0 THEN out
                    ELSE Sats!Entered(out, next, ~cutoff /\ ~stopped /\ ~start.halted /\ ~overdue)
  OBVIOUS
<1>18. Keeps(t)
  BY <1>10, <1>13, <1>17, Zenon
<1>19. Sats!Becomes(t)
  BY <1>14, <1>17, Zenon
<1>20. QED BY <1>2, <1>15, <1>16, <1>18, <1>19, SatsHandlerKeeps, Zenon

\* A quote, the timer, an event.
LEMMA SatsOthersKeep ==
  ASSUME SatsInv, Sats!OnQuote \/ Sats!OnTimer \/ Sats!OnEvent
  PROVE  SatsInv'
<1>1. /\ model \in ModelTrades /\ setup.lots \in Nat /\ Keeps(strategy) /\ begun \in Nat
      /\ news \in Seq(Reports)
  BY DEF SatsInv
<1>2. SUFFICES ASSUME NEW t, Keeps(t), Sats!Becomes(t), UNCHANGED <<setup, model, begun, working, owned>>,
                      news' \in Seq(Reports)
               PROVE  SatsInv'
  <2>1. ASSUME Sats!OnQuote
        PROVE  \E t : /\ Keeps(t) /\ Sats!Becomes(t)
                      /\ UNCHANGED <<setup, model, begun, working, owned>> /\ news' \in Seq(Reports)
    <3>1. PICK u : u = [strategy EXCEPT !.level = "active"]
      OBVIOUS
    <3>2. Keeps(u) /\ Keeps(Sats!Flatten(strategy))
      BY <1>1, <3>1, SatsFlags, SatsFlattens, Zenon
    <3>3. Sats!Becomes(u) \/ Sats!Becomes(Sats!Flatten(strategy))
      BY <2>1, <3>1, Zenon DEF Sats!OnQuote
    <3>4. UNCHANGED <<setup, model, begun, working, owned, news>>
      BY <2>1 DEF Sats!OnQuote, Sats!clientVars
    <3>5. QED BY <1>1, <3>2, <3>3, <3>4
  <2>2. ASSUME Sats!OnTimer
        PROVE  \E t : /\ Keeps(t) /\ Sats!Becomes(t)
                      /\ UNCHANGED <<setup, model, begun, working, owned>> /\ news' \in Seq(Reports)
    <3>1. PICK overdue \in BOOLEAN, may \in BOOLEAN :
            LET guarded == IF strategy.halted THEN strategy ELSE Sats!Halt(strategy)
                tried == Sats!ChecksCancel(Sats!TriesPending(strategy, may, overdue), overdue)
            IN  Sats!Becomes(IF stopped THEN Sats!ChecksCancel(Sats!Flatten(guarded), overdue)
                             ELSE [tried EXCEPT !.flat = tried.pos = 0 /\ ~tried.exiting])
      BY <2>2, Zenon DEF Sats!OnTimer
    <3>2. PICK guarded, tried :
            /\ guarded = IF strategy.halted THEN strategy ELSE Sats!Halt(strategy)
            /\ tried = Sats!ChecksCancel(Sats!TriesPending(strategy, may, overdue), overdue)
      OBVIOUS
    <3>3. Keeps(guarded) /\ Keeps(tried)
      BY <1>1, <3>2, SatsHalts, SatsTriesPending, SatsChecksCancel, Zenon
    <3>4. PICK u, v : /\ u = Sats!ChecksCancel(Sats!Flatten(guarded), overdue)
                      /\ v = [tried EXCEPT !.flat = tried.pos = 0 /\ ~tried.exiting]
      OBVIOUS
    <3>5. Keeps(u) /\ Keeps(v)
      BY <3>3, <3>4, SatsFlattens, SatsChecksCancel, SatsFlags, Zenon
    <3>6. Sats!Becomes(u) \/ Sats!Becomes(v)
      <4>1. CASE stopped
        BY <3>1, <3>2, <3>4, <4>1, Zenon
      <4>2. CASE ~stopped
        BY <3>1, <3>2, <3>4, <4>2, Zenon
      <4>3. QED BY <4>1, <4>2
    <3>7. UNCHANGED <<setup, model, begun, working, owned, news>>
      BY <2>2 DEF Sats!OnTimer, Sats!clientVars
    <3>8. QED BY <1>1, <3>5, <3>6, <3>7
  <2>3. ASSUME Sats!OnEvent
        PROVE  \E t : /\ Keeps(t) /\ Sats!Becomes(t)
                      /\ UNCHANGED <<setup, model, begun, working, owned>> /\ news' \in Seq(Reports)
    <3>1. news # <<>> /\ news' = Tail(news) /\ UNCHANGED <<setup, model, begun, working, owned>>
      BY <2>3 DEF Sats!OnEvent, Sats!clientVars
    <3>2. PICK may \in BOOLEAN : Sats!Becomes(Sats!Handled(strategy, Head(news), may))
      BY <2>3, Zenon DEF Sats!OnEvent
    <3>3. Head(news) \in Reports /\ news' \in Seq(Reports)
      BY <1>1, <3>1
    <3>4. Keeps(Sats!Handled(strategy, Head(news), may))
      BY <1>1, <3>3, SatsHandles, Zenon
    <3>5. QED BY <3>1, <3>2, <3>3, <3>4, Zenon
  <2>4. QED BY <1>2, <2>1, <2>2, <2>3
<1>3. model' \in ModelTrades /\ begun' \in Nat /\ UNCHANGED <<setup, working, owned>>
  BY <1>1, <1>2
<1>4. QED BY <1>2, <1>3, SatsHandlerKeeps, Zenon

\* A call that reaches the dispatcher.
LEMMA SatsRuns ==
  ASSUME SatsInv, NEW what, Sats!Runs(what)
  PROVE  /\ calls' \in Seq(Commands(setup.lots))
         /\ Head(calls) \in Commands(setup.lots) /\ Head(calls).call = what
<1>1. PICK S : S = Commands(setup.lots)
  OBVIOUS
<1>2. calls \in Seq(S) /\ calls # <<>> /\ calls' = Tail(calls) /\ Head(calls).call = what
  BY <1>1, Zenon DEF SatsInv, Sats!Runs
<1>3. calls' \in Seq(S) /\ Head(calls) \in S
  BY <1>2
<1>4. QED BY <1>1, <1>2, <1>3, Zenon

\* The strategy waits while the client and Kite go on.
LEMMA SatsAccountKeeps ==
  ASSUME SatsInv, AtKite', UNCHANGED <<setup, model, begun, strategy>>,
         calls' \in Seq(Commands(setup.lots))
  PROVE  SatsInv'
BY DEF SatsInv, AtKite, Keeps

\* What is told is appended to what waits.
LEMMA SatsTells ==
  ASSUME NEW list \in Seq(Reports), NEW more \in Seq(Reports)
  PROVE  list \o more \in Seq(Reports)
BY ConcatProperties

\* One of them is a sequence.
LEMMA SatsOne ==
  ASSUME NEW S, NEW r \in S
  PROVE  <<r>> \in Seq(S)
OBVIOUS

\* Of an order that ends, or that is refused.
LEMMA SatsTellsOf ==
  ASSUME NEW id \in Nat, NEW event \in {"cancelled", "refused", "cancel refused"}
  PROVE  <<[event |-> event, id |-> id]>> \in Seq(Reports)
<1>1. PICK r : r = [event |-> event, id |-> id]
  OBVIOUS
<1>2. r \in Reports
  BY <1>1 DEF Reports
<1>3. <<r>> \in Seq(Reports)
  BY <1>2, SatsOne, Zenon
<1>4. QED BY <1>1, <1>3, Zenon

\* An order is admitted on the position that it meets.
LEMMA SatsPlaceKeeps ==
  ASSUME SatsInv, Sats!Places
  PROVE  SatsInv'
<1>1. Sats!Runs("place") /\ UNCHANGED <<setup, model, begun, strategy, owned>>
  BY DEF Sats!Places
<1>2. calls' \in Seq(Commands(setup.lots))
  BY <1>1, SatsRuns
<1>3. PICK c : c = Head(calls)
  OBVIOUS
<1>4. c \in Placings /\ (c.reduce \/ c.lots = setup.lots)
  <2>1. c \in Commands(setup.lots) /\ c.call = "place"
    BY <1>1, <1>3, SatsRuns, Zenon
  <2>2. QED BY <2>1 DEF Commands
<1>5. /\ c.id \in Nat /\ c.side \in {-1, 0, 1} /\ c.lots \in Nat /\ c.reduce \in BOOLEAN
  BY <1>4, Zenon DEF Placings
<1>6. news \in Seq(Reports) /\ owned \in Int /\ setup.lots \in Nat
  BY DEF SatsInv
<1>7. CASE Sats!Emits(<<Sats!Refused(c.id)>>) /\ UNCHANGED working
  <2>1. <<Sats!Refused(c.id)>> \in Seq(Reports)
    <3>1. Sats!Refused(c.id) = [event |-> "refused", id |-> c.id]
      BY Zenon DEF Sats!Refused
    <3>2. QED BY <1>5, <3>1, SatsTellsOf, Zenon
  <2>2. news' \in Seq(Reports)
    BY <1>6, <1>7, <2>1, SatsTells, Zenon DEF Sats!Emits
  <2>3. AtKite'
    BY <1>1, <1>7, <2>2 DEF SatsInv, AtKite, Fits
  <2>4. QED BY <1>1, <1>2, <2>3, SatsAccountKeeps, Zenon
<1>8. CASE /\ Sats!Admits(c) /\ UNCHANGED news
           /\ working' = working \cup
                {[id |-> c.id, side |-> c.side, lots |-> c.lots,
                  reduce |-> c.reduce, filled |-> 0, told |-> 0, over |-> FALSE, tried |-> FALSE]}
  <2>1. working = {} /\ (c.reduce => Sats!Sign(owned) = -c.side /\ c.lots <= Sats!Abs(owned))
        /\ (~c.reduce => owned = 0)
    BY <1>8, Zenon DEF Sats!Admits, Sats!AdmitsBeside
  <2>2. PICK o : o = [id |-> c.id, side |-> c.side, lots |-> c.lots,
                      reduce |-> c.reduce, filled |-> 0, told |-> 0, over |-> FALSE, tried |-> FALSE]
    OBVIOUS
  <2>3. working' = {o}
    BY <1>8, <2>1, <2>2, Zenon
  <2>4. /\ DOMAIN o = OrderFields /\ o.id = c.id /\ o.side = c.side /\ o.lots = c.lots
        /\ o.filled = 0 /\ o.told = 0
    BY <2>2 DEF OrderFields
  <2>5. o.reduce = c.reduce
    BY <2>2, Zenon
  <2>6. c.reduce => -(c.side * owned) >= c.lots
    <3>1. SUFFICES ASSUME c.reduce PROVE -(c.side * owned) >= c.lots
      OBVIOUS
    <3>2. Sats!Sign(owned) \in {-1, 0, 1}
      BY <1>6, SatsSize, Zenon
    <3>3. PICK s \in {-1, 0, 1} : s = Sats!Sign(owned)
      BY <3>2, Zenon
    <3>4. Sats!Abs(owned) = owned * s /\ s = -c.side /\ c.lots <= Sats!Abs(owned)
      BY <2>1, <3>1, <3>3, Zenon DEF Sats!Abs
    <3>5. QED BY <1>5, <1>6, <3>4
  <2>7. Fits(o)
    BY <1>4, <1>5, <1>6, <2>1, <2>4, <2>5, <2>6 DEF Fits
  <2>8. Fits(o)'
    BY <1>1, <2>7 DEF Fits
  <2>9. AtKite'
    BY <1>1, <1>8, <2>3, <2>8 DEF SatsInv, AtKite
  <2>10. QED BY <1>1, <1>2, <2>9, SatsAccountKeeps, Zenon
<1>9. QED BY <1>3, <1>7, <1>8, Zenon DEF Sats!Places

\* There is one order at a time.
LEMMA SatsOneOrder ==
  ASSUME SatsInv, NEW o \in working
  PROVE  working = {o} /\ Fits(o)
<1>1. PICK p : working = {p} /\ Fits(p)
  BY DEF SatsInv
<1>2. o = p
  BY <1>1
<1>3. QED BY <1>1, <1>2, Zenon

\* What Kite or a call does to an order that works.
LEMMA SatsOrderChanges ==
  ASSUME NEW o, Fits(o), NEW x, NEW y
  PROVE  /\ Fits([o EXCEPT !.tried = x, !.over = y])
         /\ Fits([o EXCEPT !.over = x])
         /\ Sats!Left(o) > 0 => Fits([o EXCEPT !.filled = o.filled + 1])
         /\ Sats!Left(o) > 0 => o.filled < o.lots
<1>1. Fits([o EXCEPT !.tried = x, !.over = y]) /\ Fits([o EXCEPT !.over = x])
  BY DEF Fits, OrderFields
<1>2. ASSUME Sats!Left(o) > 0 PROVE o.filled < o.lots
  <2>1. Sats!Left(o) = o.lots - o.filled
    <3>1. CASE o.over
      <4>1. Sats!Left(o) = 0
        BY <3>1, Zenon DEF Sats!Left
      <4>2. QED BY <1>2, <4>1
    <3>2. CASE ~o.over
      BY <3>2, Zenon DEF Sats!Left
    <3>3. QED BY <3>1, <3>2
  <2>2. QED BY <1>2, <2>1 DEF Fits
<1>3. ASSUME o.filled < o.lots PROVE Fits([o EXCEPT !.filled = o.filled + 1])
  <2>1. PICK filled \in Nat : filled = o.filled + 1
    BY DEF Fits
  <2>2. filled <= o.lots /\ o.told <= filled
    BY <1>3, <2>1 DEF Fits
  <2>3. Fits([o EXCEPT !.filled = filled])
    BY <2>2 DEF Fits, OrderFields
  <2>4. QED BY <2>1, <2>3, Zenon
<1>4. QED BY <1>1, <1>2, <1>3

\* One order takes the place of the one.
LEMMA SatsOrderKeeps ==
  ASSUME SatsInv, NEW o \in working, NEW p, Fits(p),
         working' = (working \ {o}) \cup {p}, UNCHANGED <<setup, owned>>, news' \in Seq(Reports)
  PROVE  AtKite'
<1>1. working' = {p}
  BY SatsOneOrder
<1>2. Fits(p)'
  BY DEF Fits
<1>3. QED BY <1>1, <1>2 DEF SatsInv, AtKite

\* A cancel reaches the dispatcher.
LEMMA SatsCancelKeeps ==
  ASSUME SatsInv, Sats!Cancels
  PROVE  SatsInv'
<1>1. Sats!Runs("cancel") /\ UNCHANGED <<setup, model, begun, strategy, owned>>
  BY DEF Sats!Cancels
<1>2. calls' \in Seq(Commands(setup.lots))
  BY <1>1, SatsRuns
<1>3. PICK id : id = Head(calls).id
  OBVIOUS
<1>4. id \in Nat
  <2>1. Head(calls) \in Commands(setup.lots)
    BY <1>1, SatsRuns
  <2>2. QED BY <1>3, <2>1 DEF Commands, Placings
<1>5. news \in Seq(Reports)
  BY DEF SatsInv
<1>6. PICK o : o = Sats!Order(id)
  OBVIOUS
<1>7. Sats!Works(id) => o \in working
  BY <1>6, Zenon DEF Sats!Works, Sats!Order
<1>8. CASE UNCHANGED <<working, news>>
  <2>1. AtKite'
    BY <1>1, <1>8 DEF SatsInv, AtKite, Fits
  <2>2. QED BY <1>1, <1>2, <2>1, SatsAccountKeeps, Zenon
<1>9. CASE Sats!Works(id) /\ Sats!CancelTried(o, TRUE) /\ UNCHANGED news
  <2>1. PICK x, y : x = TRUE /\ y = TRUE
    OBVIOUS
  <2>2. PICK p : p = [o EXCEPT !.tried = x, !.over = y]
    OBVIOUS
  <2>3. Fits(p)
    BY <1>7, <1>9, <2>2, SatsOneOrder, SatsOrderChanges, Zenon
  <2>4. working' = (working \ {o}) \cup {p}
    BY <1>9, <2>1, <2>2, Zenon DEF Sats!CancelTried
  <2>5. AtKite'
    BY <1>1, <1>5, <1>7, <1>9, <2>3, <2>4, SatsOrderKeeps
  <2>6. QED BY <1>1, <1>2, <2>5, SatsAccountKeeps, Zenon
<1>10. CASE /\ Sats!Works(id) /\ Sats!CancelTried(o, o.over)
            /\ Sats!Emits(<<[event |-> "cancel refused", id |-> id]>>)
  <2>1. PICK x, y : x = TRUE /\ y = o.over
    OBVIOUS
  <2>2. PICK p : p = [o EXCEPT !.tried = x, !.over = y]
    OBVIOUS
  <2>3. Fits(p)
    BY <1>7, <1>10, <2>2, SatsOneOrder, SatsOrderChanges, Zenon
  <2>4. working' = (working \ {o}) \cup {p}
    BY <1>10, <2>1, <2>2, Zenon DEF Sats!CancelTried
  <2>5. news' \in Seq(Reports)
    BY <1>4, <1>5, <1>10, SatsTellsOf, SatsTells, Zenon DEF Sats!Emits
  <2>6. AtKite'
    BY <1>1, <1>7, <1>10, <2>3, <2>4, <2>5, SatsOrderKeeps
  <2>7. QED BY <1>1, <1>2, <2>6, SatsAccountKeeps, Zenon
<1>11. QED BY <1>3, <1>6, <1>8, <1>9, <1>10, Zenon DEF Sats!Cancels

\* What an order's fills make of the position, when they are told.
LEMMA SatsTold ==
  ASSUME setup.lots \in Nat, owned \in -setup.lots..setup.lots, NEW o, Fits(o),
         NEW newly \in Int, newly = owned + o.side * (o.filled - o.told)
  PROVE  /\ newly \in -setup.lots..setup.lots
         /\ o.reduce => -(o.side * newly) >= o.lots - o.filled
         /\ ~o.reduce => newly = o.side * o.filled
<1>1. /\ o.lots \in Nat /\ o.filled \in Nat /\ o.told \in Nat
      /\ o.told <= o.filled /\ o.filled <= o.lots
      /\ o.reduce => -(o.side * owned) >= o.lots - o.told
      /\ ~o.reduce => owned = o.side * o.told /\ o.lots = setup.lots
  BY DEF Fits
<1>2. PICK s \in {-1, 0, 1} : s = o.side
  BY DEF Fits
<1>3. CASE s = 0
  BY <1>1, <1>2, <1>3
<1>4. CASE s = 1
  BY <1>1, <1>2, <1>4
<1>5. CASE s = -1
  BY <1>1, <1>2, <1>5
<1>6. QED BY <1>3, <1>4, <1>5

\* The dispatcher tells what Kite did.
LEMMA SatsReconcileKeeps ==
  ASSUME SatsInv, NEW o \in working, Sats!Reconciles(o)
  PROVE  SatsInv'
<1>1. UNCHANGED <<setup, model, begun, strategy, calls>>
  BY DEF Sats!Reconciles
<1>2. /\ working = {o} /\ Fits(o) /\ news \in Seq(Reports) /\ setup.lots \in Nat
      /\ owned \in -setup.lots..setup.lots /\ calls \in Seq(Commands(setup.lots))
  BY SatsOneOrder DEF SatsInv
<1>3. PICK lots \in Nat : lots = o.filled - o.told
  BY <1>2 DEF Fits
<1>4. PICK fill : fill = IF lots > 0
                           THEN <<[event |-> "filled", id |-> o.id, side |-> o.side, lots |-> lots]>>
                           ELSE <<>>
  OBVIOUS
<1>5. fill \in Seq(Reports)
  <2>1. PICK r : r = [event |-> "filled", id |-> o.id, side |-> o.side, lots |-> lots]
    OBVIOUS
  <2>2. r \in Reports
    BY <1>2, <2>1 DEF Reports, Fits
  <2>3. <<r>> \in Seq(Reports)
    BY <2>2, SatsOne, Zenon
  <2>4. QED BY <1>4, <2>1, <2>3, NothingSent, Zenon
<1>6. PICK end : end = IF o.over THEN <<[event |-> "cancelled", id |-> o.id]>> ELSE <<>>
  OBVIOUS
<1>7. end \in Seq(Reports)
  <2>1. o.id \in Nat
    BY <1>2 DEF Fits
  <2>2. <<[event |-> "cancelled", id |-> o.id]>> \in Seq(Reports)
    BY <2>1, SatsTellsOf, Zenon
  <2>3. QED BY <1>6, <2>2, NothingSent, Zenon
<1>8. /\ news' = news \o (fill \o end) /\ owned' = owned + o.side * lots
      /\ working' = (working \ {o}) \cup
                      (IF Sats!Left(o) = 0 THEN {} ELSE {[o EXCEPT !.told = o.filled]})
  BY <1>3, <1>4, <1>6, Zenon DEF Sats!Reconciles, Sats!Emits
<1>9. news' \in Seq(Reports)
  <2>1. fill \o end \in Seq(Reports)
    BY <1>5, <1>7, SatsTells, Zenon
  <2>2. QED BY <1>2, <1>8, <2>1, SatsTells, Zenon
<1>10. PICK newly \in Int : newly = owned + o.side * lots
  <2>1. o.side \in Int
    BY <1>2 DEF Fits
  <2>2. owned + o.side * lots \in Int
    BY <1>2, <2>1
  <2>3. QED BY <2>2, Zenon
<1>11. /\ newly \in -setup.lots..setup.lots
       /\ o.reduce => -(o.side * newly) >= o.lots - o.filled
       /\ ~o.reduce => newly = o.side * o.filled
  BY <1>2, <1>3, <1>10, SatsTold, Zenon
<1>12. CASE Sats!Left(o) = 0
  <2>1. working' = {}
    <3>1. working' = (working \ {o}) \cup {}
      BY <1>8, <1>12, Zenon
    <3>2. QED BY <1>2, <3>1, Zenon
  <2>2. AtKite'
    BY <1>1, <1>8, <1>9, <1>10, <1>11, <2>1 DEF AtKite
  <2>3. QED BY <1>1, <1>2, <2>2, SatsAccountKeeps, Zenon
<1>13. CASE Sats!Left(o) # 0
  <2>1. PICK p : p = [o EXCEPT !.told = o.filled]
    OBVIOUS
  <2>2. working' = {p}
    <3>1. working' = (working \ {o}) \cup {p}
      BY <1>8, <1>13, <2>1, Zenon
    <3>2. QED BY <1>2, <3>1, Zenon
  <2>3. /\ DOMAIN p = OrderFields /\ p.id = o.id /\ p.side = o.side /\ p.lots = o.lots
        /\ p.filled = o.filled /\ p.told = o.filled
    BY <1>2, <2>1 DEF Fits, OrderFields
  <2>4. p.reduce = o.reduce
    BY <1>2, <2>1 DEF Fits, OrderFields
  <2>5. Fits(p)'
    <3>1. owned' = newly /\ setup' = setup
      BY <1>1, <1>8, <1>10
    <3>2. /\ o.id \in Nat /\ o.side \in {-1, 0, 1} /\ o.lots \in Nat /\ o.filled \in Nat
          /\ o.filled <= o.lots /\ (~o.reduce => o.lots = setup.lots)
      BY <1>2 DEF Fits
    <3>3. QED BY <1>11, <2>3, <2>4, <3>1, <3>2 DEF Fits
  <2>6. AtKite'
    BY <1>1, <1>8, <1>9, <1>10, <1>11, <2>2, <2>5 DEF AtKite
  <2>7. QED BY <1>1, <1>2, <2>6, SatsAccountKeeps, Zenon
<1>14. QED BY <1>12, <1>13

\* Kite, and a client that no longer takes calls.
LEMMA SatsKiteKeeps ==
  ASSUME SatsInv,
         Sats!Ignores \/ Sats!StopAsked \/ \E o \in working : Sats!KiteFills(o) \/ Sats!KiteCancels(o)
  PROVE  SatsInv'
<1>1. ASSUME Sats!Ignores PROVE SatsInv'
  <2>1. UNCHANGED <<setup, model, begun, strategy, working, owned, news>>
        /\ calls # <<>> /\ calls' = Tail(calls)
    BY <1>1 DEF Sats!Ignores, Sats!clientVars
  <2>2. calls' \in Seq(Commands(setup.lots))
    BY <2>1 DEF SatsInv
  <2>3. AtKite'
    BY <2>1 DEF SatsInv, AtKite, Fits
  <2>4. QED BY <2>1, <2>2, <2>3, SatsAccountKeeps, Zenon
<1>2. ASSUME Sats!StopAsked PROVE SatsInv'
  <2>1. UNCHANGED <<setup, model, begun, strategy, calls, working, owned, news>>
    BY <1>2 DEF Sats!StopAsked, Sats!clientVars
  <2>2. QED BY <2>1 DEF SatsInv, Fits, Keeps
<1>3. ASSUME NEW o \in working, Sats!KiteFills(o) PROVE SatsInv'
  <2>1. /\ UNCHANGED <<setup, model, begun, strategy, calls, owned, news>> /\ Sats!Left(o) > 0
        /\ working' = (working \ {o}) \cup {[o EXCEPT !.filled = o.filled + 1]}
    BY <1>3, Zenon DEF Sats!KiteFills
  <2>2. PICK p : p = [o EXCEPT !.filled = o.filled + 1]
    OBVIOUS
  <2>3. Fits(p)
    BY <2>1, <2>2, SatsOneOrder, SatsOrderChanges, Zenon
  <2>4. calls' \in Seq(Commands(setup.lots)) /\ news' \in Seq(Reports)
    BY <2>1 DEF SatsInv
  <2>5. AtKite'
    BY <2>1, <2>2, <2>3, <2>4, SatsOrderKeeps
  <2>6. QED BY <2>1, <2>4, <2>5, SatsAccountKeeps, Zenon
<1>4. ASSUME NEW o \in working, Sats!KiteCancels(o) PROVE SatsInv'
  <2>1. /\ UNCHANGED <<setup, model, begun, strategy, calls, owned, news>>
        /\ working' = (working \ {o}) \cup {[o EXCEPT !.over = TRUE]}
    BY <1>4, Zenon DEF Sats!KiteCancels
  <2>2. PICK p : p = [o EXCEPT !.over = TRUE]
    OBVIOUS
  <2>3. Fits(p)
    BY <2>2, SatsOneOrder, SatsOrderChanges, Zenon
  <2>4. calls' \in Seq(Commands(setup.lots)) /\ news' \in Seq(Reports)
    BY <2>1 DEF SatsInv
  <2>5. AtKite'
    BY <2>1, <2>2, <2>3, <2>4, SatsOrderKeeps
  <2>6. QED BY <2>1, <2>4, <2>5, SatsAccountKeeps, Zenon
<1>5. QED BY <1>1, <1>2, <1>3, <1>4

\* Every step of the strategy, the client and Kite keeps the invariant.
LEMMA SatsSteps == SatsInv /\ [Next]_vars => SatsInv'
<1>1. SUFFICES ASSUME SatsInv, [Next]_vars PROVE SatsInv'
  OBVIOUS
<1>2. CASE Sats!Next
  <2>1. \/ Sats!OnBar \/ (Sats!OnQuote \/ Sats!OnTimer \/ Sats!OnEvent)
        \/ Sats!Places \/ Sats!Cancels
        \/ (Sats!Ignores \/ Sats!StopAsked \/ \E o \in working : Sats!KiteFills(o) \/ Sats!KiteCancels(o))
        \/ \E o \in working : Sats!Reconciles(o)
    BY <1>2, Zenon DEF Sats!Next
  <2>2. QED
    BY <1>1, <2>1, SatsBarKeeps, SatsOthersKeep, SatsPlaceKeeps, SatsCancelKeeps, SatsKiteKeeps,
      SatsReconcileKeeps, Zenon
<1>3. CASE UNCHANGED satsVars
  BY <1>1, <1>3 DEF SatsInv, satsVars, Fits, Keeps
<1>4. QED
  BY <1>1, <1>2, <1>3 DEF Next, BudgetStep, DashStep, AccountStep, SatsStep, StopStep, vars

\* The one order is what may still trade.
LEMMA SatsBounded == SatsInv => NeverBothFill
<1>1. SUFFICES ASSUME SatsInv PROVE NeverBothFill
  OBVIOUS
<1>2. setup.lots \in Nat /\ owned \in Int /\ owned \in -setup.lots..setup.lots
  BY <1>1 DEF SatsInv
<1>3. \A f, S : Sats!TotalOn(f, S) = TotalOn(f, S)
  BY Zenon DEF Sats!TotalOn, TotalOn
<1>4. ASSUME NEW x \in Int PROVE /\ x > 0 => Sats!Sign(x) = 1 /\ Sats!Abs(x) = x
                                 /\ x < 0 => Sats!Sign(x) = -1 /\ Sats!Abs(x) = -x
                                 /\ x = 0 => Sats!Abs(x) = 0
  BY <1>4 DEF Sats!Sign, Sats!Abs
<1>5. CASE working = {}
  <2>1. \A f : TotalOn(f, {}) = 0
    BY TotalOnNone
  <2>2. PICK f : f = [o \in working |-> o.side * (o.filled - o.told)]
    OBVIOUS
  <2>3. Sats!Held = owned + TotalOn(f, {})
    BY <1>3, <1>5, <2>2, Zenon DEF Sats!Held
  <2>4. Sats!Held = owned
    BY <1>2, <2>1, <2>3
  <2>5. ASSUME NEW side PROVE Sats!Exposed(side) = 0
    <3>1. PICK g : g = [o \in working |-> Sats!Left(o)]
      OBVIOUS
    <3>2. {o \in working : o.reduce /\ o.side = side} = {}
      BY <1>5
    <3>3. Sats!Exposed(side) = TotalOn(g, {})
      BY <1>3, <3>1, <3>2, Zenon DEF Sats!Exposed
    <3>4. QED BY <2>1, <3>3, Zenon
  <2>6. Sats!Abs(Sats!Held) <= setup.lots
    BY <1>2, <1>4, <2>4
  <2>7. \A side \in {-1, 1} : ~(Sats!Exposed(side) > 0)
    BY <2>5
  <2>8. QED BY <2>6, <2>7, Zenon DEF NeverBothFill, Sats!NeverBothFill
<1>6. CASE working # {}
  <2>1. PICK o : working = {o} /\ Fits(o)
    BY <1>1, <1>6 DEF SatsInv
  <2>2. PICK held \in Int : held = owned + o.side * (o.filled - o.told)
    <3>1. o.side \in Int /\ o.filled \in Int /\ o.told \in Int
      BY <2>1 DEF Fits
    <3>2. QED BY <1>2, <3>1
  <2>3. Sats!Held = held
    <3>1. PICK f : f = [p \in working |-> p.side * (p.filled - p.told)]
      OBVIOUS
    <3>2. Sats!Held = owned + TotalOn(f, {o})
      BY <1>3, <2>1, <3>1, Zenon DEF Sats!Held
    <3>3. TotalOn(f, {o}) = f[o]
      <4>1. f[o] \in Int
        BY <2>1, <3>1 DEF Fits
      <4>2. QED BY <4>1, TotalOnOne
    <3>4. f[o] = o.side * (o.filled - o.told)
      BY <2>1, <3>1
    <3>5. QED BY <2>2, <3>2, <3>3, <3>4, Zenon
  <2>4. /\ held \in -setup.lots..setup.lots
        /\ o.reduce => -(o.side * held) >= o.lots - o.filled
    BY <1>1, <2>1, <2>2, SatsTold DEF SatsInv
  <2>5. ASSUME NEW side \in {-1, 1}, Sats!Exposed(side) > 0
        PROVE  Sats!Sign(held) = -side /\ Sats!Exposed(side) <= Sats!Abs(held)
    <3>1. PICK g : g = [p \in working |-> Sats!Left(p)]
      OBVIOUS
    <3>2. PICK S : S = {p \in working : p.reduce /\ p.side = side}
      OBVIOUS
    <3>3. Sats!Exposed(side) = TotalOn(g, S)
      BY <1>3, <3>1, <3>2, Zenon DEF Sats!Exposed
    <3>4. CASE ~(o.reduce /\ o.side = side)
      <4>1. S = {}
        BY <2>1, <3>2, <3>4
      <4>2. TotalOn(g, S) = 0
        BY <4>1, TotalOnNone
      <4>3. QED BY <2>5, <3>3, <4>2
    <3>5. CASE o.reduce /\ o.side = side
      <4>1. S = {o}
        BY <2>1, <3>2, <3>5
      <4>2. PICK left \in Int : left = Sats!Left(o)
        <5>1. Sats!Left(o) \in {0, o.lots - o.filled}
          BY Zenon DEF Sats!Left
        <5>2. QED BY <2>1, <5>1 DEF Fits
      <4>3. g[o] = left
        BY <2>1, <3>1, <4>2
      <4>4. TotalOn(g, {o}) = left
        BY <4>2, <4>3, TotalOnOne
      <4>5. Sats!Exposed(side) = left /\ left > 0
        BY <2>5, <3>3, <4>1, <4>4, Zenon
      <4>6. left = o.lots - o.filled
        <5>1. Sats!Left(o) \in {0, o.lots - o.filled}
          BY Zenon DEF Sats!Left
        <5>2. QED BY <4>2, <4>5, <5>1
      <4>7. -(side * held) >= left
        BY <2>4, <3>5, <4>6
      <4>8. CASE side = 1
        <5>1. held < 0 /\ left <= -held
          BY <4>5, <4>7, <4>8
        <5>2. QED BY <1>4, <4>5, <4>8, <5>1
      <4>9. CASE side = -1
        <5>1. held > 0 /\ left <= held
          BY <4>5, <4>7, <4>9
        <5>2. QED BY <1>4, <4>5, <4>9, <5>1
      <4>10. QED BY <4>8, <4>9
    <3>6. QED BY <3>4, <3>5
  <2>6. Sats!Abs(held) <= setup.lots
    BY <1>2, <1>4, <2>4
  <2>7. QED BY <2>3, <2>5, <2>6, Zenon DEF NeverBothFill, Sats!NeverBothFill
<1>7. QED BY <1>5, <1>6

\* The resting stop of SATS and the exit that follows its cancel never both fill: what
\* the exits at Kite may still trade is no more than the position, and the position no
\* more than an entry (sats_strategy.rs, dispatch.rs).
THEOREM NeverBothFillHolds == Spec => []NeverBothFill
<1>1. SatsInv /\ [Next]_vars => SatsInv'
  BY SatsSteps
<1>2. QED BY <1>1, SatsStarts, SatsBounded, PTL DEF Spec

-----------------------------------------------------------------------------
(* The dashboard's queues *)

DashEvents == Dash!Producers \X (1..MaxPushed)
Updates == [n : 1..MaxPushed, lots : Int]

BoardFields == {"position", "trips", "fills", "dropped", "pending"}
DashBoard(b) ==
  /\ DOMAIN b = BoardFields
  /\ b.position \in Int /\ b.fills \in Nat
  /\ b.pending \in Seq(DashEvents)

SinkFields == {"attached", "connected", "waits"}
DashTypes ==
  /\ pushed \in [Dash!Producers -> [count : 0..MaxPushed, lots : Int]]
  /\ queue \in [Dash!Producers -> Seq(Updates)]
  /\ dropped \in Nat
  /\ DashBoard(board)
  /\ noted \in Seq(DashEvents)
  /\ DOMAIN redis = {"current", "events"} /\ redis.events \in Seq(DashEvents)
  /\ DOMAIN sink = SinkFields

DashCounts == board.fills + Len(noted) + Dash!Waiting + dropped = Dash!Pushed
DashPosition ==
  dropped = 0 => board.position + Dash!LotsWaiting("strategy") = pushed["strategy"].lots
\* The watcher has no fills.
DashWatcher == \A i \in 1..Len(queue["watcher"]) : queue["watcher"][i].lots = 0

\* What is pending is the end of what was noted.
Pends(list, all) ==
  /\ Len(list) <= PendingKept /\ Len(list) <= Len(all)
  /\ \A j \in 1..Len(list) : list[j] = all[(Len(all) - Len(list)) + j]
\* Of the latest that the board keeps, those before it are in Redis.
Delivers(events, list, all) ==
  \A i \in 1..Len(all) :
    i > Len(all) - PendingKept /\ i <= Len(all) - Len(list) => Occurs(events, all[i])
DashKeeps ==
  /\ Pends(board.pending, noted)
  /\ sink.attached => Delivers(redis.events, board.pending, noted)

\* The thread's last round, which begins when it has read the flag.
DashEnds ==
  /\ thread \in {"flag", "strategy", "watcher", "counts", "flush", "done"}
  /\ (stopping => stop) /\ (late => stop)
  /\ sink.connected => sink.attached
  /\ thread = "done" => stopping /\ (sink.connected => redis.current /\ board.pending = <<>>)
  /\ stopping /\ thread \in {"watcher", "counts", "flush", "done"} => queue["strategy"] = <<>>
  /\ stopping /\ thread \in {"counts", "flush", "done"} =>
       Len(queue["watcher"]) <= IF late THEN 1 ELSE 0
  /\ stopping /\ thread \in {"flush", "done"} => board.dropped = dropped

DashInv ==
  DashTypes /\ DashCounts /\ DashPosition /\ DashWatcher /\ DashKeeps /\ DashEnds

\* The bounds of the queues.
LEMMA DashBounds ==
  MaxPushed \in Nat /\ PendingKept \in Nat \ {0} /\ Fills \subseteq Int /\ Queue \in Nat \ {0}
BY ServicesAssumption DEF Dash!DashAssumption

\* An event is noted: it goes to the end, and the oldest gives way.
LEMMA NotedPends ==
  ASSUME NEW S, NEW events \in Seq(S), NEW list \in Seq(S), NEW all \in Seq(S), NEW e \in S,
         NEW more, more = Append(list, e), Pends(list, all)
  PROVE  LET kept == IF Len(more) <= PendingKept THEN more ELSE Tail(more)
         IN  /\ kept \in Seq(S) /\ Pends(kept, Append(all, e))
             /\ Delivers(events, list, all) => Delivers(events, kept, Append(all, e))
<1>1. PICK k \in Nat : k = PendingKept /\ k > 0
  BY DashBounds
<1>2. PICK m \in Nat, n \in Nat : m = Len(list) /\ n = Len(all)
  OBVIOUS
<1>3. m <= k /\ m <= n /\ \A j \in 1..m : list[j] = all[(n - m) + j]
  BY <1>1, <1>2 DEF Pends
<1>4. PICK next : next = Append(all, e)
  OBVIOUS
<1>5. next \in Seq(S) /\ Len(next) = n + 1 /\ next[n + 1] = e /\ \A i \in 1..n : next[i] = all[i]
  BY <1>2, <1>4
<1>6. more \in Seq(S) /\ Len(more) = m + 1 /\ more[m + 1] = e /\ \A j \in 1..m : more[j] = list[j]
  BY <1>2
<1>7. \A j \in 1..(m + 1) : more[j] = next[(n - m) + j]
  <2>1. SUFFICES ASSUME NEW j \in 1..(m + 1) PROVE more[j] = next[(n - m) + j]
    OBVIOUS
  <2>2. CASE j = m + 1
    <3>1. (n - m) + j = n + 1
      BY <2>2
    <3>2. QED BY <1>5, <1>6, <2>2, <3>1
  <2>3. CASE j # m + 1
    <3>1. j \in 1..m /\ (n - m) + j \in 1..n
      BY <1>3, <2>3
    <3>2. QED BY <1>3, <1>5, <1>6, <3>1, Zenon
  <2>4. QED BY <2>2, <2>3
<1>8. CASE Len(more) <= PendingKept
  <2>1. m + 1 <= k /\ (n + 1) - (m + 1) = n - m
    BY <1>1, <1>6, <1>8
  <2>2. Pends(more, next)
    BY <1>1, <1>3, <1>5, <1>6, <1>7, <2>1 DEF Pends
  <2>3. ASSUME Delivers(events, list, all) PROVE Delivers(events, more, next)
    <3>1. SUFFICES ASSUME NEW i \in 1..(n + 1), i > (n + 1) - k, i <= (n + 1) - (m + 1)
                   PROVE  Occurs(events, next[i])
      BY <1>1, <1>5, <1>6, Zenon DEF Delivers
    <3>2. i \in 1..n /\ i > n - k /\ i <= n - m
      BY <3>1
    <3>3. Occurs(events, all[i])
      BY <1>1, <1>2, <2>3, <3>2, Zenon DEF Delivers
    <3>4. QED BY <1>5, <3>2, <3>3, Zenon
  <2>4. QED BY <1>4, <1>6, <1>8, <2>2, <2>3, Zenon
<1>9. CASE ~(Len(more) <= PendingKept)
  <2>1. m = k
    BY <1>1, <1>3, <1>6, <1>9
  <2>2. PICK rest : rest = Tail(more)
    OBVIOUS
  <2>3. rest \in Seq(S) /\ Len(rest) = m /\ \A j \in 1..m : rest[j] = more[j + 1]
    BY <1>6, <2>2
  <2>4. \A j \in 1..m : rest[j] = next[((n + 1) - m) + j]
    <3>1. \A j \in 1..m : j + 1 \in 1..(m + 1) /\ (n - m) + (j + 1) = ((n + 1) - m) + j
      OBVIOUS
    <3>2. QED BY <1>7, <2>3, <3>1, Zenon
  <2>5. Pends(rest, next)
    <3>1. m <= k /\ m <= n + 1
      BY <1>3
    <3>2. QED BY <1>1, <1>5, <2>3, <2>4, <3>1, Zenon DEF Pends
  <2>6. Delivers(events, rest, next)
    <3>1. \A i \in 1..(n + 1) : ~(i > (n + 1) - k /\ i <= (n + 1) - m)
      BY <2>1
    <3>2. QED BY <1>1, <1>5, <2>3, <3>1, Zenon DEF Delivers
  <2>7. QED BY <1>4, <1>9, <2>2, <2>3, <2>5, <2>6, Zenon
<1>10. QED BY <1>8, <1>9

\* What is pending is written, and more than that is in Redis.
LEMMA WrittenPends ==
  ASSUME NEW S, NEW events \in Seq(S), NEW list \in Seq(S), NEW all \in Seq(S), NEW none, none = <<>>,
         Pends(list, all)
  PROVE  /\ Pends(none, all)
         /\ Delivers(events, list, all) => Delivers(events \o list, none, all)
<1>1. PICK k \in Nat : k = PendingKept /\ k > 0
  BY DashBounds
<1>2. PICK m \in Nat, n \in Nat : m = Len(list) /\ n = Len(all)
  OBVIOUS
<1>3. m <= k /\ m <= n /\ \A j \in 1..m : list[j] = all[(n - m) + j]
  BY <1>1, <1>2 DEF Pends
<1>4. Len(none) = 0
  OBVIOUS
<1>5. Pends(none, all)
  <2>1. 0 <= k /\ 0 <= n /\ \A j \in 1..0 : FALSE
    OBVIOUS
  <2>2. QED BY <1>1, <1>2, <1>4, <2>1, Zenon DEF Pends
<1>6. ASSUME Delivers(events, list, all) PROVE Delivers(events \o list, none, all)
  <2>1. SUFFICES ASSUME NEW i \in 1..n, i > n - k PROVE Occurs(events \o list, all[i])
    BY <1>1, <1>2, <1>4, Zenon DEF Delivers
  <2>2. CASE i <= n - m
    <3>1. Occurs(events, all[i])
      BY <1>1, <1>2, <1>6, <2>1, <2>2, Zenon DEF Delivers
    <3>2. QED BY <3>1, OccursConcat, Zenon
  <2>3. CASE ~(i <= n - m)
    <3>1. PICK j \in 1..m : i = (n - m) + j
      <4>1. i - (n - m) \in 1..m /\ i = (n - m) + (i - (n - m))
        BY <1>3, <2>3
      <4>2. QED BY <4>1
    <3>2. all[i] = list[j] /\ j \in DOMAIN list
      BY <1>2, <1>3, <3>1
    <3>3. Occurs(list, all[i])
      BY <3>2, Zenon DEF Occurs
    <3>4. QED BY <3>3, OccursConcat, Zenon
  <2>4. QED BY <2>2, <2>3
<1>7. QED BY <1>5, <1>6

\* Redis has more than before.
LEMMA DeliversMore ==
  ASSUME NEW events, NEW more, NEW list, NEW all, \A e : Occurs(events, e) => Occurs(more, e),
         Delivers(events, list, all)
  PROVE  Delivers(more, list, all)
BY Zenon DEF Delivers

\* Nothing has been pushed.
LEMMA DashStarts == Init => DashInv
<1>1. SUFFICES ASSUME Init PROVE DashInv
  OBVIOUS
<1>2. /\ pushed = [p \in Dash!Producers |-> [count |-> 0, lots |-> 0]]
      /\ queue = [p \in Dash!Producers |-> <<>>]
      /\ dropped = 0 /\ stop = FALSE /\ late = FALSE /\ thread = "flag" /\ stopping = FALSE
      /\ board = Dash!NewBoard /\ noted = <<>> /\ redis = [current |-> FALSE, events |-> <<>>]
      /\ sink \in [attached : BOOLEAN, connected : {FALSE}, waits : {FALSE}]
  BY <1>1, Zenon DEF Init, Dash!Init
<1>3. PICK none : none = <<>>
  OBVIOUS
<1>4. (\A S : none \in Seq(S)) /\ Len(none) = 0
  BY <1>3, NothingSent
<1>5. /\ board.position = 0 /\ board.fills = 0 /\ board.pending = none
      /\ DOMAIN board = BoardFields
  BY <1>2, <1>3 DEF Dash!NewBoard, BoardFields
<1>6. /\ DOMAIN redis = {"current", "events"} /\ redis.events = none
      /\ DOMAIN sink = SinkFields /\ ~sink.connected
  BY <1>2, <1>3 DEF SinkFields
<1>7. \A p \in Dash!Producers : queue[p] = none /\ pushed[p] = [count |-> 0, lots |-> 0]
  BY <1>2, <1>3, Zenon
<1>8. DashTypes
  <2>1. pushed \in [Dash!Producers -> [count : 0..MaxPushed, lots : Int]]
    <3>1. 0 \in 0..MaxPushed
      BY DashBounds
    <3>2. QED BY <1>2, <3>1
  <2>2. queue \in [Dash!Producers -> Seq(Updates)]
    <3>1. queue = [p \in Dash!Producers |-> none]
      BY <1>2, <1>3, Zenon
    <3>2. QED BY <1>4, <3>1, Zenon
  <2>3. DashBoard(board)
    BY <1>4, <1>5 DEF DashBoard
  <2>4. QED BY <1>2, <1>3, <1>4, <1>6, <2>1, <2>2, <2>3 DEF DashTypes
<1>9. "strategy" \in Dash!Producers /\ "watcher" \in Dash!Producers
  BY DEF Dash!Producers
<1>10. DashCounts
  <2>1. Dash!Waiting = 0 /\ Dash!Pushed = 0
    <3>1. /\ queue["strategy"] = none /\ queue["watcher"] = none
          /\ pushed["strategy"] = [count |-> 0, lots |-> 0]
          /\ pushed["watcher"] = [count |-> 0, lots |-> 0]
      BY <1>7, <1>9, Zenon
    <3>2. pushed["strategy"].count = 0 /\ pushed["watcher"].count = 0
      BY <3>1
    <3>3. QED BY <1>4, <3>1, <3>2 DEF Dash!Waiting, Dash!Pushed
  <2>2. QED BY <1>2, <1>3, <1>4, <1>5, <2>1 DEF DashCounts
<1>11. DashPosition
  <2>1. PICK v : v = [i \in DOMAIN queue["strategy"] |-> queue["strategy"][i].lots]
    OBVIOUS
  <2>2. Dash!LotsWaiting("strategy") = Total(v)
    BY <2>1, Zenon DEF Dash!LotsWaiting, Dash!Total, Total
  <2>3. v = none
    BY <1>3, <1>7, <1>9, <2>1
  <2>4. none \in Seq(Int)
    BY <1>4
  <2>5. Total(v) = 0
    BY <1>3, <2>3, <2>4, TotalType, Zenon
  <2>6. pushed["strategy"].lots = 0
    BY <1>7, <1>9
  <2>7. QED BY <1>5, <2>2, <2>5, <2>6 DEF DashPosition
<1>12. DashKeeps
  BY <1>2, <1>3, <1>4, <1>5, DashBounds DEF DashKeeps, Pends, Delivers
<1>13. DashEnds
  BY <1>2, <1>6 DEF DashEnds
<1>14. DashWatcher
  BY <1>4, <1>7, <1>9 DEF DashWatcher
<1>15. QED BY <1>8, <1>10, <1>11, <1>12, <1>13, <1>14 DEF DashInv

\* A step that moves no update.
DashQuiet ==
  /\ UNCHANGED <<pushed, queue, dropped, noted>>
  /\ board'.position = board.position /\ board'.fills = board.fills

\* What concerns no update keeps what is said of them.
LEMMA DashQuietKeeps ==
  ASSUME DashInv, DashQuiet
  PROVE  DashCounts' /\ DashPosition' /\ DashWatcher'
<1>1. DashCounts'
  BY DEF DashInv, DashCounts, DashQuiet, Dash!Waiting, Dash!Pushed
<1>2. DashPosition'
  BY DEF DashInv, DashPosition, DashQuiet, Dash!LotsWaiting
<1>3. DashWatcher'
  BY DEF DashInv, DashWatcher, DashQuiet
<1>4. QED BY <1>1, <1>2, <1>3

\* The steps that leave the updates, the board and Redis alone.
LEMMA DashIdles ==
  ASSUME DashInv,
         \/ Dash!Close \/ Dash!ReadsFlag \/ Dash!NothingToFlush \/ Dash!NoConnection
         \/ Dash!RetryDue \/ UNCHANGED dashVars
  PROVE  DashInv'
<1>1. UNCHANGED <<pushed, queue, dropped, board, noted, redis, late>>
  BY DEF Dash!Close, Dash!ReadsFlag, Dash!NothingToFlush, Dash!NoConnection, Dash!RetryDue,
    Dash!feedVars, dashVars
<1>2. DashQuiet
  BY <1>1 DEF DashQuiet
<1>3. DOMAIN sink' = SinkFields /\ sink'.attached = sink.attached /\ sink'.connected = sink.connected
  <2>1. sink' = sink \/ sink' = [sink EXCEPT !.waits = TRUE] \/ sink' = [sink EXCEPT !.waits = FALSE]
    BY Zenon DEF Dash!Close, Dash!ReadsFlag, Dash!NothingToFlush, Dash!NoConnection, Dash!RetryDue,
      Dash!feedVars, dashVars
  <2>2. QED BY <2>1 DEF DashInv, DashTypes, SinkFields
<1>4. DashTypes'
  BY <1>1, <1>3 DEF DashInv, DashTypes, DashBoard
<1>5. DashKeeps'
  BY <1>1, <1>3 DEF DashInv, DashKeeps
<1>6. DashEnds'
  <2>1. CASE Dash!Close
    BY <1>1, <1>3, <2>1 DEF Dash!Close, DashInv, DashEnds
  <2>2. CASE Dash!ReadsFlag
    BY <1>1, <1>3, <2>2 DEF Dash!ReadsFlag, Dash!feedVars, DashInv, DashEnds
  <2>3. CASE Dash!NothingToFlush
    <3>1. Dash!Round = "flag"
      BY <2>3 DEF Dash!NothingToFlush, Dash!Round, Dash!Ends
    <3>2. QED BY <1>1, <1>3, <2>3, <3>1 DEF Dash!NothingToFlush, Dash!feedVars, DashInv, DashEnds
  <2>4. CASE Dash!NoConnection
    <3>1. /\ thread = "flush" /\ thread' = Dash!Round /\ ~sink.connected
          /\ UNCHANGED <<stop, stopping>>
      BY <2>4, Zenon DEF Dash!NoConnection, Dash!Flushed, Dash!feedVars
    <3>2. Dash!Round = IF stopping THEN "done" ELSE "flag"
      BY Zenon DEF Dash!Round, Dash!Ends
    <3>3. QED BY <1>1, <1>3, <3>1, <3>2 DEF DashInv, DashEnds
  <2>5. CASE Dash!RetryDue
    <3>1. UNCHANGED <<stop, stopping, thread>>
      BY <2>5, Zenon DEF Dash!RetryDue, Dash!feedVars
    <3>2. QED BY <1>1, <1>3, <3>1 DEF DashInv, DashEnds
  <2>6. CASE UNCHANGED dashVars
    BY <1>1, <1>3, <2>6 DEF dashVars, DashInv, DashEnds
  <2>7. QED BY <2>1, <2>2, <2>3, <2>4, <2>5, <2>6
<1>7. QED BY <1>2, <1>4, <1>5, <1>6, DashQuietKeeps DEF DashInv

\* The count of what was dropped goes to the board.
LEMMA DashCountsDropped ==
  ASSUME DashInv, Dash!CountsDropped
  PROVE  DashInv'
<1>1. /\ thread = "counts" /\ thread' = "flush" /\ board' = [board EXCEPT !.dropped = dropped]
      /\ redis' = [redis EXCEPT !.current = redis.current /\ board.dropped = dropped]
      /\ UNCHANGED <<pushed, queue, dropped, stop, late, stopping, noted, sink>>
  BY Zenon DEF Dash!CountsDropped, Dash!feedVars
<1>2. /\ DOMAIN board' = BoardFields /\ board'.dropped = dropped
      /\ board'.position = board.position /\ board'.fills = board.fills
      /\ board'.pending = board.pending
  BY <1>1 DEF DashInv, DashTypes, DashBoard, BoardFields
<1>3. redis'.events = redis.events /\ DOMAIN redis' = {"current", "events"}
  <2>1. PICK x : x = (redis.current /\ board.dropped = dropped)
    OBVIOUS
  <2>2. redis' = [redis EXCEPT !.current = x]
    BY <1>1, <2>1, Zenon
  <2>3. QED BY <2>2 DEF DashInv, DashTypes
<1>4. DashTypes'
  BY <1>1, <1>2, <1>3 DEF DashInv, DashTypes, DashBoard
<1>5. DashQuiet
  BY <1>1, <1>2 DEF DashQuiet
<1>6. DashKeeps'
  BY <1>1, <1>2, <1>3 DEF DashInv, DashKeeps
<1>7. DashEnds'
  BY <1>1, <1>2 DEF DashInv, DashEnds
<1>8. QED BY <1>4, <1>5, <1>6, <1>7, DashQuietKeeps DEF DashInv

\* The board and the events are written, or a part of them, or there is no Redis.
LEMMA DashFlushes ==
  ASSUME DashInv, Dash!FlushSucceeds \/ Dash!FlushFails \/ Dash!Unpublished
  PROVE  DashInv'
<1>1. /\ thread = "flush" /\ thread' = Dash!Round
      /\ UNCHANGED <<pushed, queue, dropped, stop, late, stopping, noted>>
  BY DEF Dash!FlushSucceeds, Dash!FlushFails, Dash!Unpublished, Dash!Flushed, Dash!feedVars
<1>2. Dash!Round = IF stopping THEN "done" ELSE "flag"
  BY Zenon DEF Dash!Round, Dash!Ends
<1>3. PICK S : S = DashEvents
  OBVIOUS
<1>4. redis.events \in Seq(S) /\ board.pending \in Seq(S) /\ noted \in Seq(S)
  BY <1>3 DEF DashInv, DashTypes, DashBoard
<1>5. PICK none \in Seq(S) : none = <<>>
  BY NothingSent, Zenon
<1>6. ASSUME board' = [board EXCEPT !.pending = <<>>]
      PROVE  /\ DOMAIN board' = BoardFields /\ board'.dropped = board.dropped
             /\ board'.position = board.position /\ board'.fills = board.fills
             /\ board'.pending = none
  BY <1>5, <1>6 DEF DashInv, DashTypes, DashBoard, BoardFields
<1>7. Pends(board.pending, noted) /\ (sink.attached => Delivers(redis.events, board.pending, noted))
  BY Zenon DEF DashInv, DashKeeps
<1>8. Pends(none, noted)
  BY <1>4, <1>5, <1>7, WrittenPends, Zenon
<1>9. CASE Dash!FlushSucceeds
  <2>1. /\ redis' = [current |-> TRUE, events |-> redis.events \o board.pending]
        /\ board' = [board EXCEPT !.pending = <<>>] /\ sink.attached
        /\ sink' = [sink EXCEPT !.connected = TRUE, !.waits = FALSE]
    BY <1>9, Zenon DEF Dash!FlushSucceeds, Dash!Written, Dash!Flushed
  <2>2. PICK list : list = redis.events \o board.pending
    OBVIOUS
  <2>3. redis'.events = list /\ DOMAIN redis' = {"current", "events"} /\ redis'.current
    BY <2>1, <2>2
  <2>4. DOMAIN sink' = SinkFields /\ sink'.attached
    BY <2>1 DEF DashInv, DashTypes, SinkFields
  <2>5. list \in Seq(S)
    BY <1>4, <2>2, ConcatProperties
  <2>6. DashTypes'
    BY <1>1, <1>3, <1>5, <1>6, <2>1, <2>3, <2>4, <2>5 DEF DashInv, DashTypes, DashBoard
  <2>7. Delivers(list, none, noted)
    BY <1>4, <1>5, <1>7, <2>1, <2>2, WrittenPends, Zenon
  <2>8. DashKeeps'
    <3>1. board'.pending = none /\ noted' = noted
      BY <1>1, <1>6, <2>1
    <3>2. Pends(board'.pending, noted') /\ Delivers(redis'.events, board'.pending, noted')
      BY <1>8, <2>3, <2>7, <3>1, Zenon
    <3>3. QED BY <3>2, Zenon DEF DashKeeps, Pends, Delivers
  <2>9. DashQuiet
    BY <1>1, <1>6, <2>1 DEF DashQuiet
  <2>10. DashEnds'
    BY <1>1, <1>2, <1>5, <1>6, <2>1, <2>3, <2>4 DEF DashInv, DashEnds
  <2>11. QED BY <2>6, <2>8, <2>9, <2>10, DashQuietKeeps DEF DashInv
<1>10. CASE Dash!Unpublished
  <2>1. board' = [board EXCEPT !.pending = <<>>] /\ ~sink.attached /\ UNCHANGED <<redis, sink>>
    BY <1>10, Zenon DEF Dash!Unpublished
  <2>2. DashTypes'
    BY <1>1, <1>3, <1>5, <1>6, <2>1 DEF DashInv, DashTypes, DashBoard
  <2>3. DashKeeps'
    <3>1. board'.pending = none /\ noted' = noted /\ ~sink'.attached
      BY <1>1, <1>6, <2>1
    <3>2. Pends(board'.pending, noted')
      BY <1>8, <3>1, Zenon
    <3>3. QED BY <3>1, <3>2, Zenon DEF DashKeeps, Pends
  <2>4. DashQuiet
    BY <1>1, <1>6, <2>1 DEF DashQuiet
  <2>5. DashEnds'
    BY <1>1, <1>2, <1>5, <1>6, <2>1 DEF DashInv, DashEnds
  <2>6. QED BY <2>2, <2>3, <2>4, <2>5, DashQuietKeeps DEF DashInv
<1>11. CASE Dash!FlushFails
  <2>1. UNCHANGED board /\ sink' = [sink EXCEPT !.connected = FALSE, !.waits = TRUE]
    BY <1>11, Zenon DEF Dash!FlushFails
  <2>2. DOMAIN sink' = SinkFields /\ ~sink'.connected /\ sink'.attached = sink.attached
    BY <2>1 DEF DashInv, DashTypes, SinkFields
  <2>3. /\ DOMAIN redis' = {"current", "events"} /\ redis'.events \in Seq(S)
        /\ \A e : Occurs(redis.events, e) => Occurs(redis'.events, e)
    <3>1. CASE UNCHANGED redis
      BY <1>4, <3>1 DEF DashInv, DashTypes
    <3>2. CASE \E k \in 0..Len(board.pending) :
                 redis' = [current |-> TRUE, events |-> redis.events \o SubSeq(board.pending, 1, k)]
      <4>1. PICK k \in 0..Len(board.pending) :
                 redis' = [current |-> TRUE, events |-> redis.events \o SubSeq(board.pending, 1, k)]
        BY <3>2
      <4>2. PICK part : part = SubSeq(board.pending, 1, k)
        OBVIOUS
      <4>3. part \in Seq(S)
        BY <1>4, <4>2, OccursPrefix, Zenon
      <4>4. PICK list : list = redis.events \o part
        OBVIOUS
      <4>5. redis'.events = list /\ DOMAIN redis' = {"current", "events"}
        BY <4>1, <4>2, <4>4
      <4>6. list \in Seq(S)
        BY <1>4, <4>3, <4>4, ConcatProperties
      <4>7. \A e : Occurs(list, e) <=> Occurs(redis.events, e) \/ Occurs(part, e)
        BY <1>4, <4>3, <4>4, OccursConcat, Zenon
      <4>8. QED BY <4>5, <4>6, <4>7, Zenon
    <3>3. QED BY <1>11, <3>1, <3>2, Zenon DEF Dash!FlushFails
  <2>4. DashTypes'
    BY <1>1, <1>3, <2>1, <2>2, <2>3 DEF DashInv, DashTypes, DashBoard
  <2>5. DashQuiet
    BY <1>1, <2>1 DEF DashQuiet
  <2>6. DashKeeps'
    <3>1. board'.pending = board.pending /\ noted' = noted
      BY <1>1, <2>1
    <3>2. Delivers(redis.events, board.pending, noted) => Delivers(redis'.events, board.pending, noted)
      BY <2>3, DeliversMore, Zenon
    <3>3. /\ Pends(board'.pending, noted')
          /\ sink'.attached => Delivers(redis'.events, board'.pending, noted')
      BY <1>7, <2>2, <3>1, <3>2, Zenon
    <3>4. QED BY <3>3, Zenon DEF DashKeeps, Pends, Delivers
  <2>7. DashEnds'
    BY <1>1, <1>2, <2>1, <2>2 DEF DashInv, DashEnds
  <2>8. QED BY <2>4, <2>5, <2>6, <2>7, DashQuietKeeps DEF DashInv
<1>12. QED BY <1>9, <1>10, <1>11

\* What a queue's fills come to.
LEMMA LotsWaitingIs ==
  ASSUME NEW q \in Seq(Updates), NEW u \in Updates
  PROVE  LET lots(s) == [i \in DOMAIN s |-> s[i].lots]
         IN  /\ Total(lots(q)) \in Int
             /\ Total(lots(Append(q, u))) = Total(lots(q)) + u.lots
             /\ q # <<>> => Total(lots(q)) = Head(q).lots + Total(lots(Tail(q)))
<1>1. PICK U : U = Updates
  OBVIOUS
<1>2. PICK I : I = Int
  OBVIOUS
<1>3. \A x \in U : x.lots \in I
  BY <1>1, <1>2 DEF Updates
<1>4. PICK n \in Nat : n = Len(q)
  OBVIOUS
<1>5. q \in Seq(U) /\ u \in U /\ DOMAIN q = 1..n
  BY <1>1, <1>4
<1>6. PICK v : v = [i \in DOMAIN q |-> q[i].lots]
  OBVIOUS
<1>7. v = [i \in 1..n |-> q[i].lots] /\ v \in Seq(I)
  <2>1. v = [i \in 1..n |-> q[i].lots]
    BY <1>5, <1>6
  <2>2. \A i \in 1..n : q[i].lots \in I
    BY <1>3, <1>4, <1>5
  <2>3. v \in [1..n -> I]
    BY <2>1, <2>2, Zenon
  <2>4. QED BY <2>1, <2>3
<1>8. Total(v) \in Int
  BY <1>2, <1>7, TotalType
<1>9. PICK w : w = [i \in DOMAIN Append(q, u) |-> Append(q, u)[i].lots]
  OBVIOUS
<1>10. w = Append(v, u.lots)
  <2>1. DOMAIN Append(q, u) = 1..(n + 1) /\ Append(q, u)[n + 1] = u
        /\ \A i \in 1..n : Append(q, u)[i] = q[i]
    BY <1>4, <1>5
  <2>2. w = [i \in 1..(n + 1) |-> IF i = n + 1 THEN u.lots ELSE q[i].lots]
    <3>1. \A i \in 1..(n + 1) : i # n + 1 => i \in 1..n
      OBVIOUS
    <3>2. \A i \in 1..(n + 1) : Append(q, u)[i].lots = IF i = n + 1 THEN u.lots ELSE q[i].lots
      BY <2>1, <3>1, Zenon
    <3>3. QED BY <1>9, <2>1, <3>2, Zenon
  <2>3. PICK x \in I : x = u.lots
    BY <1>3, <1>5
  <2>4. Append(v, x) = [i \in 1..(n + 1) |-> IF i = n + 1 THEN x ELSE v[i]]
    BY <1>7
  <2>5. \A i \in 1..(n + 1) : (IF i = n + 1 THEN x ELSE v[i]) = IF i = n + 1 THEN x ELSE q[i].lots
    <3>1. \A i \in 1..(n + 1) : i # n + 1 => i \in 1..n
      OBVIOUS
    <3>2. QED BY <1>7, <3>1
  <2>6. QED BY <2>2, <2>3, <2>4, <2>5, Zenon
<1>11. Total(w) = Total(v) + u.lots
  <2>1. PICK x \in Int : x = u.lots
    BY <1>2, <1>3, <1>5
  <2>2. v \in Seq(Int)
    BY <1>2, <1>7, Zenon
  <2>3. QED BY <1>10, <2>1, <2>2, TotalAppend, Zenon
<1>12. ASSUME q # <<>>
       PROVE  Total(v) = Head(q).lots + Total([i \in DOMAIN Tail(q) |-> Tail(q)[i].lots])
  <2>1. n > 0
    BY <1>4, <1>5, <1>12
  <2>2. PICK t : t = [i \in DOMAIN Tail(q) |-> Tail(q)[i].lots]
    OBVIOUS
  <2>3. v # <<>> /\ Head(v) = Head(q).lots
    BY <1>5, <1>7, <2>1
  <2>4. t = Tail(v)
    <3>1. DOMAIN Tail(q) = 1..(n - 1) /\ \A i \in 1..(n - 1) : Tail(q)[i] = q[i + 1]
      BY <1>4, <1>5, <2>1
    <3>2. t = [i \in 1..(n - 1) |-> q[i + 1].lots]
      <4>1. \A i \in 1..(n - 1) : Tail(q)[i].lots = q[i + 1].lots
        BY <3>1, Zenon
      <4>2. QED BY <2>2, <3>1, <4>1, Zenon
    <3>3. Tail(v) = [i \in 1..(n - 1) |-> v[i + 1]]
      BY <1>7, <2>1
    <3>4. \A i \in 1..(n - 1) : v[i + 1] = q[i + 1].lots
      BY <1>7
    <3>5. QED BY <3>2, <3>3, <3>4, Zenon
  <2>5. v \in Seq(Int)
    BY <1>2, <1>7, Zenon
  <2>6. Total(v) = Head(v) + Total(Tail(v))
    BY <2>3, <2>5, TotalTail
  <2>7. QED BY <2>2, <2>3, <2>4, <2>6, Zenon
<1>13. QED BY <1>6, <1>8, <1>9, <1>11, <1>12, Zenon

\* An update is pushed, or dropped.
LEMMA DashPushes ==
  ASSUME DashInv, NEW p \in Dash!Producers, Dash!Push(p)
  PROVE  DashInv'
<1>1. PICK lots \in IF p = "strategy" THEN Fills \cup {0} ELSE {0} :
        LET u == [n |-> pushed[p].count + 1, lots |-> lots]
        IN  /\ pushed' = [pushed EXCEPT ![p] = [count |-> u.n, lots |-> @.lots + lots]]
            /\ IF Len(queue[p]) < Queue
                 THEN queue' = [queue EXCEPT ![p] = Append(@, u)] /\ UNCHANGED dropped
                 ELSE dropped' = dropped + 1 /\ UNCHANGED queue
  BY Zenon DEF Dash!Push
<1>2. /\ ~stop \/ (p = "watcher" /\ ~late)
      /\ late' = stop /\ pushed[p].count < MaxPushed
      /\ UNCHANGED <<stop, thread, stopping, board, noted, redis, sink>>
  BY Zenon DEF Dash!Push
<1>3. lots \in Int /\ (p # "strategy" => lots = 0)
  BY <1>1, DashBounds
<1>4. PICK count \in 0..MaxPushed, sum \in Int : count = pushed[p].count /\ sum = pushed[p].lots
  BY DEF DashInv, DashTypes
<1>5. PICK n \in 1..MaxPushed : n = count + 1
  BY <1>2, <1>4, DashBounds
<1>6. PICK u : u = [n |-> n, lots |-> lots]
  OBVIOUS
<1>7. u \in Updates /\ u.n = n /\ u.lots = lots
  BY <1>3, <1>6 DEF Updates
<1>8. PICK tally : tally = [count |-> n, lots |-> sum + lots]
  OBVIOUS
<1>9. tally \in [count : 0..MaxPushed, lots : Int] /\ tally.count = n /\ tally.lots = sum + lots
  BY <1>3, <1>8
<1>10. pushed' = [pushed EXCEPT ![p] = tally]
  BY <1>1, <1>4, <1>5, <1>8, Zenon
<1>11. PICK q \in Seq(Updates) : q = queue[p]
  BY DEF DashInv, DashTypes
<1>12. PICK U : U = Updates
  OBVIOUS
<1>13. PICK more : more = Append(q, u)
  OBVIOUS
<1>14. /\ more \in Seq(Updates) /\ Len(more) = Len(q) + 1 /\ more[Len(q) + 1] = u
       /\ \A i \in 1..Len(q) : more[i] = q[i]
  BY <1>7, <1>11, <1>12, <1>13
<1>15. \/ Len(q) < Queue /\ queue' = [queue EXCEPT ![p] = more] /\ dropped' = dropped
       \/ ~(Len(q) < Queue) /\ queue' = queue /\ dropped' = dropped + 1
  BY <1>1, <1>4, <1>5, <1>6, <1>11, <1>13, Zenon
<1>16. /\ pushed' \in [Dash!Producers -> [count : 0..MaxPushed, lots : Int]]
       /\ pushed'[p] = tally /\ \A r \in Dash!Producers : r # p => pushed'[r] = pushed[r]
  BY <1>9, <1>10 DEF DashInv, DashTypes
<1>17. /\ queue' \in [Dash!Producers -> Seq(Updates)]
       /\ queue'[p] \in {q, more} /\ \A r \in Dash!Producers : r # p => queue'[r] = queue[r]
  BY <1>11, <1>14, <1>15 DEF DashInv, DashTypes
<1>18. DashKeeps'
  BY <1>2, Zenon DEF DashInv, DashKeeps, Pends, Delivers
<1>19. DashTypes'
  <2>1. dropped' \in Nat
    BY <1>15 DEF DashInv, DashTypes
  <2>2. /\ DashBoard(board)' /\ (noted \in Seq(DashEvents))'
        /\ (DOMAIN redis = {"current", "events"} /\ redis.events \in Seq(DashEvents))'
        /\ (DOMAIN sink = SinkFields)'
    BY <1>2, Zenon DEF DashInv, DashTypes, DashBoard, DashEvents, SinkFields
  <2>3. QED BY <1>16, <1>17, <2>1, <2>2, Zenon DEF DashTypes
<1>21. Dash!Producers = {"strategy", "watcher"}
  BY DEF Dash!Producers
<1>22. DashCounts'
  <2>1. Dash!Pushed' = Dash!Pushed + 1
    <3>1. \A r \in Dash!Producers : pushed[r].count \in Nat
      BY DEF DashInv, DashTypes
    <3>2. pushed'[p].count = pushed[p].count + 1
      BY <1>4, <1>5, <1>9, <1>16
    <3>3. CASE p = "strategy"
      BY <1>16, <1>21, <3>1, <3>2, <3>3 DEF Dash!Pushed
    <3>4. CASE p = "watcher"
      BY <1>16, <1>21, <3>1, <3>2, <3>4 DEF Dash!Pushed
    <3>5. QED BY <1>21, <3>3, <3>4
  <2>2. PICK were, are : were = Dash!Waiting /\ are = Dash!Waiting'
    OBVIOUS
  <2>3. PICK a \in Nat : a = Len(queue["strategy"])
    BY <1>21 DEF DashInv, DashTypes
  <2>4. PICK b \in Nat : b = Len(queue["watcher"])
    BY <1>21 DEF DashInv, DashTypes
  <2>5. PICK d \in Nat : d = dropped
    BY DEF DashInv, DashTypes
  <2>6. were \in Nat /\ are \in Nat /\ dropped' \in Nat /\ are + dropped' = were + d + 1
    <3>1. were = a + b
      BY <2>2, <2>3, <2>4, Zenon DEF Dash!Waiting
    <3>2. are = Len(queue'["strategy"]) + Len(queue'["watcher"])
      BY <2>2, Zenon DEF Dash!Waiting
    <3>3. CASE queue' = queue /\ dropped' = dropped + 1
      <4>1. are = a + b
        BY <2>3, <2>4, <3>2, <3>3, Zenon
      <4>2. QED BY <2>5, <3>1, <3>3, <4>1
    <3>4. CASE queue' = [queue EXCEPT ![p] = more] /\ dropped' = dropped
      <4>1. queue'[p] = more /\ Len(more) = Len(queue[p]) + 1
        BY <1>11, <1>14, <3>4 DEF DashInv, DashTypes
      <4>2. CASE p = "strategy"
        <5>1. "watcher" \in Dash!Producers /\ "watcher" # p
          BY <1>21, <4>2
        <5>2. Len(queue'["strategy"]) = a + 1 /\ Len(queue'["watcher"]) = b
          BY <1>17, <2>3, <2>4, <4>1, <4>2, <5>1
        <5>3. are = (a + 1) + b
          BY <3>2, <5>2, Zenon
        <5>4. QED BY <2>5, <3>1, <3>4, <5>3
      <4>3. CASE p = "watcher"
        <5>1. "strategy" \in Dash!Producers /\ "strategy" # p
          BY <1>21, <4>3
        <5>2. Len(queue'["strategy"]) = a /\ Len(queue'["watcher"]) = b + 1
          BY <1>17, <2>3, <2>4, <4>1, <4>3, <5>1
        <5>3. are = a + (b + 1)
          BY <3>2, <5>2, Zenon
        <5>4. QED BY <2>5, <3>1, <3>4, <5>3
      <4>4. QED BY <1>21, <4>2, <4>3
    <3>5. QED BY <1>15, <3>3, <3>4
  <2>7. Dash!Pushed \in Int
    <3>1. \A r \in Dash!Producers : pushed[r].count \in Int
      BY DEF DashInv, DashTypes
    <3>2. QED BY <1>21, <3>1 DEF Dash!Pushed
  <2>8. PICK fills \in Nat, events \in Nat : fills = board.fills /\ events = Len(noted)
    BY DEF DashInv, DashTypes, DashBoard
  <2>9. PICK all, next : all = Dash!Pushed /\ next = Dash!Pushed'
    OBVIOUS
  <2>10. fills + events + were + d = all
    BY <2>2, <2>5, <2>8, <2>9, Zenon DEF DashInv, DashCounts
  <2>11. all \in Int /\ next = all + 1
    BY <2>1, <2>7, <2>9, Zenon
  <2>12. fills + events + are + dropped' = next
    <3>1. were \in Nat /\ are \in Nat /\ dropped' \in Nat
      BY <2>6, Zenon
    <3>2. are + dropped' = were + d + 1
      BY <2>6, Zenon
    <3>3. PICK w \in Nat, a2 \in Nat, e \in Nat, x \in Int : w = were /\ a2 = are /\ e = dropped' /\ x = all
      BY <2>11, <3>1, Zenon
    <3>4. fills + events + w + d = x /\ a2 + e = w + d + 1 /\ next = x + 1
      BY <2>10, <2>11, <3>2, <3>3, Zenon
    <3>5. fills + events + a2 + e = x + 1
      BY ONLY <3>4
    <3>6. QED BY <3>3, <3>4, <3>5, Zenon
  <2>13. board'.fills = fills /\ Len(noted') = events
    BY <1>2, <2>8, Zenon
  <2>14. QED BY <2>2, <2>9, <2>12, <2>13, Zenon DEF DashCounts
<1>23. DashPosition'
  <2>1. SUFFICES ASSUME dropped' = 0
                 PROVE  board'.position + Dash!LotsWaiting("strategy")' = pushed'["strategy"].lots
    BY DEF DashPosition
  <2>2. dropped = 0 /\ queue' = [queue EXCEPT ![p] = more]
    BY <1>15, <2>1 DEF DashInv, DashTypes
  <2>3. board.position + Dash!LotsWaiting("strategy") = pushed["strategy"].lots
    BY <2>2 DEF DashInv, DashPosition
  <2>4. CASE p # "strategy"
    <3>1. queue'["strategy"] = queue["strategy"] /\ pushed'["strategy"] = pushed["strategy"]
      BY <1>16, <1>17, <1>21, <2>4
    <3>2. Dash!LotsWaiting("strategy")' = Dash!LotsWaiting("strategy")
      BY <3>1, Zenon DEF Dash!LotsWaiting
    <3>3. QED BY <1>2, <2>3, <3>1, <3>2
  <2>5. CASE p = "strategy"
    <3>1. queue["strategy"] = q /\ queue'["strategy"] = more
      BY <1>11, <2>2, <2>5 DEF DashInv, DashTypes
    <3>2. Dash!LotsWaiting("strategy") = Total([i \in DOMAIN q |-> q[i].lots])
          /\ Dash!LotsWaiting("strategy")' = Total([i \in DOMAIN more |-> more[i].lots])
      BY <3>1, Zenon DEF Dash!LotsWaiting, Dash!Total, Total
    <3>3. Dash!LotsWaiting("strategy")' = Dash!LotsWaiting("strategy") + lots
          /\ Dash!LotsWaiting("strategy") \in Int
      BY <1>7, <1>11, <1>13, <3>2, LotsWaitingIs, Zenon
    <3>4. pushed'["strategy"].lots = pushed["strategy"].lots + lots /\ pushed["strategy"].lots = sum
      BY <1>4, <1>9, <1>16, <2>5
    <3>5. board.position \in Int
      BY DEF DashInv, DashTypes, DashBoard
    <3>6. QED BY <1>2, <1>3, <2>3, <3>3, <3>4, <3>5
  <2>6. QED BY <2>4, <2>5
<1>24. DashEnds'
  <2>1. CASE ~stop
    <3>1. ~stopping /\ thread # "done" /\ late' = FALSE
      BY <1>2, <2>1 DEF DashInv, DashEnds
    <3>2. QED BY <1>2, <3>1 DEF DashInv, DashEnds
  <2>2. CASE stop
    <3>1. p = "watcher" /\ ~late /\ late' = TRUE
      BY <1>2, <2>2, Zenon
    <3>2. queue'["strategy"] = queue["strategy"]
      BY <1>17, <1>21, <3>1
    <3>3. ASSUME stopping, thread \in {"counts", "flush", "done"}
          PROVE  Len(queue'["watcher"]) <= 1 /\ dropped' = dropped
      <4>1. PICK m \in Nat : m = Len(q)
        BY <1>11
      <4>2. m <= 0
        BY <1>11, <3>1, <3>3, <4>1 DEF DashInv, DashEnds
      <4>3. Len(q) < Queue
        BY <4>1, <4>2, DashBounds
      <4>4. queue' = [queue EXCEPT ![p] = more] /\ dropped' = dropped
        BY <1>15, <4>3, Zenon
      <4>5. queue'["watcher"] = more
        BY <3>1, <4>4 DEF DashInv, DashTypes
      <4>6. Len(more) = m + 1
        BY <1>14, <4>1
      <4>7. QED BY <4>2, <4>4, <4>5, <4>6
    <3>4. QED BY <1>2, <2>2, <3>1, <3>2, <3>3 DEF DashInv, DashEnds
  <2>3. QED BY <2>1, <2>2
<1>25. DashWatcher'
  <2>1. CASE p # "watcher"
    <3>1. queue'["watcher"] = queue["watcher"]
      BY <1>17, <1>21, <2>1
    <3>2. QED BY <3>1, Zenon DEF DashInv, DashWatcher
  <2>2. CASE p = "watcher"
    <3>1. \A i \in 1..Len(q) : q[i].lots = 0
      BY <1>11, <2>2, Zenon DEF DashInv, DashWatcher
    <3>2. lots = 0
      BY <1>3, <2>2
    <3>3. PICK m \in Nat : m = Len(q)
      BY <1>11
    <3>4. \A i \in 1..(m + 1) : more[i].lots = 0
      <4>1. \A i \in 1..(m + 1) : i \in 1..m \/ i = m + 1
        OBVIOUS
      <4>2. (\A i \in 1..m : more[i] = q[i]) /\ more[m + 1] = u
        BY <1>14, <3>3
      <4>3. QED BY <1>7, <3>1, <3>2, <3>3, <4>1, <4>2, Zenon
    <3>5. Len(more) = m + 1
      BY <1>14, <3>3
    <3>6. QED BY <1>17, <2>2, <3>1, <3>4, <3>5, Zenon DEF DashWatcher
  <2>3. QED BY <2>1, <2>2
<1>26. QED BY <1>18, <1>19, <1>22, <1>23, <1>24, <1>25 DEF DashInv

\* Nothing waits in a queue: the thread goes on.
LEMMA DashFindsNone ==
  ASSUME DashInv, NEW p \in Dash!Producers, NEW then, Dash!Drains(p, then), queue[p] = <<>>,
         <<p, then>> \in {<<"strategy", "watcher">>, <<"watcher", "counts">>}
  PROVE  DashInv'
<1>1. /\ thread = p /\ thread' = then
      /\ UNCHANGED <<pushed, queue, dropped, stop, late, stopping, board, noted, redis, sink>>
  BY Zenon DEF Dash!Drains
<1>2. DashQuiet
  BY <1>1 DEF DashQuiet
<1>3. DashTypes'
  BY <1>1 DEF DashInv, DashTypes, DashBoard
<1>4. \/ p = "strategy" /\ then = "watcher"
      \/ p = "watcher" /\ then = "counts"
  OBVIOUS
<1>5. DashEnds'
  <2>1. CASE p = "strategy" /\ then = "watcher"
    BY <1>1, <2>1 DEF DashInv, DashEnds
  <2>2. CASE p = "watcher" /\ then = "counts"
    <3>1. PICK none : none = <<>>
      OBVIOUS
    <3>2. queue["watcher"] = none /\ Len(none) = 0
      BY <2>2, <3>1
    <3>3. QED BY <1>1, <2>2, <3>2 DEF DashInv, DashEnds
  <2>3. QED BY <1>4, <2>1, <2>2
<1>6. DashKeeps'
  BY <1>1, Zenon DEF DashInv, DashKeeps, Pends, Delivers
<1>7. QED BY <1>2, <1>3, <1>5, <1>6, DashQuietKeeps DEF DashInv

\* A queue without its first update.
DashTakes(p, u) ==
  /\ queue[p] # <<>> /\ u = Head(queue[p]) /\ queue' = [queue EXCEPT ![p] = Tail(queue[p])]
  /\ board' = Dash!Applied(board, p, u)
  /\ noted' = IF u.lots # 0 THEN noted ELSE Append(noted, <<p, u.n>>)
  /\ redis' = [redis EXCEPT !.current = FALSE]
  /\ UNCHANGED <<pushed, dropped, stop, late, thread, stopping, sink>>

\* An update that is taken was the first of its queue.
LEMMA DashTakenIs ==
  ASSUME DashInv, NEW p \in Dash!Producers, NEW u, DashTakes(p, u)
  PROVE  /\ u \in Updates
         /\ queue' \in [Dash!Producers -> Seq(Updates)]
         /\ queue'[p] = Tail(queue[p]) /\ \A r \in Dash!Producers : r # p => queue'[r] = queue[r]
         /\ (p = "watcher" => u.lots = 0) /\ DashWatcher'
         /\ Dash!Waiting \in Nat /\ Dash!Waiting' \in Nat /\ Dash!Waiting = Dash!Waiting' + 1
         /\ Dash!LotsWaiting("strategy") =
              Dash!LotsWaiting("strategy")' + (IF p = "strategy" THEN u.lots ELSE 0)
         /\ Dash!LotsWaiting("strategy")' \in Int
<1>1. PICK U : U = Updates
  OBVIOUS
<1>2. PICK q \in Seq(U) : q = queue[p]
  BY <1>1 DEF DashInv, DashTypes
<1>3. PICK m \in Nat : Len(q) = m + 1
  <2>1. q # <<>>
    BY <1>2 DEF DashTakes
  <2>2. Len(q) \in Nat /\ Len(q) > 0
    BY <2>1
  <2>3. QED BY <2>2
<1>4. PICK t : t = Tail(q)
  OBVIOUS
<1>5. /\ t \in Seq(U) /\ Len(t) = m /\ u = q[1] /\ u \in U
      /\ \A i \in 1..m : t[i] = q[i + 1]
  BY <1>2, <1>3, <1>4 DEF DashTakes
<1>6. queue' = [queue EXCEPT ![p] = t]
  BY <1>2, <1>4, Zenon DEF DashTakes
<1>7. /\ queue' \in [Dash!Producers -> Seq(Updates)]
      /\ queue'[p] = t /\ \A r \in Dash!Producers : r # p => queue'[r] = queue[r]
  BY <1>1, <1>5, <1>6 DEF DashInv, DashTypes
<1>11. Dash!Producers = {"strategy", "watcher"}
  BY DEF Dash!Producers
<1>12. (p = "watcher" => u.lots = 0) /\ DashWatcher'
  <2>1. CASE p = "watcher"
    <3>1. \A i \in 1..(m + 1) : q[i].lots = 0
      BY <1>2, <1>3, <2>1, Zenon DEF DashInv, DashWatcher
    <3>2. 1 \in 1..(m + 1) /\ \A i \in 1..m : i + 1 \in 1..(m + 1)
      OBVIOUS
    <3>3. u.lots = 0 /\ \A i \in 1..m : t[i].lots = 0
      BY <1>5, <3>1, <3>2, Zenon
    <3>4. QED BY <1>5, <1>7, <2>1, <3>3, Zenon DEF DashWatcher
  <2>2. CASE p # "watcher"
    <3>1. queue'["watcher"] = queue["watcher"]
      BY <1>7, <1>11, <2>2
    <3>2. QED BY <2>2, <3>1, Zenon DEF DashInv, DashWatcher
  <2>3. QED BY <2>1, <2>2
<1>13. Dash!Waiting \in Nat /\ Dash!Waiting' \in Nat /\ Dash!Waiting = Dash!Waiting' + 1
  <2>1. PICK a, b : a = Dash!Waiting /\ b = Dash!Waiting'
    OBVIOUS
  <2>2. a = Len(queue["strategy"]) + Len(queue["watcher"])
        /\ b = Len(queue'["strategy"]) + Len(queue'["watcher"])
    BY <2>1, Zenon DEF Dash!Waiting
  <2>3. \A r \in Dash!Producers : Len(queue[r]) \in Nat
    BY DEF DashInv, DashTypes
  <2>4. CASE p = "strategy"
    <3>1. PICK o \in Nat : o = Len(queue["watcher"]) /\ o = Len(queue'["watcher"])
      BY <1>7, <1>11, <2>3, <2>4
    <3>2. a = (m + 1) + o /\ b = m + o
      BY <1>2, <1>3, <1>5, <1>7, <2>2, <2>4, <3>1, Zenon
    <3>3. QED BY <2>1, <3>2
  <2>5. CASE p = "watcher"
    <3>1. PICK o \in Nat : o = Len(queue["strategy"]) /\ o = Len(queue'["strategy"])
      BY <1>7, <1>11, <2>3, <2>5
    <3>2. a = o + (m + 1) /\ b = o + m
      BY <1>2, <1>3, <1>5, <1>7, <2>2, <2>5, <3>1, Zenon
    <3>3. QED BY <2>1, <3>2
  <2>6. QED BY <1>11, <2>4, <2>5
<1>14. /\ Dash!LotsWaiting("strategy") =
            Dash!LotsWaiting("strategy")' + (IF p = "strategy" THEN u.lots ELSE 0)
       /\ Dash!LotsWaiting("strategy")' \in Int
  <2>1. PICK s \in Seq(Updates), s2 \in Seq(Updates) : s = queue["strategy"] /\ s2 = queue'["strategy"]
    BY <1>7, <1>11 DEF DashInv, DashTypes
  <2>2. Dash!LotsWaiting("strategy") = Total([i \in DOMAIN s |-> s[i].lots])
        /\ Dash!LotsWaiting("strategy")' = Total([i \in DOMAIN s2 |-> s2[i].lots])
    <3>1. queue["strategy"] = s /\ queue'["strategy"] = s2
      BY <2>1
    <3>2. \A v : Dash!Total(v) = Total(v)
      BY Zenon DEF Dash!Total, Total
    <3>3. /\ Dash!LotsWaiting("strategy") = Total([i \in DOMAIN s |-> s[i].lots])
          /\ Dash!LotsWaiting("strategy")' = Total([i \in DOMAIN s2 |-> s2[i].lots])
      <4>1. Dash!LotsWaiting("strategy") = Dash!Total([i \in DOMAIN s |-> s[i].lots])
        BY <3>1, Zenon DEF Dash!LotsWaiting
      <4>2. Dash!LotsWaiting("strategy")' = Dash!Total([i \in DOMAIN s2 |-> s2[i].lots])
        BY <3>1, Zenon DEF Dash!LotsWaiting
      <4>3. QED BY <3>2, <4>1, <4>2, Zenon
    <3>4. QED BY <3>3
  <2>3. Total([i \in DOMAIN s |-> s[i].lots]) \in Int /\ Total([i \in DOMAIN s2 |-> s2[i].lots]) \in Int
    <3>1. u \in Updates
      BY <1>1, <1>5, Zenon
    <3>2. \A x \in Seq(Updates) : Total([i \in DOMAIN x |-> x[i].lots]) \in Int
      BY <3>1, LotsWaitingIs, Zenon
    <3>3. QED BY <3>2, Zenon
  <2>4. CASE p = "strategy"
    <3>1. s # <<>> /\ s2 = Tail(s) /\ u = Head(s)
      BY <1>2, <1>4, <1>7, <2>1, <2>4, Zenon DEF DashTakes
    <3>2. Total([i \in DOMAIN s |-> s[i].lots])
            = Head(s).lots + Total([i \in DOMAIN Tail(s) |-> Tail(s)[i].lots])
      BY <1>1, <1>5, <3>1, LotsWaitingIs, Zenon
    <3>3. PICK x, y, l : /\ x = Dash!LotsWaiting("strategy") /\ y = Dash!LotsWaiting("strategy")'
                         /\ l = u.lots
      OBVIOUS
    <3>4. x = l + y
      BY <2>2, <3>1, <3>2, <3>3, Zenon
    <3>5. y \in Int /\ l \in Int
      <4>1. l \in Int
        BY <1>1, <1>5, <3>3 DEF Updates
      <4>2. QED BY <2>2, <2>3, <3>3, <4>1, Zenon
    <3>6. x = y + l
      BY <3>4, <3>5
    <3>7. QED BY <2>4, <3>3, <3>5, <3>6, Zenon
  <2>5. CASE p # "strategy"
    <3>1. s2 = s
      BY <1>7, <1>11, <2>1, <2>5
    <3>2. PICK x \in Int : x = Dash!LotsWaiting("strategy") /\ x = Dash!LotsWaiting("strategy")'
      BY <2>2, <2>3, <3>1, Zenon
    <3>3. x = x + 0
      OBVIOUS
    <3>4. QED BY <2>5, <3>2, <3>3, Zenon
  <2>6. QED BY <2>4, <2>5
<1>15. QED BY <1>1, <1>2, <1>4, <1>5, <1>7, <1>12, <1>13, <1>14, Zenon

\* What has to follow from a step that applies an update, beside what the queue is.
LEMMA DashMoves ==
  ASSUME DashInv, NEW p \in Dash!Producers, NEW u, DashTakes(p, u), p = thread,
         DashBoard(board'), noted' \in Seq(DashEvents), board'.dropped = board.dropped,
         board'.position = board.position + (IF p = "strategy" THEN u.lots ELSE 0),
         board'.fills + Len(noted') = board.fills + Len(noted) + 1,
         Pends(board'.pending, noted'),
         Delivers(redis.events, board.pending, noted)
           => Delivers(redis.events, board'.pending, noted')
  PROVE  DashInv'
<1>1. redis'.events = redis.events /\ DOMAIN redis' = {"current", "events"}
  BY DEF DashTakes, DashInv, DashTypes
<1>2. DashTypes'
  <2>1. UNCHANGED <<pushed, dropped, sink>>
    BY Zenon DEF DashTakes
  <2>2. queue' \in [Dash!Producers -> Seq(Updates)]
    BY DashTakenIs, Zenon
  <2>3. QED BY <1>1, <2>1, <2>2 DEF DashInv, DashTypes, DashBoard
<1>3. DashCounts'
  <2>1. PICK were \in Nat, are \in Nat : were = Dash!Waiting /\ are = Dash!Waiting'
    BY DashTakenIs, Zenon
  <2>2. were = are + 1
    BY <2>1, DashTakenIs, Zenon
  <2>3. PICK f \in Nat, n \in Nat : f = board.fills /\ n = Len(noted)
    <3>1. PICK S : S = DashEvents
      OBVIOUS
    <3>2. noted \in Seq(S) /\ board.fills \in Nat
      BY <3>1, Zenon DEF DashInv, DashTypes, DashBoard
    <3>3. Len(noted) \in Nat
      BY <3>2, LenProperties
    <3>4. QED BY <3>2, <3>3, Zenon
  <2>4. PICK g \in Nat, m \in Nat : g = board'.fills /\ m = Len(noted')
    <3>1. PICK S : S = DashEvents
      OBVIOUS
    <3>2. noted' \in Seq(S)
      BY <3>1, Zenon
    <3>3. Len(noted') \in Nat
      BY <3>2, LenProperties
    <3>4. board'.fills \in Nat
      BY Zenon DEF DashBoard
    <3>5. QED BY <3>3, <3>4, Zenon
  <2>5. PICK d \in Nat : d = dropped
    BY DEF DashInv, DashTypes
  <2>6. f + n + were + d = Dash!Pushed
    BY <2>1, <2>3, <2>5, Zenon DEF DashInv, DashCounts
  <2>7. g + m = f + n + 1
    BY <2>3, <2>4, Zenon
  <2>8. g + m + are + d = f + n + were + d
    BY <2>2, <2>7
  <2>9. dropped' = d /\ Dash!Pushed' = Dash!Pushed
    <3>1. dropped' = dropped /\ pushed' = pushed
      BY Zenon DEF DashTakes
    <3>2. QED BY <2>5, <3>1, Zenon DEF Dash!Pushed
  <2>10. QED BY <2>1, <2>4, <2>6, <2>8, <2>9, Zenon DEF DashCounts
<1>4. DashPosition'
  <2>1. SUFFICES ASSUME dropped' = 0
                 PROVE  board'.position + Dash!LotsWaiting("strategy")' = pushed'["strategy"].lots
    BY DEF DashPosition
  <2>2. dropped = 0 /\ pushed' = pushed
    BY <2>1, Zenon DEF DashTakes
  <2>3. board.position + Dash!LotsWaiting("strategy") = pushed["strategy"].lots
    BY <2>2, Zenon DEF DashInv, DashPosition
  <2>4. PICK l \in Int : l = (IF p = "strategy" THEN u.lots ELSE 0)
    <3>1. u \in Updates
      BY DashTakenIs, Zenon
    <3>2. QED BY <3>1 DEF Updates
  <2>5. PICK b \in Int, y \in Int : b = board.position /\ y = Dash!LotsWaiting("strategy")'
    BY DashTakenIs DEF DashInv, DashTypes, DashBoard
  <2>6. Dash!LotsWaiting("strategy") = y + l /\ board'.position = b + l
    BY <2>4, <2>5, DashTakenIs, Zenon
  <2>7. b + (y + l) = pushed["strategy"].lots
    BY <2>3, <2>5, <2>6, Zenon
  <2>8. (b + l) + y = b + (y + l)
    OBVIOUS
  <2>9. QED BY <2>2, <2>5, <2>6, <2>7, <2>8, Zenon
<1>5. DashWatcher'
  BY DashTakenIs, Zenon
<1>6. DashKeeps'
  <2>1. Pends(board'.pending, noted')
    OBVIOUS
  <2>2. sink'.attached => Delivers(redis'.events, board'.pending, noted')
    <3>1. sink' = sink
      BY Zenon DEF DashTakes
    <3>2. sink.attached => Delivers(redis.events, board'.pending, noted')
      BY Zenon DEF DashInv, DashKeeps
    <3>3. QED BY <1>1, <3>1, <3>2, Zenon
  <2>3. QED BY <2>1, <2>2, Zenon DEF DashKeeps
<1>7. DashEnds'
  <2>1. /\ p = "strategy" \/ p = "watcher"
        /\ UNCHANGED <<dropped, stop, late, thread, stopping, sink>>
        /\ queue[p] # <<>>
    BY DEF DashTakes, Dash!Producers
  <2>2. p = "watcher" => queue'["strategy"] = queue["strategy"]
    <3>1. "strategy" \in Dash!Producers
      BY DEF Dash!Producers
    <3>2. QED BY <3>1, DashTakenIs
  <2>3. QED BY <2>1, <2>2 DEF DashInv, DashEnds
<1>8. QED BY <1>2, <1>3, <1>4, <1>5, <1>6, <1>7 DEF DashInv

\* A fill goes to the board's position.
LEMMA DashFilled ==
  ASSUME DashInv, NEW p \in Dash!Producers, NEW u, DashTakes(p, u), p = thread, u.lots # 0
  PROVE  DashInv'
<1>1. p = "strategy"
  BY DashTakenIs DEF Dash!Producers
<1>2. u \in Updates
  BY DashTakenIs, Zenon
<1>3. PICK lots \in Int : lots = u.lots
  BY <1>2 DEF Updates
<1>4. board' = Dash!Filled(board, lots) /\ noted' = noted
  BY <1>3, Zenon DEF DashTakes, Dash!Applied
<1>5. PICK after \in Int : after = board.position + lots
  BY DEF DashInv, DashTypes, DashBoard
<1>6. PICK fills \in Nat : fills = board.fills + 1
  BY DEF DashInv, DashTypes, DashBoard
<1>7. PICK trips : trips = (IF board.position # 0 /\ Dash!Sign(after) # Dash!Sign(board.position)
                              THEN board.trips + 1 ELSE board.trips)
  OBVIOUS
<1>8. board' = [board EXCEPT !.fills = fills, !.position = after, !.trips = trips]
  BY <1>4, <1>5, <1>6, <1>7, Zenon DEF Dash!Filled
<1>9. /\ DOMAIN board' = BoardFields
      /\ board'.fills = fills /\ board'.position = after
      /\ board'.pending = board.pending /\ board'.dropped = board.dropped
  BY <1>8 DEF DashInv, DashTypes, DashBoard, BoardFields
<1>10. board'.position = board.position + (IF p = "strategy" THEN u.lots ELSE 0)
  BY <1>1, <1>3, <1>5, <1>9, Zenon
<1>11. board'.fills + Len(noted') = board.fills + Len(noted) + 1
  <2>1. PICK n \in Nat, f \in Nat : n = Len(noted) /\ f = board.fills
    BY DEF DashInv, DashTypes, DashBoard
  <2>2. fills = f + 1
    BY <1>6, <2>1, Zenon
  <2>3. fills + n = f + n + 1
    BY <2>2
  <2>4. QED BY <1>4, <1>9, <2>1, <2>3, Zenon
<1>12. DashBoard(board') /\ noted' \in Seq(DashEvents)
  BY <1>4, <1>9, Zenon DEF DashInv, DashTypes, DashBoard
<1>13. Pends(board'.pending, noted') /\ board'.pending = board.pending
  BY <1>4, <1>9, Zenon DEF DashInv, DashKeeps
<1>14. Delivers(redis.events, board.pending, noted) => Delivers(redis.events, board'.pending, noted')
  BY <1>4, <1>9, Zenon
<1>15. QED BY <1>9, <1>10, <1>11, <1>12, <1>13, <1>14, DashMoves, Zenon

\* An event waits for Redis, in the place of the oldest when there is no room.
LEMMA DashNoted ==
  ASSUME DashInv, NEW p \in Dash!Producers, NEW u, DashTakes(p, u), p = thread, u.lots = 0
  PROVE  DashInv'
<1>1. PICK n \in 1..MaxPushed : n = u.n
  <2>1. u \in Updates
    BY DashTakenIs, Zenon
  <2>2. QED BY <2>1 DEF Updates
<1>2. PICK S : S = DashEvents
  OBVIOUS
<1>3. PICK event \in S : event = <<p, u.n>>
  BY <1>1, <1>2 DEF DashEvents
<1>4. PICK were \in Seq(S), all \in Seq(S), events \in Seq(S) :
        were = board.pending /\ all = noted /\ events = redis.events
  BY <1>2 DEF DashInv, DashTypes, DashBoard
<1>5. PICK more : more = Append(were, event)
  OBVIOUS
<1>6. PICK list : list = (IF Len(more) <= PendingKept THEN more ELSE Tail(more))
  OBVIOUS
<1>7. board' = [board EXCEPT !.pending = list]
  <2>1. board' = Dash!Noted(board, event)
    BY <1>3, Zenon DEF DashTakes, Dash!Applied
  <2>2. QED BY <1>4, <1>5, <1>6, <2>1, Zenon DEF Dash!Noted
<1>8. /\ board'.pending = list /\ board'.position = board.position
      /\ board'.fills = board.fills /\ board'.dropped = board.dropped /\ DOMAIN board' = BoardFields
  BY <1>7 DEF DashInv, DashTypes, DashBoard, BoardFields
<1>9. noted' = Append(all, event)
  BY <1>3, <1>4, Zenon DEF DashTakes
<1>10. Pends(were, all)
  BY <1>4, Zenon DEF DashInv, DashKeeps
<1>11. /\ list \in Seq(S) /\ Pends(list, Append(all, event))
       /\ Delivers(events, were, all) => Delivers(events, list, Append(all, event))
  BY <1>5, <1>6, <1>10, NotedPends, Zenon
<1>12. noted' \in Seq(DashEvents) /\ Len(noted') = Len(noted) + 1
  BY <1>2, <1>4, <1>9
<1>13. DashBoard(board')
  BY <1>2, <1>8, <1>11, Zenon DEF DashInv, DashTypes, DashBoard
<1>14. board'.position = board.position + (IF p = "strategy" THEN u.lots ELSE 0)
  <2>1. PICK b \in Int : b = board.position
    BY DEF DashInv, DashTypes, DashBoard
  <2>2. b + 0 = b
    OBVIOUS
  <2>3. QED BY <1>8, <2>1, <2>2, Zenon
<1>15. board'.fills + Len(noted') = board.fills + Len(noted) + 1
  <2>1. PICK f \in Nat, m \in Nat : f = board.fills /\ m = Len(noted)
    BY DEF DashInv, DashTypes, DashBoard
  <2>2. f + (m + 1) = f + m + 1
    OBVIOUS
  <2>3. QED BY <1>8, <1>12, <2>1, <2>2, Zenon
<1>16. Pends(board'.pending, noted')
  BY <1>8, <1>9, <1>11, Zenon
<1>17. Delivers(redis.events, board.pending, noted) => Delivers(redis.events, board'.pending, noted')
  BY <1>4, <1>8, <1>9, <1>11, Zenon
<1>18. QED BY <1>8, <1>12, <1>13, <1>14, <1>15, <1>16, <1>17, DashMoves, Zenon

\* The thread empties a queue, one update at a time.
LEMMA DashDrains ==
  ASSUME DashInv, Dash!Drains("strategy", "watcher") \/ Dash!Drains("watcher", "counts")
  PROVE  DashInv'
<1>1. PICK p \in Dash!Producers, next \in {"watcher", "counts"} :
        /\ Dash!Drains(p, next)
        /\ <<p, next>> \in {<<"strategy", "watcher">>, <<"watcher", "counts">>}
  <2>1. "strategy" \in Dash!Producers /\ "watcher" \in Dash!Producers
    BY DEF Dash!Producers
  <2>2. QED BY <2>1
<1>2. CASE queue[p] = <<>>
  BY <1>1, <1>2, DashFindsNone, Zenon
<1>3. CASE queue[p] # <<>>
  <2>1. PICK u : u = Head(queue[p])
    OBVIOUS
  <2>2. DashTakes(p, u) /\ p = thread
    BY <1>1, <1>3, <2>1, Zenon DEF Dash!Drains, DashTakes
  <2>3. QED BY <2>2, DashFilled, DashNoted, Zenon
<1>4. QED BY <1>2, <1>3

\* Each step of the dashboard keeps its invariant.
LEMMA DashSteps == DashInv /\ [Next]_vars => DashInv'
<1>1. SUFFICES ASSUME DashInv, [Next]_vars PROVE DashInv'
  OBVIOUS
<1>2. CASE ~DashStep
  <2>1. UNCHANGED dashVars
    BY <1>1, <1>2, Zenon DEF Next, BudgetStep, AccountStep, SatsStep, StopStep, vars
  <2>2. QED BY <1>1, <2>1, DashIdles
<1>3. CASE DashStep
  <2>1. Dash!Next
    BY <1>3, Zenon DEF DashStep
  <2>2. ASSUME NEW p \in Dash!Producers, Dash!Push(p) PROVE DashInv'
    BY <1>1, <2>2, DashPushes, Zenon
  <2>3. CASE Dash!Drains("strategy", "watcher") \/ Dash!Drains("watcher", "counts")
    BY <1>1, <2>3, DashDrains, Zenon
  <2>4. CASE Dash!CountsDropped
    BY <1>1, <2>4, DashCountsDropped, Zenon
  <2>5. CASE Dash!FlushSucceeds \/ Dash!FlushFails \/ Dash!Unpublished
    BY <1>1, <2>5, DashFlushes, Zenon
  <2>6. CASE \/ Dash!Close \/ Dash!ReadsFlag \/ Dash!NothingToFlush \/ Dash!NoConnection
             \/ Dash!RetryDue
    BY <1>1, <2>6, DashIdles, Zenon
  <2>7. QED BY <2>1, <2>2, <2>3, <2>4, <2>5, <2>6, Zenon DEF Dash!Next
<1>4. QED BY <1>2, <1>3

\* What the invariant says of the events.
LEMMA KeptShows ==
  ASSUME DashInv, sink.attached, NEW i \in DOMAIN noted, i > Len(noted) - PendingKept
  PROVE  Dash!Kept(noted[i])
<1>1. PICK S : S = DashEvents
  OBVIOUS
<1>2. board.pending \in Seq(S) /\ noted \in Seq(S)
  BY <1>1 DEF DashInv, DashTypes, DashBoard
<1>3. PICK m \in Nat, n \in Nat : m = Len(board.pending) /\ n = Len(noted)
  BY <1>2
<1>4. i \in 1..n
  BY <1>2, <1>3
<1>5. Pends(board.pending, noted) /\ Delivers(redis.events, board.pending, noted)
  BY Zenon DEF DashInv, DashKeeps
<1>6. m <= n /\ \A j \in 1..m : board.pending[j] = noted[(n - m) + j]
  BY <1>3, <1>5, Zenon DEF Pends
<1>7. CASE i <= n - m
  <2>1. Occurs(redis.events, noted[i])
    BY <1>3, <1>4, <1>5, <1>7, Zenon DEF Delivers
  <2>2. QED BY <2>1 DEF Occurs, Dash!Kept
<1>8. CASE ~(i <= n - m)
  <2>1. PICK j \in 1..m : i = (n - m) + j
    <3>1. i - (n - m) \in 1..m /\ i = (n - m) + (i - (n - m))
      BY <1>4, <1>6, <1>8
    <3>2. QED BY <3>1
  <2>2. board.pending[j] = noted[i]
    BY <1>6, <2>1, Zenon
  <2>3. j \in DOMAIN board.pending
    <3>1. DOMAIN board.pending = 1..m
      BY <1>2, <1>3, LenProperties, Zenon
    <3>2. QED BY <3>1, Zenon
  <2>4. QED BY <2>2, <2>3, Zenon DEF Dash!Kept
<1>9. QED BY <1>7, <1>8

\* What the invariant says of the updates.
LEMMA DashShows == DashInv => UpdatesAccountedFor
<1>1. SUFFICES ASSUME DashInv PROVE UpdatesAccountedFor
  OBVIOUS
<1>2. ASSUME thread = "done"
      PROVE  /\ Dash!Waiting <= IF late THEN 1 ELSE 0
             /\ queue["strategy"] = <<>>
             /\ board.dropped = dropped
             /\ sink.connected => redis.current /\ board.pending = <<>>
  <2>1. stopping /\ (sink.connected => redis.current /\ board.pending = <<>>)
    BY <1>1, <1>2, Zenon DEF DashInv, DashEnds
  <2>2. PICK none : none = <<>>
    OBVIOUS
  <2>3. /\ queue["strategy"] = none /\ board.dropped = dropped
        /\ Len(queue["watcher"]) <= IF late THEN 1 ELSE 0
    BY <1>1, <1>2, <2>1, <2>2 DEF DashInv, DashEnds
  <2>4. PICK b \in Nat : b = Len(queue["watcher"])
    BY <1>1 DEF DashInv, DashTypes, Dash!Producers
  <2>5. Len(none) = 0 /\ 0 + b = b
    BY <2>2
  <2>6. Dash!Waiting = b
    BY <2>3, <2>4, <2>5, Zenon DEF Dash!Waiting
  <2>7. QED BY <2>1, <2>2, <2>3, <2>4, <2>6, Zenon
<1>3. DashCounts /\ DashPosition
  BY <1>1, Zenon DEF DashInv
<1>4. thread = "done" => /\ Dash!Waiting <= IF late THEN 1 ELSE 0
                         /\ queue["strategy"] = <<>>
                         /\ board.dropped = dropped
                         /\ sink.connected => redis.current /\ board.pending = <<>>
  BY <1>2, Zenon
<1>5. sink.attached => \A i \in DOMAIN noted : i > Len(noted) - PendingKept => Dash!Kept(noted[i])
  BY <1>1, KeptShows, Zenon
<1>6. Dash!UpdatesAccountedFor
  BY <1>3, <1>4, <1>5, Zenon DEF Dash!UpdatesAccountedFor, DashCounts, DashPosition
<1>7. QED BY <1>6, Zenon DEF UpdatesAccountedFor

\* The dashboard accounts for every update, whatever its Redis does, and delivers or still
\* has the latest events; when its thread has ended, no more than one late push of the
\* watcher waits, and a Redis that is connected shows the whole board (dash_writer.rs).
THEOREM UpdatesAccountedForHolds == Spec => []UpdatesAccountedFor
<1>1. QED BY DashStarts, DashSteps, DashShows, PTL DEF Spec

-----------------------------------------------------------------------------
(* The order-rate budget *)

\* Numbers in order.
Rising(h) == \A i, j \in DOMAIN h : i <= j => h[i] <= h[j]

\* k of them are at the cut or before it.
CutsAt(h, cut, k) == k \in 0..Len(h) /\ \A i \in DOMAIN h : h[i] <= cut <=> i <= k

\* There is such a k.
LEMMA OlderIs ==
  ASSUME NEW h \in Seq(Int), Rising(h), NEW cut \in Int
  PROVE  CutsAt(h, cut, Budget!Older(h, cut))
<1>1. PICK n \in Nat : n = Len(h) /\ DOMAIN h = 1..n
  OBVIOUS
<1>2. h \in [1..n -> Int] /\ \A i, j \in 1..n : i <= j => h[i] <= h[j]
  BY <1>1 DEF Rising
<1>3. \E k \in 0..n : \A i \in 1..n : h[i] <= cut <=> i <= k
  <2>1. CASE \A i \in 1..n : h[i] <= cut
    <3>1. n \in 0..n /\ \A i \in 1..n : h[i] <= cut <=> i <= n
      BY <2>1
    <3>2. QED BY <3>1
  <2>2. CASE \E i \in 1..n : ~(h[i] <= cut)
    <3>1. PICK S : S = {i \in 1..n : ~(h[i] <= cut)}
      OBVIOUS
    <3>2. S \subseteq Nat /\ S # {}
      BY <2>2, <3>1
    <3>3. PICK least \in S : \A i \in S : least <= i
      BY <3>2, LeastNat
    <3>4. PICK k \in 0..n : k = least - 1
      BY <3>1, <3>3
    <3>5. ASSUME NEW i \in 1..n PROVE h[i] <= cut <=> i <= k
      <4>1. i <= k => h[i] <= cut
        BY <3>1, <3>3, <3>4
      <4>2. ASSUME ~(i <= k) PROVE ~(h[i] <= cut)
        <5>1. least \in 1..n /\ least <= i /\ ~(h[least] <= cut)
          BY <3>1, <3>4, <4>2
        <5>2. h[least] <= h[i]
          BY <1>2, <5>1
        <5>3. QED BY <1>2, <5>1, <5>2
      <4>3. QED BY <4>1, <4>2
    <3>6. QED BY <3>5
  <2>3. QED BY <2>1, <2>2
<1>4. \E k \in 0..Len(h) : \A i \in DOMAIN h : h[i] <= cut <=> i <= k
  BY <1>1, <1>3
<1>5. QED BY <1>4, Zenon DEF CutsAt, Budget!Older

\* ... and no other.
LEMMA CutsOnce ==
  ASSUME NEW h \in Seq(Int), Rising(h), NEW cut \in Int, NEW k, CutsAt(h, cut, k)
  PROVE  Budget!Older(h, cut) = k
<1>1. PICK n \in Nat : n = Len(h) /\ DOMAIN h = 1..n
  OBVIOUS
<1>2. PICK l : l = Budget!Older(h, cut)
  OBVIOUS
<1>3. CutsAt(h, cut, l)
  BY <1>2, OlderIs, Zenon
<1>4. k \in 0..n /\ l \in 0..n /\ \A i \in 1..n : i <= k <=> i <= l
  BY <1>1, <1>3 DEF CutsAt
<1>5. k = l
  <2>1. k = 0 \/ k <= l
    BY <1>4
  <2>2. l = 0 \/ l <= k
    BY <1>4
  <2>3. QED BY <1>4, <2>1, <2>2
<1>6. QED BY <1>2, <1>5

\* What is after the cut.
Later(h, cut) == Len(h) - Budget!Older(h, cut)

\* A history without its first k stamps.
EndOf(h, k) == SubSeq(h, k + 1, Len(h))

IsEnd(g, h, k) ==
  /\ g \in Seq(Int) /\ Rising(g) /\ Len(g) = Len(h) - k
  /\ \A i \in 1..Len(g) : g[i] = h[k + i]

\* The end of a history has all that is after any later cut.
LEMMA EndIs ==
  ASSUME NEW h \in Seq(Int), Rising(h), NEW cut \in Int, NEW k, CutsAt(h, cut, k)
  PROVE  /\ IsEnd(EndOf(h, k), h, k)
         /\ \A c \in Int : c >= cut => Later(EndOf(h, k), c) = Later(h, c)
<1>1. PICK n \in Nat : n = Len(h) /\ DOMAIN h = 1..n
  OBVIOUS
<1>2. PICK g : g = EndOf(h, k)
  OBVIOUS
<1>3. k \in 0..n /\ \A i \in 1..n : h[i] <= cut <=> i <= k
  BY <1>1 DEF CutsAt
<1>4. g = SubSeq(h, k + 1, n)
  BY <1>1, <1>2, Zenon DEF EndOf
<1>5. PICK m \in Nat : m = n - k
  BY <1>3
<1>6. /\ g \in Seq(Int) /\ Len(g) = m /\ DOMAIN g = 1..m
      /\ \A i \in 1..m : g[i] = h[k + i] /\ k + i \in 1..n
  <2>1. PICK j \in 1..(n + 1) : j = k + 1
    BY <1>3
  <2>2. g \in Seq(Int) /\ Len(g) = n - j + 1 /\ \A i \in 1..(n - j + 1) : g[i] = h[j + i - 1]
    <3>1. \A i \in j..n : h[i] \in Int
      BY <1>1, <2>1
    <3>2. j \in Int /\ n \in Int
      OBVIOUS
    <3>3. SubSeq(h, j, n) \in Seq(Int)
      BY ONLY <3>1, <3>2, SubSeqProperties
    <3>4. \A i \in 1..(n - j + 1) : SubSeq(h, j, n)[i] = h[j + i - 1]
      BY ONLY <3>1, <3>2, SubSeqProperties
    <3>5. Len(SubSeq(h, j, n)) = IF j <= n THEN n - j + 1 ELSE 0
      BY ONLY <3>1, <3>2, SubSeqProperties
    <3>6. (IF j <= n THEN n - j + 1 ELSE 0) = n - j + 1
      BY <2>1
    <3>7. g = SubSeq(h, j, n)
      BY <1>4, <2>1, Zenon
    <3>8. QED BY <3>3, <3>4, <3>5, <3>6, <3>7, Zenon
  <2>3. n - j + 1 = m /\ \A i \in 1..m : j + i - 1 = k + i /\ k + i \in 1..n
    BY <1>3, <1>5, <2>1
  <2>4. g \in Seq(Int) /\ Len(g) = m /\ \A i \in 1..m : g[i] = h[k + i]
    BY <2>2, <2>3
  <2>5. DOMAIN g = 1..m
    BY ONLY <2>4
  <2>6. QED BY <2>3, <2>4, <2>5, Zenon
<1>7. h \in [1..n -> Int] /\ \A i, j \in 1..n : i <= j => h[i] <= h[j]
  BY ONLY <1>1, h \in Seq(Int), Rising(h) DEF Rising
<1>8. Rising(g)
  <2>1. \A i, j \in 1..m : i <= j => k + i <= k + j
    BY <1>3
  <2>2. QED BY <1>6, <1>7, <2>1 DEF Rising
<1>9. ASSUME NEW c \in Int, c >= cut PROVE Later(g, c) = Later(h, c)
  <2>1. PICK l : l = Budget!Older(h, c)
    OBVIOUS
  <2>2. CutsAt(h, c, l)
    BY <2>1, OlderIs, Zenon
  <2>3. l \in 0..n /\ \A i \in 1..n : h[i] <= c <=> i <= l
    BY <1>1, <2>2 DEF CutsAt
  <2>4. k <= l
    <3>1. \A i \in 1..n : i <= k => i <= l
      BY <1>3, <1>7, <1>9, <2>3
    <3>2. k = 0 \/ k \in 1..n
      BY <1>3
    <3>3. QED BY <1>3, <2>3, <3>1, <3>2
  <2>5. PICK d \in 0..m : d = l - k
    BY <1>3, <1>5, <2>3, <2>4
  <2>6. \A i \in 1..m : g[i] <= c <=> i <= d
    <3>1. \A i \in 1..m : k + i <= l <=> i <= d
      BY <1>3, <2>3, <2>5
    <3>2. QED BY <1>6, <2>3, <3>1
  <2>7. CutsAt(g, c, d)
    BY <1>6, <2>5, <2>6 DEF CutsAt
  <2>8. Budget!Older(g, c) = d
    BY <1>6, <1>8, <2>7, CutsOnce, Zenon
  <2>9. Later(g, c) = m - d /\ Later(h, c) = n - l
    BY <1>1, <1>6, <2>1, <2>8, Zenon DEF Later
  <2>10. m - d = n - l
    BY <1>3, <1>5, <2>3, <2>5
  <2>11. QED BY <2>9, <2>10
<1>10. IsEnd(g, h, k)
  BY <1>1, <1>5, <1>6, <1>8, Zenon DEF IsEnd
<1>11. QED BY <1>2, <1>9, <1>10, Zenon

StampOn(h, g, x) ==
  /\ h \in Seq(Int) /\ Rising(h) /\ \A i \in DOMAIN h : h[i] <= x
  /\ \A c \in Int : /\ x <= c => Later(h, c) = 0 /\ Later(g, c) = 0
                    /\ ~(x <= c) => Later(h, c) = Later(g, c) + 1

\* A stamp more, which is not before any other.
LEMMA StampMore ==
  ASSUME NEW g \in Seq(Int), Rising(g), NEW x \in Int, \A i \in DOMAIN g : g[i] <= x
  PROVE  StampOn(Append(g, x), g, x)
<1>0. PICK h : h = Append(g, x)
  OBVIOUS
<1>1. PICK n \in Nat : n = Len(g) /\ DOMAIN g = 1..n
  OBVIOUS
<1>2. /\ g \in [1..n -> Int] /\ \A i, j \in 1..n : i <= j => g[i] <= g[j]
      /\ \A i \in 1..n : g[i] <= x
  BY <1>1 DEF Rising
<1>3. PICK m \in Nat : m = n + 1 /\ m # 0
  OBVIOUS
<1>4. /\ h \in Seq(Int) /\ Len(h) = m /\ DOMAIN h = 1..m
      /\ h[m] = x /\ \A i \in 1..n : h[i] = g[i]
  BY <1>0, <1>1, <1>3
<1>5. \A i \in 1..m : i \in 1..n \/ i = m
  BY <1>3
<1>6. \A i \in DOMAIN h : h[i] <= x
  BY <1>2, <1>4, <1>5
<1>7. Rising(h)
  <2>1. \A i, j \in 1..m : i <= j /\ i = m => j = m
    BY <1>3
  <2>2. \A i, j \in 1..m : i <= j => h[i] <= h[j]
    BY <1>2, <1>4, <1>5, <2>1
  <2>3. QED BY <1>4, <2>2 DEF Rising
<1>8. ASSUME NEW c \in Int, x <= c PROVE Later(h, c) = 0 /\ Later(g, c) = 0
  <2>1. CutsAt(h, c, m)
    <3>1. \A i \in 1..m : h[i] <= c /\ i <= m
      BY <1>2, <1>4, <1>5, <1>8
    <3>2. QED BY <1>4, <3>1 DEF CutsAt
  <2>2. CutsAt(g, c, n)
    <3>1. \A i \in 1..n : g[i] <= c /\ i <= n
      BY <1>2, <1>8
    <3>2. QED BY <1>1, <3>1 DEF CutsAt
  <2>3. Budget!Older(h, c) = m /\ Budget!Older(g, c) = n
    BY <1>4, <1>7, <2>1, <2>2, CutsOnce, Zenon
  <2>4. QED BY <1>1, <1>4, <2>3 DEF Later
<1>9. ASSUME NEW c \in Int, ~(x <= c) PROVE Later(h, c) = Later(g, c) + 1
  <2>1. PICK k : k = Budget!Older(g, c)
    OBVIOUS
  <2>2. CutsAt(g, c, k)
    BY <2>1, OlderIs, Zenon
  <2>3. k \in 0..n /\ \A i \in 1..n : g[i] <= c <=> i <= k
    BY <1>1, <2>2 DEF CutsAt
  <2>4. CutsAt(h, c, k)
    <3>1. k \in 0..m /\ ~(m <= k) /\ ~(h[m] <= c)
      BY <1>3, <1>4, <1>9, <2>3
    <3>2. \A i \in 1..m : h[i] <= c <=> i <= k
      BY <1>4, <1>5, <2>3, <3>1
    <3>3. QED BY <1>4, <3>1, <3>2 DEF CutsAt
  <2>5. Budget!Older(h, c) = k
    BY <1>4, <1>7, <2>4, CutsOnce, Zenon
  <2>6. Later(h, c) = m - k /\ Later(g, c) = n - k
    BY <1>1, <1>4, <2>1, <2>5, Zenon DEF Later
  <2>7. m - k = (n - k) + 1
    BY <1>3, <2>3
  <2>8. QED BY <2>6, <2>7
<1>10. QED BY <1>0, <1>4, <1>6, <1>7, <1>8, <1>9, Zenon DEF StampOn

\* What is later is counted by a natural number.
LEMMA LaterIs ==
  ASSUME NEW h \in Seq(Int), Rising(h), NEW c \in Int
  PROVE  Later(h, c) \in Nat
<1>1. CutsAt(h, c, Budget!Older(h, c))
  BY OlderIs
<1>2. PICK k : k = Budget!Older(h, c)
  OBVIOUS
<1>3. k \in 0..Len(h)
  BY <1>1, <1>2, Zenon DEF CutsAt
<1>4. Len(h) - k \in Nat
  BY <1>3
<1>5. QED BY <1>2, <1>4, Zenon DEF Later

-----------------------------------------------------------------------------
\* A window that is full, and until when.
Due(h, w) == w[2] <= Len(h)
Until(h, w) == h[Len(h) - w[2] + 1] + w[1]

\* A window makes an order wait until the oldest of its last orders is out of it.
LEMMA WaitIs ==
  ASSUME NEW key, NEW h \in Seq(Int), h = key.history, Rising(h),
         NEW w \in (Nat \ {0}) \X (Nat \ {0}), NEW at \in Int
  PROVE  /\ Budget!Wait(key, w, at)
              = (IF Due(h, w) /\ Until(h, w) > at THEN Until(h, w) - at ELSE 0)
         /\ Due(h, w) => Until(h, w) \in Int
<1>1. PICK n \in Nat : n = Len(h) /\ DOMAIN h = 1..n
  OBVIOUS
<1>2. PICK span \in Nat \ {0}, limit \in Nat \ {0} : span = w[1] /\ limit = w[2]
  OBVIOUS
<1>3. PICK cut \in Int : cut = at - span
  OBVIOUS
<1>4. PICK k, g : k = Budget!Older(h, cut) /\ g = EndOf(h, k)
  OBVIOUS
<1>5. CutsAt(h, cut, k) /\ Len(g) = Len(h) - k /\ \A i \in 1..Len(g) : g[i] = h[k + i]
  <2>1. CutsAt(h, cut, k)
    BY <1>4, OlderIs, Zenon
  <2>2. IsEnd(EndOf(h, k), h, k)
    BY ONLY <2>1, EndIs, h \in Seq(Int), Rising(h), cut \in Int, Zenon
  <2>3. QED BY <1>4, <2>1, <2>2, Zenon DEF IsEnd
<1>6. PICK m \in Nat : m = n - k /\ m = Len(g)
  <2>1. k \in 0..n /\ Len(g) = n - k
    BY <1>1, <1>5, Zenon DEF CutsAt
  <2>2. QED BY <2>1
<1>7. k \in 0..n /\ \A i \in 1..n : h[i] <= cut <=> i <= k
  BY <1>1, <1>5, Zenon DEF CutsAt
<1>8. Budget!Wait(key, w, at) = IF m >= limit THEN g[m - limit + 1] + span - at ELSE 0
  <2>1. Budget!Recent(h, span, at) = g
    BY <1>3, <1>4, Zenon DEF Budget!Recent, EndOf
  <2>2. QED BY <1>2, <1>6, <2>1, Zenon DEF Budget!Wait, Budget!Full
<1>9. (Due(h, w) <=> limit <= n) /\ Until(h, w) = h[n - limit + 1] + span
  BY <1>1, <1>2, Zenon DEF Due, Until
<1>10. h \in [1..n -> Int]
  BY ONLY <1>1, h \in Seq(Int)
<1>11. CASE m >= limit
  <2>1. PICK i \in 1..n : i = n - limit + 1 /\ i = k + (m - limit + 1) /\ i > k
    BY <1>6, <1>7, <1>11
  <2>2. m - limit + 1 \in 1..m
    BY <1>11
  <2>3. g[m - limit + 1] = h[i]
    <3>1. \A j \in 1..m : g[j] = h[k + j]
      BY <1>6, <1>5, Zenon
    <3>2. QED BY <2>1, <2>2, <3>1, Zenon
  <2>4. h[i] \in Int /\ ~(h[i] <= cut)
    <3>1. ~(i <= k)
      BY <1>7, <2>1
    <3>2. QED BY <1>7, <1>10, <3>1, Zenon
  <2>5. limit <= n
    <3>1. k \in 0..n
      BY <1>7
    <3>2. QED BY <1>6, <1>11, <3>1
  <2>6. PICK u \in Int : u = h[i] + span /\ u > at
    BY <1>3, <2>4
  <2>7. Budget!Wait(key, w, at) = u - at
    <3>1. Budget!Wait(key, w, at) = g[m - limit + 1] + span - at
      BY <1>8, <1>11, Zenon
    <3>2. g[m - limit + 1] + span - at = h[i] + span - at
      BY <2>3, Zenon
    <3>3. h[i] + span - at = u - at
      <4>1. PICK x \in Int : x = h[i]
        BY <2>4
      <4>2. x + span - at = u - at
        BY <2>6, <4>1
      <4>3. QED BY <4>1, <4>2, Zenon
    <3>4. QED BY <3>1, <3>2, <3>3, Zenon
  <2>8. Due(h, w) /\ Until(h, w) = u
    BY <1>9, <2>1, <2>5, <2>6
  <2>9. QED BY <2>6, <2>7, <2>8
<1>12. CASE ~(m >= limit)
  <2>1. Budget!Wait(key, w, at) = 0
    BY <1>8, <1>12, Zenon
  <2>2. ASSUME Due(h, w) PROVE Until(h, w) \in Int /\ ~(Until(h, w) > at)
    <3>1. PICK i \in 1..n : i = n - limit + 1 /\ i <= k
      BY <1>6, <1>7, <1>9, <1>12, <2>2
    <3>2. h[i] \in Int /\ h[i] <= cut
      BY <1>7, <1>10, <3>1
    <3>3. h[i] + span \in Int /\ ~(h[i] + span > at)
      BY <1>3, <3>2
    <3>4. QED BY <1>9, <3>1, <3>3
  <2>3. QED BY <2>1, <2>2
<1>13. QED BY <1>11, <1>12

-----------------------------------------------------------------------------
\* The greatest of a set of numbers.
LEMMA MaxIs ==
  ASSUME NEW S, S \subseteq Int, NEW m \in S, \A x \in S : x <= m
  PROVE  Budget!Max(S) = m
<1>1. m \in S /\ \A y \in S : m >= y
  OBVIOUS
<1>2. PICK x : x = Budget!Max(S)
  OBVIOUS
<1>3. x \in S /\ \A y \in S : x >= y
  BY <1>1, <1>2, Zenon DEF Budget!Max
<1>4. x \in Int /\ m \in Int /\ x >= m /\ m >= x
  BY <1>1, <1>3
<1>5. QED BY <1>2, <1>4

\* The greater of two.
LEMMA MaxOfTwo ==
  ASSUME NEW a \in Int, NEW b \in Int
  PROVE  Budget!Max({a, b}) = IF a >= b THEN a ELSE b
<1>1. PICK S, m : S = {a, b} /\ m = (IF a >= b THEN a ELSE b)
  OBVIOUS
<1>2. S \subseteq Int /\ m \in S /\ \A x \in S : x <= m
  BY <1>1
<1>3. Budget!Max(S) = m
  BY <1>2, MaxIs, Zenon
<1>4. QED BY <1>1, <1>3, Zenon

\* The lesser of two.
LEMMA MinOfTwo ==
  ASSUME NEW a \in Int, NEW b \in Int
  PROVE  Budget!Min({a, b}) \in Int
<1>1. (IF a <= b THEN a ELSE b) \in {a, b}
      /\ \A y \in {a, b} : (IF a <= b THEN a ELSE b) <= y
  OBVIOUS
<1>2. Budget!Min({a, b}) \in {a, b}
  BY <1>1, Zenon DEF Budget!Min
<1>3. QED BY <1>2

\* The longest window is a number, and none is longer.
LEMMA LongestIs == Budget!Longest \in Int /\ \A w \in Windows : w[1] <= Budget!Longest
<1>1. /\ Windows \subseteq (Nat \ {0}) \X (Nat \ {0}) /\ Windows # {}
      /\ IsFiniteSet(Windows)
  <2>1. Budget!IsFiniteSet(Windows) <=> IsFiniteSet(Windows)
    BY Zenon DEF Budget!IsFiniteSet, IsFiniteSet
  <2>2. QED BY <2>1, ServicesAssumption, Zenon DEF Budget!BudgetAssumption
<1>2. PICK f : f = [w \in Windows |-> w[1]]
  OBVIOUS
<1>3. f \in [Windows -> Int] /\ \A w \in Windows : f[w] = w[1]
  BY <1>1, <1>2
<1>4. PICK m \in Windows : \A v \in Windows : f[v] <= f[m]
  BY <1>1, <1>3, MaxOver, Zenon
<1>5. PICK S : S = {w[1] : w \in Windows}
  OBVIOUS
<1>6. S \subseteq Int /\ f[m] \in S /\ \A x \in S : x <= f[m]
  <2>1. \A x \in S : \E w \in Windows : x = f[w]
    BY <1>3, <1>5
  <2>2. \A w \in Windows : f[w] \in Int
    BY <1>3
  <2>3. f[m] \in S
    BY <1>3, <1>5
  <2>4. QED BY <1>4, <2>1, <2>2, <2>3
<1>7. Budget!Max(S) = f[m]
  BY <1>6, MaxIs, Zenon
<1>8. Budget!Longest = f[m]
  BY <1>5, <1>7, Zenon DEF Budget!Longest
<1>9. QED BY <1>3, <1>4, <1>8

\* The time from which a key allows an order.
EndsAt(key, end) ==
  /\ end >= key.cooldown /\ end \in Int
  /\ \A w \in Windows : Due(key.history, w) => Until(key.history, w) <= end
  /\ \A at \in Int : Budget!Retry(key, at) = IF end > at THEN end - at ELSE 0

\* There is one, whenever the script asks.
LEMMA RetryIs ==
  ASSUME NEW key, key.history \in Seq(Int), Rising(key.history), key.cooldown \in Int
  PROVE  \E end : EndsAt(key, end)
<1>1. /\ Windows \subseteq (Nat \ {0}) \X (Nat \ {0}) /\ Windows # {}
      /\ IsFiniteSet(Windows)
  <2>1. Budget!IsFiniteSet(Windows) <=> IsFiniteSet(Windows)
    BY Zenon DEF Budget!IsFiniteSet, IsFiniteSet
  <2>2. QED BY <2>1, ServicesAssumption, Zenon DEF Budget!BudgetAssumption
<1>2. PICK h \in Seq(Int), cool \in Int : h = key.history /\ cool = key.cooldown
  OBVIOUS
<1>3. Rising(h)
  BY <1>2, Zenon
<1>4. ASSUME NEW w \in Windows, NEW at \in Int
      PROVE  /\ Budget!Wait(key, w, at)
                  = (IF Due(h, w) /\ Until(h, w) > at THEN Until(h, w) - at ELSE 0)
             /\ Due(h, w) => Until(h, w) \in Int
  <2>1. w \in (Nat \ {0}) \X (Nat \ {0})
    BY <1>1
  <2>2. QED BY <1>2, <1>3, <2>1, WaitIs, Zenon
<1>5. PICK f : f = [w \in Windows |->
                      IF Due(h, w) /\ Until(h, w) > cool THEN Until(h, w) ELSE cool]
  OBVIOUS
<1>6. f \in [Windows -> Int]
  <2>1. \A w \in Windows : (IF Due(h, w) /\ Until(h, w) > cool THEN Until(h, w) ELSE cool) \in Int
    BY <1>4, 0 \in Int, Zenon
  <2>2. QED BY <1>5, <2>1, Zenon
<1>7. \A w \in Windows :
        f[w] = IF Due(h, w) /\ Until(h, w) > cool THEN Until(h, w) ELSE cool
  BY <1>5, Zenon
<1>8. PICK m \in Windows : \A v \in Windows : f[v] <= f[m]
  BY <1>1, <1>6, MaxOver, Zenon
<1>9. PICK end \in Int : end = f[m]
  BY <1>6
<1>10. end = cool \/ (Due(h, m) /\ Until(h, m) = end)
  BY <1>7, <1>9, Zenon
<1>11. \A w \in Windows : f[w] \in Int /\ f[w] <= end
  BY <1>6, <1>8, <1>9
<1>12. ASSUME NEW w \in Windows
       PROVE  cool <= end /\ (Due(h, w) => Until(h, w) \in Int /\ Until(h, w) <= end)
  <2>1. Due(h, w) => Until(h, w) \in Int
    BY <1>4, 0 \in Int, Zenon
  <2>2. f[w] \in Int /\ f[w] <= end
    BY <1>11
  <2>3. f[w] = IF Due(h, w) /\ Until(h, w) > cool THEN Until(h, w) ELSE cool
    BY <1>7, Zenon
  <2>4. QED BY <2>1, <2>2, <2>3
<1>13. ASSUME NEW at \in Int
       PROVE  Budget!Retry(key, at) = IF end > at THEN end - at ELSE 0
  <2>1. PICK r \in Int : r = IF end > at THEN end - at ELSE 0
    <3>1. (IF end > at THEN end - at ELSE 0) \in Int
      BY ONLY end \in Int, at \in Int
    <3>2. QED BY <3>1, Zenon
  <2>2. PICK S : S = {0, cool - at} \cup {Budget!Wait(key, w, at) : w \in Windows}
    OBVIOUS
  <2>3. ASSUME NEW x \in S PROVE x \in Int /\ x <= r
    <3>1. CASE x \in {0, cool - at}
      <4>1. cool <= end
        BY <1>12, <1>8
      <4>2. QED BY <2>1, <3>1, <4>1
    <3>2. CASE \E w \in Windows : x = Budget!Wait(key, w, at)
      <4>1. PICK w \in Windows : x = Budget!Wait(key, w, at)
        BY <3>2
      <4>2. x = IF Due(h, w) /\ Until(h, w) > at THEN Until(h, w) - at ELSE 0
        BY <1>4, <4>1, Zenon
      <4>3. Due(h, w) => Until(h, w) \in Int /\ Until(h, w) <= end
        BY <1>12, Zenon
      <4>4. QED BY <2>1, <4>2, <4>3
    <3>3. QED BY <2>2, <3>1, <3>2
  <2>4. r \in S
    <3>1. CASE ~(end > at)
      BY <2>1, <2>2, <3>1
    <3>2. CASE end > at /\ end = cool
      BY <2>1, <2>2, <3>2
    <3>3. CASE end > at /\ Due(h, m) /\ Until(h, m) = end
      <4>1. Budget!Wait(key, m, at) = r
        BY <1>4, <2>1, <3>3, Zenon
      <4>2. QED BY <2>2, <4>1, Zenon
    <3>4. QED BY <1>10, <3>1, <3>2, <3>3
  <2>5. Budget!Max(S) = r
    BY <2>3, <2>4, MaxIs
  <2>6. Budget!Retry(key, at) = Budget!Max(S)
    BY <1>2, <2>2, Zenon DEF Budget!Retry
  <2>7. QED BY <2>1, <2>5, <2>6, Zenon
<1>14. end >= cool
  BY <1>8, <1>12
<1>15. EndsAt(key, end)
  BY <1>2, <1>12, <1>13, <1>14, Zenon DEF EndsAt
<1>16. QED BY <1>15, Zenon

\* A deferral ends exactly when it says.
LEMMA DeferralEnds ==
  ASSUME NEW key, key.history \in Seq(Int), Rising(key.history), key.cooldown \in Int,
         NEW at \in Int, Budget!Retry(key, at) > 0
  PROVE  /\ Budget!Retry(key, at + Budget!Retry(key, at)) = 0
         /\ \A d \in 0..(Budget!Retry(key, at) - 1) : Budget!Retry(key, at + d) > 0
<1>1. PICK end : EndsAt(key, end)
  BY RetryIs, Zenon
<1>2. end \in Int /\ \A t \in Int : Budget!Retry(key, t) = IF end > t THEN end - t ELSE 0
  BY <1>1, Zenon DEF EndsAt
<1>3. PICK r \in Int : r = Budget!Retry(key, at)
  BY <1>2
<1>4. r > 0 /\ r = end - at
  BY <1>2, <1>3
<1>5. Budget!Retry(key, at + r) = 0
  <2>1. PICK t \in Int : t = at + r
    OBVIOUS
  <2>2. t = end
    BY <1>2, <1>4, <2>1
  <2>3. Budget!Retry(key, t) = 0
    BY <1>2, <2>2
  <2>4. QED BY <2>1, <2>3, Zenon
<1>6. ASSUME NEW d \in 0..(r - 1) PROVE Budget!Retry(key, at + d) > 0
  <2>1. PICK t \in Int : t = at + d
    OBVIOUS
  <2>2. end > t
    BY <1>2, <1>4, <2>1
  <2>3. Budget!Retry(key, t) > 0
    BY <1>2, <2>2
  <2>4. QED BY <2>1, <2>3, Zenon
<1>7. QED BY <1>3, <1>5, <1>6, Zenon

-----------------------------------------------------------------------------
\* What the key is made of, and that its stamps are in order.
KeyFields == {"history", "last", "cooldown"}
Sound(key) ==
  /\ DOMAIN key = KeyFields
  /\ key.history \in Seq(Int) /\ key.last \in Int /\ key.cooldown \in Int
  /\ Rising(key.history) /\ \A i \in DOMAIN key.history : key.history[i] <= key.last

AllowedOrders == [at : Int, kept : BOOLEAN]

\* The first n orders that a key is to count after the cut, and those in a window.
CountedAfter(o, c, n) == {i \in Budget!KeptAfter(o, c) : i <= n}
InWindow(o, w, t) == {i \in Budget!KeptAfter(o, t - w[1]) : o[i].at <= t}

\* Fewer orders are counted by a smaller number.
LEMMA FewerOrders ==
  ASSUME NEW m \in Nat, NEW T, T \subseteq 1..m, NEW S, S \subseteq T
  PROVE  /\ Budget!Cardinality(S) \in Nat /\ Budget!Cardinality(T) \in Nat
         /\ Budget!Cardinality(S) <= Budget!Cardinality(T)
<1>1. Budget!Cardinality(S) = Cardinality(S)
  BY Zenon DEF Budget!Cardinality, Cardinality, Budget!IsFiniteSet, IsFiniteSet
<1>2. Budget!Cardinality(T) = Cardinality(T)
  BY Zenon DEF Budget!Cardinality, Cardinality, Budget!IsFiniteSet, IsFiniteSet
<1>3. IsFiniteSet(1..m)
  BY FS_Interval
<1>4. IsFiniteSet(T)
  BY <1>3, FS_Subset, Zenon
<1>5. IsFiniteSet(S) /\ Cardinality(S) <= Cardinality(T)
  BY <1>4, FS_Subset, Zenon
<1>6. Cardinality(S) \in Nat /\ Cardinality(T) \in Nat
  BY <1>4, <1>5, FS_CardinalityType, Zenon
<1>7. QED BY <1>1, <1>2, <1>5, <1>6, Zenon

\* One order more counts one more.
LEMMA OneOrderMore ==
  ASSUME NEW m \in Nat, NEW T, T \subseteq 1..m, NEW x, NEW S, S \subseteq T \cup {x}
  PROVE  /\ Budget!Cardinality(S) \in Nat /\ Budget!Cardinality(T) \in Nat
         /\ Budget!Cardinality(S) <= Budget!Cardinality(T) + 1
<1>1. Budget!Cardinality(S) = Cardinality(S)
  BY Zenon DEF Budget!Cardinality, Cardinality, Budget!IsFiniteSet, IsFiniteSet
<1>2. Budget!Cardinality(T) = Cardinality(T)
  BY Zenon DEF Budget!Cardinality, Cardinality, Budget!IsFiniteSet, IsFiniteSet
<1>3. IsFiniteSet(1..m)
  BY FS_Interval
<1>4. IsFiniteSet(T)
  BY <1>3, FS_Subset, Zenon
<1>5. /\ IsFiniteSet(T \cup {x})
      /\ Cardinality(T \cup {x}) = IF x \in T THEN Cardinality(T) ELSE Cardinality(T) + 1
  BY <1>4, FS_AddElement, Zenon
<1>6. IsFiniteSet(S) /\ Cardinality(S) <= Cardinality(T \cup {x})
  BY <1>5, FS_Subset, Zenon
<1>7. Cardinality(S) \in Nat /\ Cardinality(T) \in Nat /\ Cardinality(T \cup {x}) \in Nat
  BY <1>4, <1>5, <1>6, FS_CardinalityType, Zenon
<1>8. Cardinality(S) <= Cardinality(T) + 1
  BY <1>5, <1>6, <1>7
<1>9. QED BY <1>1, <1>2, <1>7, <1>8, Zenon

\* A key counts what it covers.
LEMMA CoversIs ==
  ASSUME NEW key, NEW o, NEW n
  PROVE  Budget!Covers(key, o, n)
           <=> \A c \in (key.last - Budget!Longest)..MaxTime :
                 Budget!Cardinality(CountedAfter(o, c, n)) <= Later(key.history, c)
BY Zenon DEF Budget!Covers, CountedAfter, Later

\* Every window has its limit.
LEMMA WithinIs ==
  ASSUME NEW o
  PROVE  Budget!WithinLimits(o)
           <=> \A w \in Windows, t \in 0..MaxTime : Budget!Cardinality(InWindow(o, w, t)) <= w[2]
BY Zenon DEF Budget!WithinLimits, InWindow

\* Which orders are counted, and which are in a window.
LEMMA CountedIs ==
  ASSUME NEW o \in Seq(AllowedOrders), NEW c, NEW n, NEW w, NEW t
  PROVE  /\ CountedAfter(o, c, n) \subseteq 1..Len(o) /\ InWindow(o, w, t) \subseteq 1..Len(o)
         /\ \A i : i \in CountedAfter(o, c, n)
                     <=> i \in 1..Len(o) /\ o[i].kept /\ o[i].at > c /\ i <= n
         /\ \A i : i \in InWindow(o, w, t)
                     <=> i \in 1..Len(o) /\ o[i].kept /\ o[i].at > t - w[1] /\ o[i].at <= t
<1>1. DOMAIN o = 1..Len(o)
  OBVIOUS
<1>2. QED BY <1>1, Zenon DEF CountedAfter, InWindow, Budget!KeptAfter

\* What is left of a history keeps its order, and what is after any later cut.
Shortened(g, h, cut) ==
  /\ g \in Seq(Int) /\ Rising(g)
  /\ \A i \in DOMAIN g : \E j \in DOMAIN h : g[i] = h[j]
  /\ \A c \in Int : c >= cut => Later(g, c) = Later(h, c)

\* The script drops the stamps that no window needs.
LEMMA RecentKeeps ==
  ASSUME NEW h \in Seq(Int), Rising(h), NEW span \in Int, NEW at \in Int
  PROVE  Shortened(Budget!Recent(h, span, at), h, at - span)
<1>1. PICK cut \in Int : cut = at - span
  OBVIOUS
<1>2. PICK k : k = Budget!Older(h, cut)
  OBVIOUS
<1>3. CutsAt(h, cut, k)
  BY <1>2, OlderIs, Zenon
<1>4. PICK g : g = EndOf(h, k)
  OBVIOUS
<1>5. IsEnd(g, h, k) /\ \A c \in Int : c >= cut => Later(g, c) = Later(h, c)
  BY <1>3, <1>4, EndIs, Zenon
<1>6. \A i \in DOMAIN g : \E j \in DOMAIN h : g[i] = h[j]
  <2>1. PICK n \in Nat, m \in Nat : n = Len(h) /\ m = Len(g)
    BY <1>5 DEF IsEnd
  <2>2. DOMAIN h = 1..n /\ DOMAIN g = 1..m
    BY ONLY <1>5, <2>1, h \in Seq(Int) DEF IsEnd
  <2>3. k \in 0..n /\ m = n - k /\ \A i \in 1..m : g[i] = h[k + i]
    BY <1>3, <1>5, <2>1, Zenon DEF CutsAt, IsEnd
  <2>4. \A i \in 1..m : k + i \in 1..n
    BY <2>3
  <2>5. QED BY <2>2, <2>3, <2>4, Zenon
<1>7. Budget!Recent(h, span, at) = g
  BY <1>1, <1>2, <1>4, Zenon DEF Budget!Recent, EndOf
<1>8. QED BY <1>1, <1>5, <1>6, <1>7, Zenon DEF Shortened, IsEnd

\* A key with fewer old stamps and a later clock covers what it covered.
LEMMA CoversLater ==
  ASSUME NEW key, Sound(key), NEW o \in Seq(AllowedOrders), NEW n, Budget!Covers(key, o, n),
         NEW key2, Sound(key2), key2.last >= key.last,
         \A c \in Int : c >= key2.last - Budget!Longest
                          => Later(key2.history, c) >= Later(key.history, c)
  PROVE  Budget!Covers(key2, o, n)
<1>1. SUFFICES ASSUME NEW c \in (key2.last - Budget!Longest)..MaxTime
               PROVE  Budget!Cardinality(CountedAfter(o, c, n)) <= Later(key2.history, c)
  BY CoversIs, Zenon
<1>2. PICK long \in Int, last \in Int, last2 \in Int :
        long = Budget!Longest /\ last = key.last /\ last2 = key2.last
  BY LongestIs DEF Sound
<1>3. MaxTime \in Int
  BY ServicesAssumption DEF Budget!BudgetAssumption
<1>4. c \in Int /\ c >= last2 - long /\ c \in (last - long)..MaxTime
  <2>1. last2 >= last /\ c \in (last2 - long)..MaxTime
    BY <1>1, <1>2, Zenon
  <2>2. QED BY <1>3, <2>1
<1>5. Budget!Cardinality(CountedAfter(o, c, n)) <= Later(key.history, c)
  BY <1>2, <1>4, CoversIs, Zenon
<1>6. Later(key2.history, c) >= Later(key.history, c)
  BY <1>2, <1>4, Zenon
<1>7. Later(key2.history, c) \in Nat /\ Later(key.history, c) \in Nat
  BY <1>4, LaterIs, Zenon DEF Sound
<1>8. PICK m \in Nat : m = Len(o)
  OBVIOUS
<1>9. Budget!Cardinality(CountedAfter(o, c, n)) \in Nat
  <2>1. CountedAfter(o, c, n) \subseteq 1..m
    BY <1>8, CountedIs, Zenon
  <2>2. QED BY <2>1, FewerOrders, Zenon
<1>10. QED BY <1>5, <1>6, <1>7, <1>9

\* A key covers fewer orders too.
LEMMA CoversFewer ==
  ASSUME NEW key, Sound(key), NEW o \in Seq(AllowedOrders), NEW n, Budget!Covers(key, o, n),
         NEW p, NEW m,
         \A c \in Int : CountedAfter(p, c, m) \subseteq CountedAfter(o, c, n)
  PROVE  Budget!Covers(key, p, m)
<1>1. SUFFICES ASSUME NEW c \in (key.last - Budget!Longest)..MaxTime
               PROVE  Budget!Cardinality(CountedAfter(p, c, m)) <= Later(key.history, c)
  BY CoversIs, Zenon
<1>2. c \in Int
  <2>1. PICK long \in Int, last \in Int : long = Budget!Longest /\ last = key.last
    BY LongestIs DEF Sound
  <2>2. c \in (last - long)..MaxTime
    BY <1>1, <2>1, Zenon
  <2>3. MaxTime \in Int
    BY ServicesAssumption DEF Budget!BudgetAssumption
  <2>4. QED BY <2>2, <2>3
<1>3. Budget!Cardinality(CountedAfter(o, c, n)) <= Later(key.history, c)
  BY <1>1, CoversIs, Zenon
<1>4. PICK l \in Nat : l = Len(o)
  OBVIOUS
<1>5. CountedAfter(o, c, n) \subseteq 1..l
  BY <1>4, CountedIs, Zenon
<1>6. /\ Budget!Cardinality(CountedAfter(p, c, m)) \in Nat
      /\ Budget!Cardinality(CountedAfter(o, c, n)) \in Nat
      /\ Budget!Cardinality(CountedAfter(p, c, m)) <= Budget!Cardinality(CountedAfter(o, c, n))
  BY <1>2, <1>5, FewerOrders, Zenon
<1>7. Later(key.history, c) \in Nat
  BY <1>2, LaterIs, Zenon DEF Sound
<1>8. QED BY <1>3, <1>6, <1>7

\* While no window is full, each has room for an order.
LEMMA HasRoom ==
  ASSUME NEW key, Sound(key), NEW at \in Int, Budget!Retry(key, at) = 0, NEW w \in Windows
  PROVE  Later(key.history, at - w[1]) + 1 <= w[2]
<1>1. PICK end : EndsAt(key, end)
  BY RetryIs, Zenon DEF Sound
<1>2. end \in Int /\ Budget!Retry(key, at) = (IF end > at THEN end - at ELSE 0)
  BY <1>1, Zenon DEF EndsAt
<1>3. end <= at
  BY <1>2
<1>4. PICK h \in Seq(Int) : h = key.history /\ Rising(h)
  BY DEF Sound
<1>5. PICK span \in Nat \ {0}, limit \in Nat \ {0} : span = w[1] /\ limit = w[2]
  BY ServicesAssumption DEF Budget!BudgetAssumption
<1>6. PICK cut \in Int : cut = at - span
  OBVIOUS
<1>7. PICK k : k = Budget!Older(h, cut)
  OBVIOUS
<1>8. CutsAt(h, cut, k)
  BY <1>4, <1>7, OlderIs, Zenon
<1>9. PICK n \in Nat : n = Len(h) /\ DOMAIN h = 1..n
  OBVIOUS
<1>10. k \in 0..n /\ \A i \in 1..n : h[i] <= cut <=> i <= k
  BY <1>8, <1>9, Zenon DEF CutsAt
<1>11. n - k + 1 <= limit
  <2>1. CASE limit <= n
    <3>1. PICK i \in 1..n : i = n - limit + 1
      BY <2>1
    <3>2. Due(h, w) /\ Until(h, w) = h[i] + span
      BY <1>5, <1>9, <2>1, <3>1, Zenon DEF Due, Until
    <3>3. h[i] + span <= end
      BY <1>1, <1>4, <3>2, Zenon DEF EndsAt
    <3>4. h[i] \in Int
      BY <1>9
    <3>5. h[i] <= cut
      BY <1>2, <1>3, <1>6, <3>3, <3>4
    <3>6. i <= k
      BY <1>10, <3>5
    <3>7. QED BY <1>10, <3>1, <3>6
  <2>2. CASE ~(limit <= n)
    BY <1>10, <2>2
  <2>3. QED BY <2>1, <2>2
<1>12. Later(h, cut) = n - k
  BY <1>7, <1>9, Zenon DEF Later
<1>13. QED BY <1>4, <1>5, <1>6, <1>11, <1>12, Zenon

-----------------------------------------------------------------------------
\* A key that counts an order at the time t: a stamp more for every earlier cut.
Stamped(k2, k, t) ==
  /\ Sound(k2) /\ k2.last = t /\ k2.cooldown = k.cooldown
  /\ \A c \in Int : c >= t - Budget!Longest =>
       Later(k2.history, c) = IF t <= c THEN Later(k.history, c) ELSE Later(k.history, c) + 1

\* So does the script when it allows one.
LEMMA CountedKey ==
  ASSUME NEW k, Sound(k), NEW t \in Int, k.last <= t, NEW k2,
         k2 = [k EXCEPT !.history = Append(Budget!Recent(@, Budget!Longest, t), t), !.last = t]
  PROVE  Stamped(k2, k, t)
<1>1. PICK h \in Seq(Int), last \in Int, cool \in Int :
        /\ h = k.history /\ last = k.last /\ cool = k.cooldown
        /\ Rising(h) /\ \A i \in DOMAIN h : h[i] <= last
  BY DEF Sound
<1>2. PICK long \in Int : long = Budget!Longest
  BY LongestIs
<1>3. PICK g : g = Budget!Recent(h, long, t)
  OBVIOUS
<1>4. Shortened(g, h, t - long)
  BY <1>1, <1>3, RecentKeeps, Zenon
<1>5. g \in Seq(Int) /\ Rising(g) /\ \A i \in DOMAIN g : \E j \in DOMAIN h : g[i] = h[j]
  BY <1>4, Zenon DEF Shortened
<1>6. \A i \in DOMAIN g : g[i] <= t
  <2>1. \A j \in DOMAIN h : h[j] \in Int
    BY ONLY h \in Seq(Int)
  <2>2. last <= t
    BY <1>1, Zenon
  <2>3. \A j \in DOMAIN h : h[j] <= t
    BY <1>1, <2>1, <2>2
  <2>4. QED BY <1>5, <2>3, Zenon
<1>7. PICK a : a = Append(g, t)
  OBVIOUS
<1>8. /\ a \in Seq(Int) /\ Rising(a) /\ \A i \in DOMAIN a : a[i] <= t
      /\ \A c \in Int : /\ t <= c => Later(a, c) = 0 /\ Later(g, c) = 0
                        /\ ~(t <= c) => Later(a, c) = Later(g, c) + 1
  BY <1>5, <1>6, <1>7, StampMore, Zenon DEF StampOn
<1>9. DOMAIN k = {"history", "last", "cooldown"}
  BY Zenon DEF Sound, KeyFields
<1>10. PICK m : m = [k EXCEPT !.history = a]
  OBVIOUS
<1>11. k2 = [m EXCEPT !.last = t]
  BY <1>1, <1>2, <1>3, <1>7, <1>10, Zenon
<1>12. DOMAIN m = {"history", "last", "cooldown"} /\ m.history = a /\ m.cooldown = cool
  BY <1>1, <1>9, <1>10
<1>13. DOMAIN k2 = {"history", "last", "cooldown"} /\ k2.history = a /\ k2.last = t /\ k2.cooldown = cool
  BY <1>11, <1>12
<1>14. Sound(k2)
  BY <1>8, <1>13, Zenon DEF Sound, KeyFields
<1>15. ASSUME NEW c \in Int, c >= t - long
       PROVE  Later(a, c) = IF t <= c THEN Later(h, c) ELSE Later(h, c) + 1
  <2>1. Later(g, c) = Later(h, c)
    BY <1>4, <1>15, Zenon DEF Shortened
  <2>2. QED BY <1>8, <2>1, Zenon
<1>16. QED BY <1>1, <1>2, <1>13, <1>14, <1>15, Zenon DEF Stamped

\* A key whose cooldown was moved: nothing else that counts.
CooledKey(k2, k, t, until) ==
  /\ Sound(k2) /\ k2.last = t
  /\ k2.cooldown >= k.cooldown /\ k2.cooldown >= until
  /\ \A c \in Int : c >= t - Budget!Longest => Later(k2.history, c) = Later(k.history, c)

\* So does the script when it is asked to wait.
LEMMA CooledToIs ==
  ASSUME NEW k, Sound(k), NEW t \in Int, k.last <= t, NEW until \in Int, NEW k2,
         k2 = [k EXCEPT !.history = Budget!Recent(@, Budget!Longest, t), !.last = t,
                        !.cooldown = Budget!Max({@, until})]
  PROVE  CooledKey(k2, k, t, until)
<1>1. PICK h \in Seq(Int), last \in Int, cool \in Int :
        /\ h = k.history /\ last = k.last /\ cool = k.cooldown
        /\ Rising(h) /\ \A i \in DOMAIN h : h[i] <= last
  BY DEF Sound
<1>2. PICK long \in Int : long = Budget!Longest
  BY LongestIs
<1>3. PICK g : g = Budget!Recent(h, long, t)
  OBVIOUS
<1>4. Shortened(g, h, t - long)
  BY <1>1, <1>3, RecentKeeps, Zenon
<1>5. g \in Seq(Int) /\ Rising(g) /\ \A i \in DOMAIN g : \E j \in DOMAIN h : g[i] = h[j]
  BY <1>4, Zenon DEF Shortened
<1>6. \A i \in DOMAIN g : g[i] <= t
  <2>1. \A j \in DOMAIN h : h[j] \in Int
    BY ONLY h \in Seq(Int)
  <2>2. last <= t
    BY <1>1, Zenon
  <2>3. \A j \in DOMAIN h : h[j] <= t
    BY <1>1, <2>1, <2>2
  <2>4. QED BY <1>5, <2>3, Zenon
<1>7. PICK cool2 \in Int : cool2 = Budget!Max({cool, until}) /\ cool2 >= cool /\ cool2 >= until
  <2>1. PICK x : x = Budget!Max({cool, until})
    OBVIOUS
  <2>2. x = IF cool >= until THEN cool ELSE until
    BY <2>1, MaxOfTwo, Zenon
  <2>3. x \in Int /\ x >= cool /\ x >= until
    BY <2>2
  <2>4. QED BY <2>1, <2>3, Zenon
<1>8. DOMAIN k = {"history", "last", "cooldown"}
  BY Zenon DEF Sound, KeyFields
<1>9. PICK m : m = [k EXCEPT !.history = g]
  OBVIOUS
<1>10. PICK l : l = [m EXCEPT !.last = t]
  OBVIOUS
<1>11. DOMAIN m = {"history", "last", "cooldown"} /\ m.history = g /\ m.cooldown = cool
  BY <1>1, <1>8, <1>9
<1>12. DOMAIN l = {"history", "last", "cooldown"} /\ l.history = g /\ l.last = t /\ l.cooldown = cool
  BY <1>10, <1>11
<1>13. k2 = [l EXCEPT !.cooldown = cool2]
  BY <1>1, <1>2, <1>3, <1>7, <1>9, <1>10, <1>12, Zenon
<1>14. DOMAIN k2 = {"history", "last", "cooldown"} /\ k2.history = g /\ k2.last = t /\ k2.cooldown = cool2
  BY <1>12, <1>13
<1>15. Sound(k2)
  BY <1>5, <1>6, <1>14, Zenon DEF Sound, KeyFields
<1>16. \A c \in Int : c >= t - long => Later(g, c) = Later(h, c)
  BY <1>4, Zenon DEF Shortened
<1>17. QED BY <1>1, <1>2, <1>7, <1>14, <1>15, <1>16, Zenon DEF CooledKey

-----------------------------------------------------------------------------
\* OrderBudget!BudgetInv of a state, and the types of its parts.
BudgetSound(t, k, l, n, o, p) ==
  /\ t \in Int /\ t <= MaxTime
  /\ Sound(k) /\ Sound(l)
  /\ o \in Seq(AllowedOrders) /\ n \in Nat /\ n <= Len(o)
  /\ Budget!Covers(k, o, Len(o)) /\ Budget!Covers(l, o, n)
  /\ p \in Int /\ p <= k.cooldown /\ p <= l.cooldown
  /\ Budget!WithinLimits(o)

BudgetIInv == BudgetSound(now, store, logged.key, logged.counts, allowed, promised)

\* It is what the model checker finds to hold, with the types.
LEMMA BudgetStrengthens == BudgetIInv => Budget!BudgetInv
<1>1. \A key : Sound(key) => Budget!Ordered(key)
  BY Zenon DEF Sound, Rising, Budget!Ordered
<1>2. QED BY <1>1, Zenon DEF BudgetIInv, BudgetSound, Budget!BudgetInv

\* The order that the script allows now is one more in the windows that have room.
LEMMA BudgetReserves ==
  ASSUME NEW t, NEW k, NEW l, NEW n, NEW o, NEW p, BudgetSound(t, k, l, n, o, p),
         k.last <= t, Budget!Retry(k, t) = 0, NEW k2, Stamped(k2, k, t),
         NEW entry \in AllowedOrders, entry.at = t, NEW o2, o2 = Append(o, entry)
  PROVE  BudgetSound(t, k2, l, n, o2, p)
<1>1. /\ t \in Int /\ t <= MaxTime /\ Sound(k) /\ Sound(l)
      /\ o \in Seq(AllowedOrders) /\ n \in Nat /\ n <= Len(o)
      /\ Budget!Covers(k, o, Len(o)) /\ Budget!Covers(l, o, n)
      /\ p \in Int /\ p <= k.cooldown /\ p <= l.cooldown
      /\ Budget!WithinLimits(o)
  BY Zenon DEF BudgetSound
<1>2. PICK m \in Nat : m = Len(o)
  BY <1>1
<1>3. PICK m2 \in Nat : m2 = m + 1
  OBVIOUS
<1>4. /\ o2 \in Seq(AllowedOrders) /\ Len(o2) = m2 /\ o2[m2] = entry
      /\ \A i \in 1..m : o2[i] = o[i]
  BY ONLY o2 = Append(o, entry), entry \in AllowedOrders, <1>1, <1>2, <1>3
<1>5. \A i \in 1..m2 : i \in 1..m \/ i = m2
  BY <1>3
<1>6. \A i \in 1..m : i \in 1..m2 /\ i <= m /\ i <= m2 /\ i # m2
  BY <1>3
<1>7. Sound(k2) /\ k2.last = t /\ k2.cooldown = k.cooldown
  BY Zenon DEF Stamped
<1>8. PICK long \in Int, last \in Int : long = Budget!Longest /\ last = k.last
  BY <1>1, LongestIs DEF Sound
<1>9. MaxTime \in Nat /\ last <= t
  <2>1. MaxTime \in Nat
    BY ServicesAssumption DEF Budget!BudgetAssumption
  <2>2. QED BY <1>8, <2>1, Zenon
<1>10. ASSUME NEW c \in Int
       PROVE  /\ CountedAfter(o2, c, m2) \subseteq CountedAfter(o, c, m) \cup {m2}
              /\ t <= c => CountedAfter(o2, c, m2) \subseteq CountedAfter(o, c, m)
              /\ CountedAfter(o2, c, n) \subseteq CountedAfter(o, c, n)
  <2>1. \A i : i \in CountedAfter(o2, c, m2)
                 <=> i \in 1..m2 /\ o2[i].kept /\ o2[i].at > c /\ i <= m2
    BY ONLY <1>4, CountedIs, Zenon
  <2>2. \A i : i \in CountedAfter(o, c, m)
                 <=> i \in 1..m /\ o[i].kept /\ o[i].at > c /\ i <= m
    BY <1>1, <1>2, CountedIs, Zenon
  <2>3. CountedAfter(o2, c, m2) \subseteq CountedAfter(o, c, m) \cup {m2}
    BY <1>4, <1>5, <1>6, <2>1, <2>2, Zenon
  <2>4. ASSUME t <= c PROVE m2 \notin CountedAfter(o2, c, m2)
    <3>1. ~(t > c)
      BY <1>1, <2>4
    <3>2. QED BY <1>4, <2>1, <3>1, Zenon
  <2>5. \A i : i \in CountedAfter(o2, c, n)
                 <=> i \in 1..m2 /\ o2[i].kept /\ o2[i].at > c /\ i <= n
    BY <1>4, CountedIs, Zenon
  <2>6. \A i : i \in CountedAfter(o, c, n)
                 <=> i \in 1..m /\ o[i].kept /\ o[i].at > c /\ i <= n
    BY <1>1, <1>2, CountedIs, Zenon
  <2>7. ~(m2 <= n)
    BY <1>1, <1>2, <1>3
  <2>8. CountedAfter(o2, c, n) \subseteq CountedAfter(o, c, n)
    BY <1>4, <1>5, <2>5, <2>6, <2>7, Zenon
  <2>9. QED BY <2>3, <2>4, <2>8
<1>11. Budget!Covers(l, o2, n)
  BY <1>1, <1>10, CoversFewer, Zenon
<1>12. ASSUME NEW c \in (t - long)..MaxTime
       PROVE  Budget!Cardinality(CountedAfter(o2, c, m2)) <= Later(k2.history, c)
  <2>1. c \in Int /\ c >= t - long /\ c \in (last - long)..MaxTime
    BY <1>1, <1>9, <1>12
  <2>2. Budget!Cardinality(CountedAfter(o, c, m)) <= Later(k.history, c)
    BY <1>1, <1>2, <1>8, <2>1, CoversIs, Zenon
  <2>3. Later(k2.history, c) = IF t <= c THEN Later(k.history, c) ELSE Later(k.history, c) + 1
    BY <1>8, <2>1, Zenon DEF Stamped
  <2>4. Later(k.history, c) \in Nat
    BY <1>1, <2>1, LaterIs, Zenon DEF Sound
  <2>5. CountedAfter(o, c, m) \subseteq 1..m
    BY <1>1, <1>2, CountedIs, Zenon
  <2>6. CASE t <= c
    <3>1. /\ Budget!Cardinality(CountedAfter(o2, c, m2)) \in Nat
          /\ Budget!Cardinality(CountedAfter(o, c, m)) \in Nat
          /\ Budget!Cardinality(CountedAfter(o2, c, m2)) <= Budget!Cardinality(CountedAfter(o, c, m))
      BY <1>10, <2>1, <2>5, <2>6, FewerOrders, Zenon
    <3>2. QED BY <2>2, <2>3, <2>4, <2>6, <3>1
  <2>7. CASE ~(t <= c)
    <3>1. /\ Budget!Cardinality(CountedAfter(o2, c, m2)) \in Nat
          /\ Budget!Cardinality(CountedAfter(o, c, m)) \in Nat
          /\ Budget!Cardinality(CountedAfter(o2, c, m2))
               <= Budget!Cardinality(CountedAfter(o, c, m)) + 1
      BY <1>10, <2>1, <2>5, OneOrderMore, Zenon
    <3>2. QED BY <2>2, <2>3, <2>4, <2>7, <3>1
  <2>8. QED BY <2>6, <2>7
<1>13. Budget!Covers(k2, o2, Len(o2))
  BY <1>4, <1>7, <1>8, <1>12, CoversIs, Zenon
<1>14. ASSUME NEW w \in Windows, NEW s \in 0..MaxTime
       PROVE  Budget!Cardinality(InWindow(o2, w, s)) <= w[2]
  <2>1. PICK span \in Nat \ {0}, limit \in Nat \ {0} : span = w[1] /\ limit = w[2]
    BY ServicesAssumption DEF Budget!BudgetAssumption
  <2>2. \A i : i \in InWindow(o2, w, s)
                 <=> i \in 1..m2 /\ o2[i].kept /\ o2[i].at > s - span /\ o2[i].at <= s
    BY <1>4, <2>1, CountedIs, Zenon
  <2>3. CASE ~(t <= s)
    <3>1. \A i : i \in InWindow(o, w, s)
                   <=> i \in 1..m /\ o[i].kept /\ o[i].at > s - span /\ o[i].at <= s
      BY <1>1, <1>2, <2>1, CountedIs, Zenon
    <3>2. InWindow(o2, w, s) \subseteq InWindow(o, w, s)
      BY <1>4, <1>5, <2>2, <2>3, <3>1, Zenon
    <3>3. InWindow(o, w, s) \subseteq 1..m
      BY <1>1, <1>2, CountedIs, Zenon
    <3>4. /\ Budget!Cardinality(InWindow(o2, w, s)) \in Nat
          /\ Budget!Cardinality(InWindow(o, w, s)) \in Nat
          /\ Budget!Cardinality(InWindow(o2, w, s)) <= Budget!Cardinality(InWindow(o, w, s))
      BY <3>2, <3>3, FewerOrders, Zenon
    <3>5. Budget!Cardinality(InWindow(o, w, s)) <= w[2]
      BY <1>1, <1>14, WithinIs, Zenon
    <3>6. QED BY <2>1, <3>4, <3>5
  <2>4. CASE t <= s
    <3>1. PICK c \in Int : c = t - span
      BY <1>1
    <3>2. c \in (last - long)..MaxTime /\ c <= s - span
      <4>1. span <= long
        BY <1>8, <2>1, LongestIs, Zenon
      <4>2. QED BY <1>1, <1>9, <2>4, <3>1, <4>1
    <3>3. \A i : i \in CountedAfter(o, c, m)
                   <=> i \in 1..m /\ o[i].kept /\ o[i].at > c /\ i <= m
      BY <1>1, <1>2, CountedIs, Zenon
    <3>4. \A i \in 1..m : o[i].at > s - span => o[i].at > c
      <4>1. ASSUME NEW i \in 1..m PROVE o[i].at \in Int
        <5>1. PICK e \in AllowedOrders : e = o[i]
          BY ONLY <1>1, <1>2, i \in 1..m
        <5>2. e.at \in Int
          BY DEF AllowedOrders
        <5>3. QED BY <5>1, <5>2, Zenon
      <4>2. PICK u \in Int : u = s - span /\ c <= u
        <5>1. s \in Int
          BY <1>9
        <5>2. s - span \in Int
          BY <5>1
        <5>3. QED BY <3>2, <5>2, Zenon
      <4>3. \A x \in Int : x > u => x > c
        BY <3>1, <4>2
      <4>4. QED BY <4>1, <4>2, <4>3, Zenon
    <3>5. InWindow(o2, w, s) \subseteq CountedAfter(o, c, m) \cup {m2}
      BY <1>4, <1>5, <1>6, <2>2, <3>3, <3>4, Zenon
    <3>6. CountedAfter(o, c, m) \subseteq 1..m
      BY <3>3, Zenon
    <3>7. /\ Budget!Cardinality(InWindow(o2, w, s)) \in Nat
          /\ Budget!Cardinality(CountedAfter(o, c, m)) \in Nat
          /\ Budget!Cardinality(InWindow(o2, w, s))
               <= Budget!Cardinality(CountedAfter(o, c, m)) + 1
      BY <3>5, <3>6, OneOrderMore, Zenon
    <3>8. Budget!Cardinality(CountedAfter(o, c, m)) <= Later(k.history, c)
      BY <1>1, <1>2, <1>8, <3>2, CoversIs, Zenon
    <3>9. Later(k.history, c) + 1 <= limit
      BY <1>1, <2>1, <3>1, HasRoom, Zenon
    <3>10. Later(k.history, c) \in Nat
      BY <1>1, LaterIs, Zenon DEF Sound
    <3>11. QED BY <2>1, <3>7, <3>8, <3>9, <3>10
  <2>5. QED BY <2>3, <2>4
<1>15. Budget!WithinLimits(o2)
  BY <1>14, WithinIs, Zenon
<1>16. n <= m2
  BY <1>1, <1>2, <1>3
<1>17. QED BY <1>1, <1>4, <1>7, <1>11, <1>13, <1>15, <1>16, Zenon DEF BudgetSound

\* A key that still has every stamp that counts may take the place of another.
LEMMA BudgetMoves ==
  ASSUME NEW t, NEW k, NEW l, NEW n, NEW o, NEW p, BudgetSound(t, k, l, n, o, p),
         NEW k2, Sound(k2), k.last <= k2.last, k2.cooldown >= k.cooldown,
         \A c \in Int : c >= k2.last - Budget!Longest
                          => Later(k2.history, c) >= Later(k.history, c)
  PROVE  BudgetSound(t, k2, l, n, o, p)
<1>1. Sound(k) /\ o \in Seq(AllowedOrders) /\ Budget!Covers(k, o, Len(o)) /\ p \in Int /\ p <= k.cooldown
  BY Zenon DEF BudgetSound
<1>2. Budget!Covers(k2, o, Len(o))
  <2>1. k.last \in Int /\ k2.last \in Int
    BY <1>1, Zenon DEF Sound
  <2>2. k2.last >= k.last
    BY <2>1
  <2>3. QED BY <1>1, <2>2, CoversLater, Zenon
<1>3. p <= k2.cooldown
  <2>1. k.cooldown \in Int /\ k2.cooldown \in Int
    BY <1>1, Zenon DEF Sound
  <2>2. QED BY <1>1, <2>1
<1>4. QED BY <1>2, <1>3, Zenon DEF BudgetSound

\* What the log takes up, it covers.
LEMMA BudgetLogs ==
  ASSUME NEW t, NEW k, NEW l, NEW n, NEW o, NEW p, BudgetSound(t, k, l, n, o, p)
  PROVE  BudgetSound(t, k, k, Len(o), o, p)
<1>1. o \in Seq(AllowedOrders)
  BY Zenon DEF BudgetSound
<1>2. Len(o) \in Nat /\ Len(o) <= Len(o)
  BY <1>1
<1>3. QED BY <1>2, Zenon DEF BudgetSound

\* A cooldown that both keys keep may be promised.
LEMMA BudgetPromises ==
  ASSUME NEW t, NEW k, NEW l, NEW n, NEW o, NEW p, BudgetSound(t, k, l, n, o, p),
         NEW until \in Int, until <= k.cooldown, until <= l.cooldown
  PROVE  BudgetSound(t, k, l, n, o, Budget!Max({p, until}))
<1>1. p \in Int /\ p <= k.cooldown /\ p <= l.cooldown
  BY Zenon DEF BudgetSound
<1>2. PICK x : x = Budget!Max({p, until})
  OBVIOUS
<1>3. x = IF p >= until THEN p ELSE until
  BY <1>1, <1>2, MaxOfTwo, Zenon
<1>4. x \in Int /\ x <= k.cooldown /\ x <= l.cooldown
  BY <1>1, <1>3
<1>5. QED BY <1>2, <1>4, Zenon DEF BudgetSound

\* What a crash makes the key forget, it need not count.
LEMMA BudgetForgets ==
  ASSUME NEW t, NEW k, NEW l, NEW n, NEW o, NEW p, BudgetSound(t, k, l, n, o, p),
         NEW o2, o2 = [i \in DOMAIN o |-> [o[i] EXCEPT !.kept = @ /\ i <= n]]
  PROVE  BudgetSound(t, l, l, n, o2, p)
<1>1. /\ Sound(l) /\ o \in Seq(AllowedOrders) /\ n \in Nat /\ n <= Len(o)
      /\ Budget!Covers(l, o, n) /\ Budget!WithinLimits(o)
  BY Zenon DEF BudgetSound
<1>2. PICK m \in Nat : m = Len(o) /\ DOMAIN o = 1..m
  BY <1>1
<1>3. ASSUME NEW i \in 1..m
      PROVE  /\ o2[i] \in AllowedOrders /\ o2[i].at = o[i].at
             /\ o2[i].kept => o[i].kept /\ i <= n
  <2>1. PICK e \in AllowedOrders : e = o[i]
    BY <1>1, <1>2
  <2>2. o2[i] = [e EXCEPT !.kept = e.kept /\ i <= n]
    BY <1>2, <2>1, Zenon
  <2>3. PICK x \in Int : x = e.at
    BY DEF AllowedOrders
  <2>4. PICK b \in BOOLEAN : b = (e.kept /\ i <= n)
    BY Zenon
  <2>5. o2[i] = [e EXCEPT !.kept = b]
    BY <2>2, <2>4, Zenon
  <2>6. DOMAIN e = {"at", "kept"} /\ e = [at |-> e.at, kept |-> e.kept]
    BY DEF AllowedOrders
  <2>7. o2[i] = [at |-> x, kept |-> b]
    BY <2>3, <2>5, <2>6
  <2>8. [at |-> x, kept |-> b] \in AllowedOrders
    BY Zenon DEF AllowedOrders
  <2>9. o2[i].at = e.at /\ o2[i].kept = b
    BY <2>3, <2>7
  <2>10. b => e.kept /\ i <= n
    BY <2>4, Zenon
  <2>11. o2[i].kept => o[i].kept /\ i <= n
    BY <2>1, <2>9, <2>10, Zenon
  <2>12. o2[i] \in AllowedOrders /\ o2[i].at = o[i].at
    BY <2>1, <2>7, <2>8, <2>9, Zenon
  <2>13. QED BY <2>11, <2>12
<1>4. o2 \in Seq(AllowedOrders) /\ Len(o2) = m
  <2>1. o2 \in [1..m -> AllowedOrders]
    <3>1. DOMAIN o2 = 1..m /\ o2 = [i \in 1..m |-> o2[i]]
      BY <1>2, Zenon
    <3>2. QED BY <1>3, <3>1
  <2>2. QED BY <2>1
<1>5. ASSUME NEW c \in Int
      PROVE  /\ CountedAfter(o2, c, m) \subseteq CountedAfter(o, c, n)
             /\ CountedAfter(o2, c, n) \subseteq CountedAfter(o, c, n)
  <2>1. \A i : i \in CountedAfter(o, c, n)
                 <=> i \in 1..m /\ o[i].kept /\ o[i].at > c /\ i <= n
    BY <1>1, <1>2, CountedIs, Zenon
  <2>2. \A i : i \in CountedAfter(o2, c, m)
                 <=> i \in 1..m /\ o2[i].kept /\ o2[i].at > c /\ i <= m
    BY <1>4, CountedIs, Zenon
  <2>3. \A i : i \in CountedAfter(o2, c, n)
                 <=> i \in 1..m /\ o2[i].kept /\ o2[i].at > c /\ i <= n
    BY <1>4, CountedIs, Zenon
  <2>4. CountedAfter(o2, c, m) \subseteq CountedAfter(o, c, n)
    BY <1>3, <2>1, <2>2, Zenon
  <2>5. CountedAfter(o2, c, n) \subseteq CountedAfter(o, c, n)
    BY <1>3, <2>1, <2>3, Zenon
  <2>6. QED BY <2>4, <2>5
<1>6. Budget!Covers(l, o2, Len(o2)) /\ Budget!Covers(l, o2, n)
  <2>1. Budget!Covers(l, o2, m)
    BY <1>1, <1>5, CoversFewer, Zenon
  <2>2. Budget!Covers(l, o2, n)
    BY <1>1, <1>5, CoversFewer, Zenon
  <2>3. QED BY <1>4, <2>1, <2>2, Zenon
<1>7. ASSUME NEW w \in Windows, NEW s \in 0..MaxTime
      PROVE  Budget!Cardinality(InWindow(o2, w, s)) <= w[2]
  <2>1. \A i : i \in InWindow(o, w, s)
                 <=> i \in 1..m /\ o[i].kept /\ o[i].at > s - w[1] /\ o[i].at <= s
    BY <1>1, <1>2, CountedIs, Zenon
  <2>2. \A i : i \in InWindow(o2, w, s)
                 <=> i \in 1..m /\ o2[i].kept /\ o2[i].at > s - w[1] /\ o2[i].at <= s
    BY <1>4, CountedIs, Zenon
  <2>3. InWindow(o2, w, s) \subseteq InWindow(o, w, s)
    BY <1>3, <2>1, <2>2, Zenon
  <2>4. InWindow(o, w, s) \subseteq 1..m
    BY <2>1, Zenon
  <2>5. /\ Budget!Cardinality(InWindow(o2, w, s)) \in Nat
        /\ Budget!Cardinality(InWindow(o, w, s)) \in Nat
        /\ Budget!Cardinality(InWindow(o2, w, s)) <= Budget!Cardinality(InWindow(o, w, s))
    BY <2>3, <2>4, FewerOrders, Zenon
  <2>6. Budget!Cardinality(InWindow(o, w, s)) <= w[2]
    BY <1>1, <1>7, WithinIs, Zenon
  <2>7. PICK limit \in Nat : limit = w[2]
    BY ServicesAssumption DEF Budget!BudgetAssumption
  <2>8. QED BY <2>5, <2>6, <2>7
<1>8. Budget!WithinLimits(o2)
  BY <1>7, WithinIs, Zenon
<1>9. n <= Len(o2)
  BY <1>1, <1>2, <1>4
<1>10. QED BY <1>4, <1>6, <1>8, <1>9, Zenon DEF BudgetSound

-----------------------------------------------------------------------------
\* The budget starts without a stamp, and nothing is promised.
LEMMA BudgetStarts == Init => BudgetIInv
<1>1. SUFFICES ASSUME Init PROVE BudgetIInv
  OBVIOUS
<1>2. PICK key : key = Budget!Fresh
  OBVIOUS
<1>3. PICK none : none = <<>>
  OBVIOUS
<1>4. now = 0 /\ store = key /\ logged = [key |-> key, counts |-> 0] /\ allowed = none /\ promised = 0
  BY <1>1, <1>2, <1>3, Zenon DEF Init, Budget!Init
<1>5. logged.key = key /\ logged.counts = 0
  BY <1>4
<1>6. DOMAIN none = {} /\ Len(none) = 0 /\ none \in Seq(Int) /\ none \in Seq(AllowedOrders)
  BY <1>3
<1>7. /\ DOMAIN key = {"history", "last", "cooldown"}
      /\ key.history = none /\ key.last = 0 /\ key.cooldown = 0
  BY <1>2, <1>3 DEF Budget!Fresh
<1>8. Rising(none) /\ \A i \in DOMAIN none : none[i] <= 0
  BY <1>6, Zenon DEF Rising
<1>9. Sound(key)
  <2>1. 0 \in Int
    OBVIOUS
  <2>2. QED BY <1>6, <1>7, <1>8, <2>1, Zenon DEF Sound, KeyFields
<1>10. Budget!Covers(key, none, 0)
  <2>1. SUFFICES ASSUME NEW c \in (key.last - Budget!Longest)..MaxTime
                 PROVE  Budget!Cardinality(CountedAfter(none, c, 0)) <= Later(key.history, c)
    BY CoversIs, Zenon
  <2>2. c \in Int
    <3>1. PICK long \in Int : long = Budget!Longest
      BY LongestIs
    <3>2. MaxTime \in Int
      BY ServicesAssumption DEF Budget!BudgetAssumption
    <3>3. c \in (0 - long)..MaxTime
      BY <1>7, <2>1, <3>1, Zenon
    <3>4. QED BY <3>1, <3>2, <3>3
  <2>3. CountedAfter(none, c, 0) = {}
    BY <1>6, Zenon DEF CountedAfter, Budget!KeptAfter
  <2>4. Budget!Cardinality({}) = 0
    <3>1. Budget!Cardinality({}) = Cardinality({})
      BY Zenon DEF Budget!Cardinality, Cardinality, Budget!IsFiniteSet, IsFiniteSet
    <3>2. QED BY <3>1, FS_EmptySet
  <2>5. PICK x \in Nat : x = Later(none, c)
    BY <1>6, <1>8, <2>2, LaterIs
  <2>6. QED BY <1>7, <2>3, <2>4, <2>5
<1>11. Budget!WithinLimits(none)
  <2>1. SUFFICES ASSUME NEW w \in Windows, NEW t \in 0..MaxTime
                 PROVE  Budget!Cardinality(InWindow(none, w, t)) <= w[2]
    BY WithinIs, Zenon
  <2>2. InWindow(none, w, t) = {}
    BY <1>6, Zenon DEF InWindow, Budget!KeptAfter
  <2>3. Budget!Cardinality({}) = 0
    <3>1. Budget!Cardinality({}) = Cardinality({})
      BY Zenon DEF Budget!Cardinality, Cardinality, Budget!IsFiniteSet, IsFiniteSet
    <3>2. QED BY <3>1, FS_EmptySet
  <2>4. PICK limit \in Nat : limit = w[2]
    BY ServicesAssumption DEF Budget!BudgetAssumption
  <2>5. QED BY <2>2, <2>3, <2>4
<1>12. 0 \in Int /\ 0 \in Nat /\ 0 <= 0 /\ 0 <= MaxTime
  BY ServicesAssumption DEF Budget!BudgetAssumption
<1>13. BudgetSound(0, key, key, 0, none, 0)
  BY <1>6, <1>7, <1>9, <1>10, <1>11, <1>12, Zenon DEF BudgetSound
<1>14. QED BY <1>4, <1>5, <1>13, Zenon DEF BudgetIInv

\* The clock alone, or nothing, moves.
LEMMA BudgetIdles ==
  ASSUME BudgetIInv, UNCHANGED <<store, logged, allowed, promised>>,
         now' \in Int, now' <= MaxTime
  PROVE  BudgetIInv'
BY Zenon DEF BudgetIInv, BudgetSound

\* An order that the script allows.
LEMMA BudgetReserveKeeps == BudgetIInv /\ Budget!Reserve => BudgetIInv'
<1>1. SUFFICES ASSUME BudgetIInv, Budget!Reserve PROVE BudgetIInv'
  OBVIOUS
<1>2. PICK t, k, l, n, o, p :
        /\ t = now /\ k = store /\ l = logged.key /\ n = logged.counts
        /\ o = allowed /\ p = promised
  OBVIOUS
<1>3. BudgetSound(t, k, l, n, o, p)
  BY <1>1, <1>2, Zenon DEF BudgetIInv
<1>4. Sound(k) /\ t \in Int /\ k.last \in Int
  BY <1>3, Zenon DEF BudgetSound, Sound
<1>5. PICK k2 :
        k2 = [k EXCEPT !.history = Append(Budget!Recent(@, Budget!Longest, t), t), !.last = t]
  OBVIOUS
<1>6. ~(t < k.last) /\ Budget!Retry(k, t) = 0 /\ store' = k2 /\ logged' = logged
  BY <1>1, <1>2, <1>5, Zenon DEF Budget!Reserve, Budget!Backwards, Budget!Unlogged, Budget!Counted
<1>7. k.last <= t
  BY <1>4, <1>6
<1>8. Stamped(k2, k, t)
  BY <1>4, <1>5, <1>7, CountedKey, Zenon
<1>9. now' = now /\ promised' = promised
  BY <1>1, Zenon DEF Budget!Reserve
<1>10. CASE allowed' = Append(allowed, [at |-> now, kept |-> TRUE])
  <2>1. PICK entry : entry = [at |-> t, kept |-> TRUE]
    OBVIOUS
  <2>2. entry \in AllowedOrders /\ entry.at = t
    BY <1>4, <2>1, Zenon DEF AllowedOrders
  <2>3. PICK o2 : o2 = Append(o, entry)
    OBVIOUS
  <2>4. BudgetSound(t, k2, l, n, o2, p)
    BY <1>3, <1>6, <1>7, <1>8, <2>2, <2>3, BudgetReserves, Zenon
  <2>5. allowed' = o2
    BY <1>2, <1>10, <2>1, <2>3, Zenon
  <2>6. QED BY <1>2, <1>6, <1>9, <2>4, <2>5, Zenon DEF BudgetIInv
<1>11. CASE allowed' = allowed
  <2>1. /\ Sound(k2) /\ k2.last = t /\ k2.cooldown = k.cooldown
        /\ \A c \in Int : c >= t - Budget!Longest =>
             Later(k2.history, c) = IF t <= c THEN Later(k.history, c) ELSE Later(k.history, c) + 1
    BY <1>8, Zenon DEF Stamped
  <2>2. \A c \in Int : c >= k2.last - Budget!Longest => Later(k2.history, c) >= Later(k.history, c)
    <3>1. \A c \in Int : Later(k.history, c) \in Nat
      BY <1>4, LaterIs, Zenon DEF Sound
    <3>2. \A x \in Nat : x >= x /\ x + 1 >= x
      OBVIOUS
    <3>3. QED BY <2>1, <3>1, <3>2, Zenon
  <2>3. k.last <= k2.last
    BY <1>7, <2>1, Zenon
  <2>4. k2.cooldown >= k.cooldown
    <3>1. PICK x \in Int : x = k.cooldown /\ x = k2.cooldown
      BY <1>4, <2>1 DEF Sound
    <3>2. x >= x
      OBVIOUS
    <3>3. QED BY <3>1, <3>2, Zenon
  <2>5. BudgetSound(t, k2, l, n, o, p)
    BY <1>3, <2>1, <2>2, <2>3, <2>4, BudgetMoves, Zenon
  <2>6. QED BY <1>2, <1>6, <1>9, <1>11, <2>5, Zenon DEF BudgetIInv
<1>12. QED BY <1>1, <1>10, <1>11, Zenon DEF Budget!Reserve

\* A cooldown, promised or not.
LEMMA BudgetCooldownKeeps == BudgetIInv /\ Budget!Cooldown => BudgetIInv'
<1>1. SUFFICES ASSUME BudgetIInv, Budget!Cooldown PROVE BudgetIInv'
  OBVIOUS
<1>2. PICK t, k, l, n, o, p :
        /\ t = now /\ k = store /\ l = logged.key /\ n = logged.counts
        /\ o = allowed /\ p = promised
  OBVIOUS
<1>3. BudgetSound(t, k, l, n, o, p)
  BY <1>1, <1>2, Zenon DEF BudgetIInv
<1>4. Sound(k) /\ t \in Int /\ k.last \in Int /\ k.cooldown \in Int
  BY <1>3, Zenon DEF BudgetSound, Sound
<1>5. PICK ms \in {0, CooldownHigh + 1} :
        \/ /\ Budget!InLog(Budget!CooledTo(now + Budget!Clamped(ms)))
           /\ promised' = Budget!Max({promised, now + Budget!Clamped(ms)})
        \/ /\ Budget!Unlogged(Budget!CooledTo(now + Budget!Clamped(ms)))
           /\ promised' = promised
  BY <1>1, Zenon DEF Budget!Cooldown
<1>6. PICK until \in Int : until = now + Budget!Clamped(ms)
  <2>1. CooldownHigh \in Int /\ CooldownLow \in Int
    BY ServicesAssumption DEF Budget!BudgetAssumption
  <2>2. ms \in Int
    BY <1>5, <2>1
  <2>3. PICK x \in Int : x = Budget!Min({CooldownHigh, ms})
    BY <2>1, <2>2, MinOfTwo
  <2>4. PICK y : y = Budget!Max({CooldownLow, x})
    OBVIOUS
  <2>5. y = IF CooldownLow >= x THEN CooldownLow ELSE x
    BY <2>1, <2>4, MaxOfTwo, Zenon
  <2>6. y \in Int
    BY <2>1, <2>5
  <2>7. Budget!Clamped(ms) = y
    BY <2>3, <2>4, Zenon DEF Budget!Clamped
  <2>8. t + y \in Int
    BY <1>4, <2>6
  <2>9. QED BY <1>2, <2>7, <2>8, Zenon
<1>7. PICK k2 :
        k2 = [k EXCEPT !.history = Budget!Recent(@, Budget!Longest, t), !.last = t,
                       !.cooldown = Budget!Max({@, until})]
  OBVIOUS
<1>8. Budget!CooledTo(until) = k2
  BY <1>2, <1>7, Zenon DEF Budget!CooledTo
<1>9. k.last <= t
  <2>1. ~(t < k.last)
    BY <1>1, <1>2, Zenon DEF Budget!Cooldown, Budget!Backwards
  <2>2. QED BY <1>4, <2>1
<1>10. CooledKey(k2, k, t, until)
  BY <1>4, <1>7, <1>9, CooledToIs, Zenon
<1>11. /\ Sound(k2) /\ k2.last = t /\ k2.cooldown >= k.cooldown /\ k2.cooldown >= until
       /\ \A c \in Int : c >= t - Budget!Longest => Later(k2.history, c) = Later(k.history, c)
  BY <1>10, Zenon DEF CooledKey
<1>12. BudgetSound(t, k2, l, n, o, p)
  <2>1. \A c \in Int : c >= k2.last - Budget!Longest => Later(k2.history, c) >= Later(k.history, c)
    <3>1. \A c \in Int : Later(k.history, c) \in Nat
      BY <1>4, LaterIs, Zenon DEF Sound
    <3>2. \A x \in Nat : x >= x
      OBVIOUS
    <3>3. QED BY <1>11, <3>1, <3>2, Zenon
  <2>2. k.last <= k2.last
    BY <1>9, <1>11, Zenon
  <2>3. QED BY <1>3, <1>11, <2>1, <2>2, BudgetMoves, Zenon
<1>13. now' = now /\ allowed' = allowed
  BY <1>1, Zenon DEF Budget!Cooldown
<1>14. CASE Budget!InLog(k2) /\ promised' = Budget!Max({promised, until})
  <2>1. PICK m : m = Len(o)
    OBVIOUS
  <2>2. store' = k2 /\ logged' = [key |-> k2, counts |-> m]
    BY <1>2, <1>14, <2>1, Zenon DEF Budget!InLog
  <2>3. logged'.key = k2 /\ logged'.counts = m
    BY <2>2
  <2>4. BudgetSound(t, k2, k2, m, o, p)
    BY <1>12, <2>1, BudgetLogs, Zenon
  <2>5. until <= k2.cooldown
    <3>1. k2.cooldown \in Int
      BY <1>11, Zenon DEF Sound
    <3>2. QED BY <1>11, <3>1
  <2>6. BudgetSound(t, k2, k2, m, o, Budget!Max({p, until}))
    BY <2>4, <2>5, BudgetPromises, Zenon
  <2>7. QED BY <1>2, <1>13, <1>14, <2>2, <2>3, <2>6, Zenon DEF BudgetIInv
<1>15. CASE Budget!Unlogged(k2) /\ promised' = promised
  <2>1. store' = k2 /\ logged' = logged
    BY <1>15, Zenon DEF Budget!Unlogged
  <2>2. QED BY <1>2, <1>12, <1>13, <1>15, <2>1, Zenon DEF BudgetIInv
<1>16. QED BY <1>5, <1>6, <1>8, <1>14, <1>15, Zenon

\* The log takes up the key.
LEMMA BudgetLogKeeps == BudgetIInv /\ Budget!Log => BudgetIInv'
<1>1. SUFFICES ASSUME BudgetIInv, Budget!Log PROVE BudgetIInv'
  OBVIOUS
<1>2. PICK m : m = Len(allowed)
  OBVIOUS
<1>3. /\ store' = store /\ logged' = [key |-> store, counts |-> m]
      /\ UNCHANGED <<now, allowed, promised>>
  BY <1>1, <1>2, Zenon DEF Budget!Log, Budget!InLog
<1>4. logged'.key = store /\ logged'.counts = m
  BY <1>3
<1>5. BudgetSound(now, store, store, m, allowed, promised)
  BY <1>1, <1>2, BudgetLogs, Zenon DEF BudgetIInv
<1>6. QED BY <1>3, <1>4, <1>5, Zenon DEF BudgetIInv

\* Redis comes back with its log.
LEMMA BudgetCrashKeeps == BudgetIInv /\ Budget!Crash => BudgetIInv'
<1>1. SUFFICES ASSUME BudgetIInv, Budget!Crash PROVE BudgetIInv'
  OBVIOUS
<1>2. PICK o2 : o2 = [i \in DOMAIN allowed |->
                       [allowed[i] EXCEPT !.kept = @ /\ i <= logged.counts]]
  OBVIOUS
<1>3. store' = logged.key /\ allowed' = o2 /\ UNCHANGED <<now, logged, promised>>
  BY <1>1, <1>2, Zenon DEF Budget!Crash
<1>4. BudgetSound(now, logged.key, logged.key, logged.counts, o2, promised)
  <2>1. PICK o, n : o = allowed /\ n = logged.counts
    OBVIOUS
  <2>2. BudgetSound(now, store, logged.key, n, o, promised)
    BY <1>1, <2>1, Zenon DEF BudgetIInv
  <2>3. o2 = [i \in DOMAIN o |-> [o[i] EXCEPT !.kept = @ /\ i <= n]]
    BY <1>2, <2>1, Zenon
  <2>4. BudgetSound(now, logged.key, logged.key, n, o2, promised)
    BY <2>2, <2>3, BudgetForgets, Zenon
  <2>5. QED BY <2>1, <2>4, Zenon
<1>5. QED BY <1>3, <1>4, Zenon DEF BudgetIInv

\* Every step keeps the invariant.
LEMMA BudgetSteps == BudgetIInv /\ [Next]_vars => BudgetIInv'
<1>1. SUFFICES ASSUME BudgetIInv, [Next]_vars PROVE BudgetIInv'
  OBVIOUS
<1>2. now \in Int /\ now <= MaxTime
  BY <1>1, Zenon DEF BudgetIInv, BudgetSound
<1>3. MaxTime \in Nat
  BY ServicesAssumption DEF Budget!BudgetAssumption
<1>4. CASE ~BudgetStep
  <2>1. UNCHANGED budgetVars
    BY <1>1, <1>4, Zenon DEF Next, DashStep, AccountStep, SatsStep, StopStep, vars
  <2>2. UNCHANGED <<store, logged, allowed, promised>> /\ now' = now
    BY <2>1, Zenon DEF budgetVars
  <2>3. QED BY <1>1, <1>2, <2>2, BudgetIdles, Zenon
<1>5. CASE BudgetStep
  <2>1. Budget!Next
    BY <1>5, Zenon DEF BudgetStep
  <2>2. CASE Budget!Tick
    <3>1. UNCHANGED <<store, logged, allowed, promised>> /\ now' = now + 1 /\ now < MaxTime
      BY <2>2, Zenon DEF Budget!Tick
    <3>2. now' \in Int /\ now' <= MaxTime
      BY <1>2, <1>3, <3>1
    <3>3. QED BY <1>1, <3>1, <3>2, BudgetIdles, Zenon
  <2>3. CASE Budget!ClockSetBack
    <3>1. UNCHANGED <<store, logged, allowed, promised>>
      BY <2>3, Zenon DEF Budget!ClockSetBack
    <3>2. now' \in 0..now
      BY <2>3, Zenon DEF Budget!ClockSetBack
    <3>3. now' \in Int /\ now' <= MaxTime
      BY <1>2, <1>3, <3>2
    <3>4. QED BY <1>1, <3>1, <3>3, BudgetIdles, Zenon
  <2>4. QED BY <1>1, <2>1, <2>2, <2>3, BudgetReserveKeeps, BudgetCooldownKeeps, BudgetLogKeeps,
               BudgetCrashKeeps, Zenon DEF Budget!Next
<1>6. QED BY <1>4, <1>5

\* What the invariant says of the orders and of a deferral.
LEMMA BudgetShows == BudgetIInv => BudgetHolds
<1>1. SUFFICES ASSUME BudgetIInv PROVE BudgetHolds
  OBVIOUS
<1>2. /\ Budget!WithinLimits(allowed)
      /\ promised <= store.cooldown /\ promised <= logged.key.cooldown
  BY <1>1, BudgetStrengthens, Zenon DEF Budget!BudgetInv
<1>3. now \in Int /\ store.history \in Seq(Int) /\ Rising(store.history) /\ store.cooldown \in Int
  BY <1>1, Zenon DEF BudgetIInv, BudgetSound, Sound
<1>4. Budget!Retry(store, now) > 0
        => /\ Budget!Retry(store, now + Budget!Retry(store, now)) = 0
           /\ \A d \in 0..(Budget!Retry(store, now) - 1) : Budget!Retry(store, now + d) > 0
  BY <1>3, DeferralEnds, Zenon
<1>5. QED BY <1>2, <1>4, Zenon DEF BudgetHolds, Budget!BudgetHolds

\* The script keeps the limits of an account in every window, its cooldowns to their
\* end and its word on when a deferral ends, through crashes of Redis, lost answers
\* and a clock set back (reserve.lua, store.rs).
THEOREM BudgetHoldsHolds == Spec => []BudgetHolds
<1>1. QED BY BudgetStarts, BudgetSteps, BudgetShows, PTL DEF Spec

-----------------------------------------------------------------------------
(* The charges of an order *)

\* The part of a trade.
LEMMA PartIs ==
  ASSUME NEW worth \in Seq(Nat \ {0}), NEW k \in 1..Len(worth)
  PROVE  /\ Total(worth) \in Nat /\ worth[k] \in 1..Total(worth)
         /\ Account!Part(worth, k) \in 0..Digits
         /\ 2 * Total(worth) * Account!Part(worth, k) <= 2 * Digits * worth[k] + Total(worth)
<1>1. PICK D \in Nat \ {0} : D = Digits
  BY ServicesAssumption DEF Account!AccountAssumption
<1>2. worth \in Seq(Nat) /\ worth \in Seq(Int) /\ worth[k] \in Nat \ {0}
  OBVIOUS
<1>3. PICK W \in Nat : W = Total(worth)
  BY <1>2, TotalType
<1>4. PICK w \in Nat \ {0} : w = worth[k]
  BY <1>2
<1>5. w <= W
  BY <1>2, <1>3, <1>4, TotalHas
<1>6. Account!Part(worth, k) = (2 * w * D + W) \div (2 * W)
  <2>1. Account!Total(worth) = Total(worth)
    BY Zenon DEF Account!Total, Total
  <2>2. QED BY <1>1, <1>3, <1>4, <2>1, Zenon DEF Account!Part
<1>7. PICK q : q = (2 * w * D + W) \div (2 * W)
  BY Zenon
<1>8. PICK a \in Nat, b \in Nat \ {0} : a = 2 * w * D + W /\ b = 2 * W
  <2>1. 2 * w * D + W \in Nat /\ 2 * W \in Nat \ {0}
    BY <1>5
  <2>2. QED BY <2>1, Zenon
<1>9. q \in Int /\ b * q <= a /\ a < b * q + b
  <2>1. q = a \div b
    BY <1>7, <1>8, Zenon
  <2>2. a \div b \in Int /\ b * (a \div b) <= a /\ a < b * (a \div b) + b
    <3>1. a \in Int
      OBVIOUS
    <3>2. QED BY <3>1, QuotientIs, Zenon
  <2>3. QED BY <2>1, <2>2, Zenon
<1>10. b * (q + 1) = b * q + b /\ b * q \in Int /\ b * 0 = 0 /\ b * (D + 1) = b * D + b
  BY <1>9
<1>11. q >= 0
  <2>1. b * 0 < b * (q + 1)
    BY <1>8, <1>9, <1>10
  <2>2. 0 < q + 1
    BY <1>9, <2>1, Products
  <2>3. QED BY <1>9, <2>2
<1>12. D * w <= D * W
  BY <1>5, Products
<1>13. a = 2 * (D * w) + W /\ b * D = 2 * (D * W) /\ 2 * D * w = 2 * (D * w)
  BY <1>8
<1>14. q <= D
  <2>1. D * w \in Int /\ D * W \in Int
    OBVIOUS
  <2>2. b * q < b * (D + 1)
    BY <1>5, <1>8, <1>9, <1>10, <1>12, <1>13, <2>1
  <2>3. q < D + 1
    BY <1>9, <2>2, Products
  <2>4. QED BY <1>9, <2>3
<1>15. 2 * W * q <= 2 * D * w + W
  BY <1>8, <1>9, <1>13
<1>16. w \in 1..W /\ q \in 0..D
  BY <1>5, <1>9, <1>11, <1>14
<1>17. QED BY <1>1, <1>3, <1>4, <1>6, <1>7, <1>15, <1>16, Zenon

\* The amounts of all trades but the last are not more than the charges.
LEMMA SharesFit ==
  ASSUME NEW total \in Nat, NEW n \in 1..MaxLots, NEW worth \in [1..n -> Prices], NEW k \in 1..n
  PROVE  Account!Share(total, worth, k) \in 0..total
<1>1. PICK D \in Nat \ {0} : D = Digits
  BY ServicesAssumption DEF Account!AccountAssumption
<1>2. MaxLots \in Nat /\ Prices \subseteq Nat \ {0} /\ \A price \in Prices : MaxLots * MaxLots * price <= D
  BY <1>1, ServicesAssumption DEF Account!AccountAssumption
<1>3. worth \in Seq(Nat \ {0}) /\ worth \in Seq(Int) /\ Len(worth) = n /\ n \in Nat \ {0}
  <2>1. n \in Nat \ {0} /\ \A j \in 1..n : worth[j] \in Nat \ {0}
    <3>1. n \in Nat \ {0}
      BY <1>2
    <3>2. \A j \in 1..n : worth[j] \in Prices
      OBVIOUS
    <3>3. QED BY <1>2, <3>1, <3>2, Zenon
  <2>2. worth \in [1..n -> Nat \ {0}] /\ worth \in [1..n -> Int]
    <3>1. worth = [j \in 1..n |-> worth[j]]
      OBVIOUS
    <3>2. \A j \in 1..n : worth[j] \in Int
      BY <2>1
    <3>3. QED BY <2>1, <3>1, <3>2, Zenon
  <2>3. QED BY <2>1, <2>2
<1>4. PICK W \in Nat : W = Total(worth)
  BY <1>3, PartIs
<1>5. PICK q : q = [j \in 1..n |-> Account!Part(worth, j)]
  OBVIOUS
<1>6. \A j \in 1..n : /\ q[j] = Account!Part(worth, j) /\ q[j] \in 0..D
                      /\ worth[j] \in 1..W
                      /\ 2 * W * q[j] <= 2 * D * worth[j] + W
  BY <1>1, <1>3, <1>4, <1>5, PartIs
<1>7. PICK r : r = [j \in 1..n |-> (total * q[j]) \div D]
  OBVIOUS
<1>8. ASSUME NEW j \in 1..n PROVE r[j] \in 0..total /\ D * r[j] <= total * q[j]
  <2>1. PICK p \in Nat : p = q[j] /\ p <= D
    <3>1. q[j] \in 0..D
      BY <1>6
    <3>2. q[j] \in Nat /\ q[j] <= D
      BY <3>1
    <3>3. QED BY <3>2, Zenon
  <2>2. PICK a \in Nat : a = total * p
    OBVIOUS
  <2>3. PICK x : x = a \div D
    OBVIOUS
  <2>4. r[j] = x
    BY <1>7, <2>1, <2>2, <2>3
  <2>5. x \in Int /\ D * x <= a /\ a < D * x + D
    BY <2>3, QuotientIs
  <2>6. D * (x + 1) = D * x + D /\ D * 0 = 0 /\ D * x \in Int /\ D * (total + 1) = D * total + D
    BY <2>5
  <2>7. x >= 0
    <3>1. D * 0 < D * (x + 1)
      BY <2>5, <2>6
    <3>2. 0 < x + 1
      BY <2>5, <3>1, Products
    <3>3. QED BY <2>5, <3>2
  <2>8. a <= D * total
    <3>1. total * p <= total * D
      BY <2>1, Products
    <3>2. QED BY <2>2, <3>1
  <2>9. x <= total
    <3>1. D * total \in Int
      OBVIOUS
    <3>2. D * x < D * (total + 1)
      BY <2>5, <2>6, <2>8, <3>1
    <3>3. x < total + 1
      BY <2>5, <3>2, Products
    <3>4. QED BY <2>5, <3>3
  <2>10. QED BY <2>1, <2>2, <2>4, <2>5, <2>7, <2>9
<1>9. \A j \in 1..n : (total * Account!Part(worth, j)) \div Digits = r[j]
  BY <1>1, <1>6, <1>7
<1>10. CASE k < n
  <2>1. Account!Share(total, worth, k) = (total * Account!Part(worth, k)) \div Digits
    BY <1>3, <1>10, Zenon DEF Account!Share
  <2>2. QED BY <1>8, <1>9, <2>1
<1>11. CASE k = n
  <2>1. PICK m \in Nat : m = n - 1
    BY <1>3
  <2>2. PICK front, parts, amounts : /\ front = [j \in 1..m |-> worth[j]] /\ parts = [j \in 1..m |-> q[j]]
                                     /\ amounts = [j \in 1..m |-> r[j]]
    OBVIOUS
  <2>3. Account!Share(total, worth, k) = total - Total(amounts)
    <3>1. Account!Share(total, worth, k)
            = total - Account!Total([j \in 1..(Len(worth) - 1) |-> (total * Account!Part(worth, j)) \div Digits])
      <4>1. ~(k < Len(worth))
        BY <1>3, <1>11
      <4>2. QED BY <4>1, Zenon DEF Account!Share
    <3>2. [j \in 1..(Len(worth) - 1) |-> (total * Account!Part(worth, j)) \div Digits] = amounts
      <4>1. 1..(Len(worth) - 1) = 1..m /\ \A j \in 1..m : j \in 1..n
        BY <1>3, <2>1
      <4>2. \A j \in 1..m : (total * Account!Part(worth, j)) \div Digits = r[j]
        BY <1>9, <4>1
      <4>3. QED BY <2>2, <4>1, <4>2, Zenon
    <3>3. \A v : Account!Total(v) = Total(v)
      BY Zenon DEF Account!Total, Total
    <3>4. QED BY <3>1, <3>2, <3>3, Zenon
  <2>4. /\ front \in Seq(Int) /\ parts \in Seq(Nat) /\ parts \in Seq(Int)
        /\ amounts \in Seq(Nat) /\ amounts \in Seq(Int)
        /\ Len(front) = m /\ Len(parts) = m /\ Len(amounts) = m
        /\ \A j \in 1..m : j \in 1..n /\ front[j] = worth[j] /\ parts[j] = q[j] /\ amounts[j] = r[j]
    <3>1. \A j \in 1..m : j \in 1..n
      BY <2>1
    <3>2. \A j \in 1..m : worth[j] \in Int /\ q[j] \in Nat /\ r[j] \in Nat
      <4>1. SUFFICES ASSUME NEW j \in 1..n PROVE worth[j] \in Int /\ q[j] \in Nat /\ r[j] \in Nat
        BY <3>1
      <4>2. q[j] \in 0..D /\ worth[j] \in 1..W /\ r[j] \in 0..total
        BY <1>6, <1>8
      <4>3. QED BY <4>2
    <3>3. QED BY <2>2, <3>1, <3>2
  <2>5. PICK F \in Int, Q \in Nat, R \in Nat : F = Total(front) /\ Q = Total(parts) /\ R = Total(amounts)
    BY <2>4, TotalType
  <2>6. PICK w \in Nat \ {0} : w = worth[n] /\ W = F + w
    <3>1. worth[n] \in Nat \ {0}
      BY <1>3
    <3>2. worth = Append(front, worth[n])
      <4>1. Len(Append(front, worth[n])) = n
        BY <2>1, <2>4, <3>1
      <4>2. \A j \in 1..n : Append(front, worth[n])[j] = worth[j]
        BY <2>1, <2>4, <3>1
      <4>3. Append(front, worth[n]) = [j \in 1..n |-> Append(front, worth[n])[j]]
        BY <2>4, <3>1, <4>1
      <4>4. worth = [j \in 1..n |-> worth[j]]
        OBVIOUS
      <4>5. QED BY <4>2, <4>3, <4>4
    <3>3. Total(worth) = Total(front) + worth[n]
      <4>1. worth[n] \in Int
        BY <3>1
      <4>2. Total(Append(front, worth[n])) = Total(front) + worth[n]
        BY <2>4, <4>1, TotalAppend, Zenon
      <4>3. QED BY <3>2, <4>2, Zenon
    <3>4. QED BY <1>4, <2>5, <3>1, <3>3
  <2>7. (2 * W) * Q <= (2 * D) * F + W * m
    <3>1. \A j \in 1..Len(parts) : (2 * W) * parts[j] <= (2 * D) * front[j] + W
      BY <1>6, <2>4
    <3>2. 2 * W \in Int /\ 2 * D \in Int /\ W \in Int
      OBVIOUS
    <3>3. (2 * W) * Total(parts) <= (2 * D) * Total(front) + W * Len(parts)
      BY <2>4, <3>1, <3>2, TotalScaled
    <3>4. QED BY <2>4, <2>5, <3>3
  <2>8. D * R <= total * Q
    <3>1. \A j \in 1..Len(amounts) : D * amounts[j] <= total * parts[j] + 0
      <4>1. ASSUME NEW j \in 1..Len(amounts) PROVE D * amounts[j] <= total * parts[j] + 0
        <5>1. j \in 1..n /\ amounts[j] = r[j] /\ parts[j] = q[j]
          BY <2>4
        <5>2. D * r[j] <= total * q[j] /\ q[j] \in Int
          BY <1>6, <1>8, <5>1
        <5>3. QED BY <5>1, <5>2
      <4>2. QED BY <4>1
    <3>2. D \in Int /\ total \in Int /\ 0 \in Int /\ Len(parts) = Len(amounts)
      BY <2>4
    <3>3. D * Total(amounts) <= total * Total(parts) + 0 * Len(amounts)
      BY <2>4, <3>1, <3>2, TotalScaled
    <3>4. QED BY <2>4, <2>5, <3>3
  <2>9. W * n <= D
    <3>1. PICK top \in 1..n : \A j \in 1..n : worth[j] <= worth[top]
      <4>1. IsFiniteSet(1..n) /\ 1..n # {}
        <5>1. n \in Int /\ 1 \in Int /\ 1 \in 1..n
          BY <1>3
        <5>2. QED BY <5>1, FS_Interval
      <4>2. worth \in [1..n -> Int]
        BY <1>3
      <4>3. QED BY <4>1, <4>2, MaxOver
    <3>2. PICK p \in Nat : p = worth[top] /\ p \in Prices
      BY <1>2
    <3>3. W <= p * n
      <4>1. \A j \in 1..Len(worth) : 1 * worth[j] <= 0 * worth[j] + p
        BY <1>3, <3>1, <3>2
      <4>2. 1 \in Int /\ 0 \in Int /\ p \in Int /\ Len(worth) = Len(worth)
        OBVIOUS
      <4>3. 1 * Total(worth) <= 0 * Total(worth) + p * Len(worth)
        BY <1>3, <4>1, <4>2, TotalScaled, Zenon
      <4>4. QED BY <1>3, <1>4, <4>3
    <3>4. PICK M \in Nat : M = MaxLots /\ n <= M
      BY <1>2
    <3>5. M * M * p <= D
      BY <1>2, <3>2, <3>4
    <3>6. n * W <= n * (p * n)
      <4>1. p * n \in Int
        BY <1>3
      <4>2. QED BY <1>3, <3>3, <4>1, Products
    <3>7. (p * n) * n <= (p * n) * M
      <4>1. p * n \in Nat
        BY <1>3
      <4>2. QED BY <1>3, <3>4, <4>1, Products
    <3>8. (p * M) * n <= (p * M) * M
      <4>1. p * M \in Nat
        BY <1>3
      <4>2. QED BY <1>3, <3>4, <4>1, Products
    <3>9. n * (p * n) = (p * n) * n /\ (p * n) * M = (p * M) * n /\ (p * M) * M = M * M * p /\ n * W = W * n
      BY <1>3
    <3>10. PICK a, b, c, d, e : /\ a = n * W /\ b = (p * n) * n /\ c = (p * n) * M /\ d = (p * M) * M /\ e = W * n
      OBVIOUS
    <3>11. a \in Int /\ b \in Int /\ c \in Int /\ d \in Int /\ e \in Int
      BY <1>3, <3>10
    <3>12. a <= b /\ b <= c /\ c <= d /\ d <= D /\ a = e
      BY <3>5, <3>6, <3>7, <3>8, <3>9, <3>10
    <3>13. e <= D
      BY ONLY <3>11, <3>12, D \in Nat
    <3>14. QED BY <3>10, <3>13
  <2>10. W * m <= 2 * (D * w)
    <3>1. D * 1 <= D * w
      BY <2>6, Products
    <3>2. W * n = W * m + W /\ W * m \in Int /\ D * w \in Int
      BY <2>1
    <3>3. QED BY <2>9, <3>1, <3>2
  <2>11. Q <= D
    <3>1. (2 * D) * F + 2 * (D * w) = (2 * W) * D
      BY <2>6
    <3>2. PICK a \in Int, b \in Int, c \in Int, d \in Int, e \in Int :
            a = (2 * W) * Q /\ b = (2 * D) * F /\ c = W * m /\ d = 2 * (D * w) /\ e = (2 * W) * D
      <4>1. (2 * W) * Q \in Int /\ (2 * D) * F \in Int /\ W * m \in Int
            /\ 2 * (D * w) \in Int /\ (2 * W) * D \in Int
        OBVIOUS
      <4>2. QED BY ONLY <4>1, Zenon
    <3>3. a <= e
      BY <2>7, <2>10, <3>1, <3>2
    <3>4. (2 * W) * (D + 1) = e + 2 * W
      BY <3>2
    <3>5. W >= 1
      BY <1>3, <1>6
    <3>6. (2 * W) * Q < (2 * W) * (D + 1)
      BY <3>2, <3>3, <3>4, <3>5
    <3>7. 2 * W \in Nat
      OBVIOUS
    <3>8. Q < D + 1
      BY <3>6, <3>7, Products
    <3>9. QED BY <3>8
  <2>12. R <= total
    <3>1. total * Q <= total * D
      BY <2>11, Products
    <3>2. PICK a \in Int, b \in Int, c \in Int : a = D * R /\ b = total * Q /\ c = D * total
      OBVIOUS
    <3>3. total * D = c /\ D * (total + 1) = c + D
      BY <3>2
    <3>4. D * R < D * (total + 1)
      BY <2>8, <3>1, <3>2, <3>3
    <3>5. R < total + 1
      BY <3>4, Products
    <3>6. QED BY <3>5
  <2>13. QED BY <2>3, <2>5, <2>12
<1>12. QED BY <1>10, <1>11
-----------------------------------------------------------------------------
(* The account and what is read of it *)

Statuses == {"OPEN PENDING", "OPEN", "TRIGGER PENDING", "COMPLETE", "CANCELLED", "REJECTED"}
Rows == [side : {-1, 1}, lots : 1..MaxLots, filled : 0..MaxLots, trigger : 0..2, status : Statuses]

\* A row of the order book: what its status says of its fills and its trigger.
RowIs(o) ==
  /\ o \in Rows /\ o.filled <= o.lots
  /\ o.filled > 0 => o.status \in {"OPEN", "COMPLETE", "CANCELLED"}
  /\ o.status = "OPEN" => o.filled < o.lots
  /\ o.status = "COMPLETE" => o.filled = o.lots
  /\ o.status = "TRIGGER PENDING" => o.trigger # 0

SidesOf(os, ts) == [k \in DOMAIN ts |-> os[ts[k]].side]

\* Books that add up: the trades are those that the rows count and make up the position.
Books(os, ts, n) ==
  /\ os \in Seq(Rows) /\ \A i \in DOMAIN os : RowIs(os[i])
  /\ ts \in Seq(DOMAIN os)
  /\ \A i \in DOMAIN os : Cardinality(PlacesOf(ts, i)) = os[i].filled
  /\ n = Total(SidesOf(os, ts))

\* The order book since it was as in `first`, and whether nothing traded since then.
GrownFrom(first, os) ==
  /\ first \in Seq(Rows) /\ Len(first) <= Len(os)
  /\ \A i \in DOMAIN first : RowIs(first[i]) /\ first[i].filled <= os[i].filled
Still(first, os) ==
  Len(first) = Len(os) /\ \A i \in DOMAIN first : first[i].filled = os[i].filled

\* Kite's books are behind the account, never ahead of it.
Books3 == [orders : Seq(Rows), trades : Nat, position : Nat]
ShownIs(b, os, ts) ==
  /\ b \in Books3 /\ GrownFrom(b.orders, os)
  /\ b.trades <= Len(ts) /\ b.position <= b.trades

\* What a read in progress has of the books: if they had caught up when it began and
\* nothing was traded since then, they still have, and its trades and its position are
\* those of the account.
ReadIs(r, os, ts, n, k, m) ==
  /\ r.at \in {"trades", "positions", "again"} =>
       GrownFrom(r.first, os) /\ (r.settled /\ Still(r.first, os) => k = Len(ts) /\ m = Len(ts))
  /\ r.at \in {"positions", "again"} => (r.settled /\ Still(r.first, os) => r.trades = ts)
  /\ r.at = "again" => (r.settled /\ Still(r.first, os) => r.net = n)

\* The rows of an accepted snapshot; and if the books had caught up, it is the account.
ViewIs(v, os, ts, n) ==
  /\ v.orders \in Seq(Rows) /\ \A i \in DOMAIN v.orders : RowIs(v.orders[i])
  /\ v.settled => v.orders = os /\ v.trades = ts /\ v.net = n

AccountInv ==
  /\ broker \in {"kite", "paper"}
  /\ Books(orders, trades, net)
  /\ broker = "paper" => \A i \in DOMAIN orders : orders[i].status = "OPEN" => orders[i].filled = 0
  /\ broker = "kite" => ShownIs(shown, orders, trades)
  /\ broker = "kite" /\ read # Account!NoRead =>
       ReadIs(read, orders, trades, net, shown.trades, shown.position)
  /\ view.taken => ViewIs(view, orders, trades, net)

LEMMA RowFields ==
  ASSUME NEW o, RowIs(o)
  PROVE  o \in Rows /\ o.side \in Int /\ o.filled \in Int /\ o.filled >= 0 /\ o.lots \in Nat \ {0}
<1>1. o \in Rows
  BY Zenon DEF RowIs
<1>2. o.side \in {-1, 1} /\ o.filled \in 0..MaxLots /\ o.lots \in 1..MaxLots
  BY <1>1 DEF Rows
<1>3. QED BY <1>1, <1>2

\* The position is a number.
LEMMA BooksPosition ==
  ASSUME NEW os, NEW ts, NEW n, Books(os, ts, n)
  PROVE  n \in Int
<1>1. /\ ts \in Seq(DOMAIN os) /\ os \in Seq(Rows) /\ n = Total(SidesOf(os, ts))
      /\ \A j \in DOMAIN os : RowIs(os[j])
  BY Zenon DEF Books
<1>2. \A j \in DOMAIN os : os[j].side \in Int
  BY <1>1, RowFields, Zenon
<1>3. PICK v : v = SidesOf(os, ts)
  OBVIOUS
<1>4. v \in Seq(Int)
  <2>1. v = [k \in 1..Len(ts) |-> os[ts[k]].side]
    BY <1>1, <1>3 DEF SidesOf
  <2>2. \A k \in 1..Len(ts) : ts[k] \in DOMAIN os
    BY <1>1
  <2>3. \A k \in 1..Len(ts) : os[ts[k]].side \in Int
    BY <1>2, <2>2
  <2>4. Len(ts) \in Nat
    BY <1>1
  <2>5. QED BY <2>1, <2>3, <2>4
<1>5. QED BY <1>1, <1>3, <1>4, TotalType

\* An order of which m lots are traded, perhaps none.
LEMMA BooksTraded ==
  ASSUME NEW os, NEW ts, NEW n, Books(os, ts, n), NEW i \in DOMAIN os, NEW m \in Nat,
         NEW o, RowIs(o), o.side = os[i].side, o.filled = os[i].filled + m,
         NEW t \in Seq(DOMAIN os), Len(t) = Len(ts) + m,
         \A k \in 1..Len(ts) : t[k] = ts[k], \A k \in 1..m : t[Len(ts) + k] = i
  PROVE  Books([os EXCEPT ![i] = o], t, n + os[i].side * m)
<1>1. /\ os \in Seq(Rows) /\ (\A j \in DOMAIN os : RowIs(os[j])) /\ ts \in Seq(DOMAIN os)
      /\ (\A j \in DOMAIN os : Cardinality(PlacesOf(ts, j)) = os[j].filled)
      /\ n = Total(SidesOf(os, ts))
  BY Zenon DEF Books
<1>2. PICK len \in Nat, k \in Nat : len = Len(os) /\ k = Len(ts)
  BY <1>1
<1>3. DOMAIN os = 1..len /\ DOMAIN ts = 1..k /\ DOMAIN t = 1..(k + m)
  BY <1>1, <1>2
<1>4. PICK os2 : os2 = [os EXCEPT ![i] = o]
  OBVIOUS
<1>5. o \in Rows /\ \A j \in DOMAIN os : os[j] \in Rows
  BY <1>1, Zenon DEF RowIs
<1>6. /\ os2 \in Seq(Rows) /\ DOMAIN os2 = DOMAIN os
      /\ \A j \in DOMAIN os : os2[j] = IF j = i THEN o ELSE os[j]
  BY <1>1, <1>2, <1>3, <1>4, <1>5
<1>7. \A j \in DOMAIN os2 : RowIs(os2[j])
  BY <1>1, <1>6, Zenon
<1>8. ASSUME NEW j \in DOMAIN os2 PROVE Cardinality(PlacesOf(t, j)) = os2[j].filled
  <2>1. /\ Cardinality(PlacesOf(t, i)) = Cardinality(PlacesOf(ts, i)) + m
        /\ j # i => Cardinality(PlacesOf(t, j)) = Cardinality(PlacesOf(ts, j))
    <3>1. (\A q \in 1..k : t[q] = ts[q]) /\ \A q \in 1..m : t[k + q] = i
      BY <1>2
    <3>2. k \in Nat /\ m \in Nat /\ DOMAIN ts = 1..k /\ DOMAIN t = 1..(k + m)
      BY <1>3
    <3>3. IsMore(t, ts, k, m, i)
      BY ONLY <3>1, <3>2, Zenon DEF IsMore
    <3>4. QED BY ONLY <3>3, TimesMore
  <2>2. Cardinality(PlacesOf(ts, j)) = os[j].filled /\ os[j].filled \in Int
    BY <1>1, <1>5, <1>6 DEF Rows
  <2>3. CASE i = j
    <3>1. os2[j] = o
      BY <1>6, <2>3
    <3>2. QED BY <2>1, <2>2, <2>3, <3>1
  <2>4. CASE i # j
    <3>1. os2[j] = os[j]
      BY <1>6, <2>4
    <3>2. QED BY <2>1, <2>2, <2>4, <3>1
  <2>5. QED BY <2>3, <2>4
<1>9. PICK side \in Int : side = os[i].side
  BY <1>5 DEF Rows
<1>10. PICK v, w, z : v = SidesOf(os, ts) /\ w = [q \in 1..m |-> side] /\ z = SidesOf(os2, t)
  OBVIOUS
<1>11. \A j \in DOMAIN os : os2[j].side = os[j].side /\ os[j].side \in Int
  <2>1. \A j \in DOMAIN os : os2[j].side = os[j].side
    BY <1>6, Zenon
  <2>2. \A j \in DOMAIN os : os[j].side \in Int
    BY <1>5 DEF Rows
  <2>3. QED BY <2>1, <2>2
<1>12. /\ v \in Seq(Int) /\ Len(v) = k /\ w \in Seq(Int) /\ Len(w) = m
       /\ (\A q \in 1..k : v[q] = os[ts[q]].side) /\ \A q \in 1..m : w[q] = side
  <2>1. \A q \in 1..k : ts[q] \in DOMAIN os
    BY <1>1, <1>3
  <2>2. v = [q \in 1..k |-> os[ts[q]].side]
    BY <1>3, <1>10, Zenon DEF SidesOf
  <2>3. \A q \in 1..k : os[ts[q]].side \in Int
    BY <1>11, <2>1
  <2>4. QED BY <1>10, <2>2, <2>3
<1>13. z = v \o w
  <2>1. z = [q \in 1..(k + m) |-> os2[t[q]].side]
    BY <1>3, <1>10, Zenon DEF SidesOf
  <2>2. v \o w = [q \in 1..(k + m) |-> (v \o w)[q]]
    <3>1. PICK I : I = Int
      OBVIOUS
    <3>2. v \in Seq(I) /\ w \in Seq(I)
      BY <1>12, <3>1, Zenon
    <3>3. v \o w \in Seq(I) /\ Len(v \o w) = Len(v) + Len(w)
      BY ONLY <3>2
    <3>4. PICK u : u = v \o w
      OBVIOUS
    <3>5. u \in Seq(I) /\ Len(u) = k + m
      BY <1>12, <3>3, <3>4, Zenon
    <3>6. u = [q \in 1..(k + m) |-> u[q]]
      BY ONLY <3>5
    <3>7. QED BY <3>4, <3>6, Zenon
  <2>3. ASSUME NEW q \in 1..(k + m) PROVE os2[t[q]].side = (v \o w)[q]
    <3>1. CASE q <= k
      <4>1. q \in 1..k /\ (v \o w)[q] = v[q]
        BY <1>12, <3>1
      <4>2. t[q] = ts[q] /\ ts[q] \in DOMAIN os
        BY <1>1, <1>2, <1>3, <4>1
      <4>3. QED BY <1>11, <1>12, <4>1, <4>2, Zenon
    <3>2. CASE ~(q <= k)
      <4>1. q - k \in 1..m /\ k + (q - k) = q /\ (v \o w)[q] = w[q - k]
        <5>1. q - k \in 1..m /\ k + (q - k) = q
          BY <3>2
        <5>2. \A p \in 1..m : (v \o w)[k + p] = w[p]
          BY <1>12
        <5>3. QED BY <5>1, <5>2
      <4>2. t[q] = i
        BY <1>2, <4>1
      <4>3. QED BY <1>9, <1>11, <1>12, <4>1, <4>2, Zenon
    <3>3. QED BY <3>1, <3>2
  <2>4. QED BY <2>1, <2>2, <2>3, Zenon
<1>14. Total(z) = n + side * m
  <2>1. Total(v \o w) = Total(v) + Total(w)
    BY <1>12, TotalConcat, Zenon
  <2>2. Total(w) = side * m
    BY <1>10, TotalSame, Zenon
  <2>3. QED BY <1>1, <1>10, <1>13, <2>1, <2>2, Zenon
<1>15. t \in Seq(DOMAIN os2) /\ n + side * m = Total(SidesOf(os2, t))
  BY <1>6, <1>10, <1>14, Zenon
<1>16. Books(os2, t, n + side * m)
  BY <1>6, <1>7, <1>8, <1>15, Zenon DEF Books
<1>17. QED BY <1>4, <1>9, <1>16, Zenon

\* A row that changes without a trade.
LEMMA BooksChanged ==
  ASSUME NEW os, NEW ts, NEW n, Books(os, ts, n), NEW i \in DOMAIN os,
         NEW o, RowIs(o), o.side = os[i].side, o.filled = os[i].filled
  PROVE  Books([os EXCEPT ![i] = o], ts, n) /\ GrownFrom(os, [os EXCEPT ![i] = o])
<1>1. /\ ts \in Seq(DOMAIN os) /\ os \in Seq(Rows) /\ n = Total(SidesOf(os, ts))
      /\ \A j \in DOMAIN os : RowIs(os[j])
  BY Zenon DEF Books
<1>2. \A j \in DOMAIN os : os[j].side \in Int /\ os[j].filled \in Int
  BY <1>1, RowFields, Zenon
<1>3. n \in Int
  BY BooksPosition
<1>4. Books([os EXCEPT ![i] = o], ts, n + os[i].side * 0)
  <2>1. 0 \in Nat /\ o.filled = os[i].filled + 0 /\ Len(ts) = Len(ts) + 0
    BY <1>1, <1>2
  <2>2. (\A k \in 1..Len(ts) : ts[k] = ts[k]) /\ \A k \in 1..0 : ts[Len(ts) + k] = i
    OBVIOUS
  <2>3. QED BY <1>1, <2>1, <2>2, BooksTraded, Zenon
<1>5. n + os[i].side * 0 = n
  BY <1>2, <1>3
<1>6. GrownFrom(os, [os EXCEPT ![i] = o])
  <2>1. PICK os2 : os2 = [os EXCEPT ![i] = o]
    OBVIOUS
  <2>2. o \in Rows
    BY Zenon DEF RowIs
  <2>3. Len(os2) = Len(os) /\ \A j \in DOMAIN os : os2[j] = IF j = i THEN o ELSE os[j]
    BY <1>1, <2>1, <2>2
  <2>4. \A j \in DOMAIN os : os[j].filled <= os2[j].filled
    BY <1>2, <2>3
  <2>5. Len(os) <= Len(os2)
    BY <1>1, <2>3
  <2>6. QED BY <1>1, <2>1, <2>4, <2>5, Zenon DEF GrownFrom
<1>7. QED BY <1>4, <1>5, <1>6, Zenon

\* A new order.
LEMMA BooksPlaced ==
  ASSUME NEW os, NEW ts, NEW n, Books(os, ts, n), NEW o, RowIs(o), o.filled = 0
  PROVE  Books(Append(os, o), ts, n) /\ GrownFrom(os, Append(os, o))
<1>1. /\ os \in Seq(Rows) /\ (\A j \in DOMAIN os : RowIs(os[j])) /\ ts \in Seq(DOMAIN os)
      /\ (\A j \in DOMAIN os : Cardinality(PlacesOf(ts, j)) = os[j].filled)
      /\ n = Total(SidesOf(os, ts))
  BY Zenon DEF Books
<1>2. PICK len \in Nat, k \in Nat : len = Len(os) /\ k = Len(ts)
  BY <1>1
<1>3. DOMAIN os = 1..len /\ DOMAIN ts = 1..k
  BY <1>1, <1>2
<1>4. PICK os2 : os2 = Append(os, o)
  OBVIOUS
<1>5. o \in Rows
  BY Zenon DEF RowIs
<1>6. /\ os2 \in Seq(Rows) /\ DOMAIN os2 = 1..(len + 1) /\ Len(os2) = len + 1
      /\ (\A j \in 1..len : os2[j] = os[j]) /\ os2[len + 1] = o
  BY <1>1, <1>2, <1>3, <1>4, <1>5
<1>7. \A j \in 1..(len + 1) : j \in 1..len \/ j = len + 1
  OBVIOUS
<1>8. \A j \in DOMAIN os2 : RowIs(os2[j])
  BY <1>1, <1>3, <1>6, <1>7, Zenon
<1>9. \A q \in 1..k : ts[q] \in 1..len
  BY <1>1, <1>3
<1>10. ts \in Seq(DOMAIN os2)
  <2>1. \A q \in 1..k : ts[q] \in DOMAIN os2
    BY <1>6, <1>9
  <2>2. ts = [q \in 1..k |-> ts[q]]
    BY <1>1, <1>3
  <2>3. QED BY <2>1, <2>2
<1>11. \A j \in DOMAIN os2 : Cardinality(PlacesOf(ts, j)) = os2[j].filled
  <2>1. PlacesOf(ts, len + 1) = {}
    BY <1>3, <1>9 DEF PlacesOf
  <2>2. Cardinality(PlacesOf(ts, len + 1)) = 0
    BY <2>1, FS_EmptySet, Zenon
  <2>3. QED BY <1>1, <1>3, <1>6, <1>7, <2>2, Zenon
<1>12. SidesOf(os2, ts) = SidesOf(os, ts)
  <2>1. \A q \in 1..k : os2[ts[q]].side = os[ts[q]].side
    BY <1>6, <1>9, Zenon
  <2>2. [q \in 1..k |-> os2[ts[q]].side] = [q \in 1..k |-> os[ts[q]].side]
    BY <2>1, Zenon
  <2>3. QED BY <1>3, <2>2, Zenon DEF SidesOf
<1>13. n = Total(SidesOf(os2, ts))
  BY <1>1, <1>12, Zenon
<1>14. Books(os2, ts, n)
  BY <1>6, <1>8, <1>10, <1>11, <1>13, Zenon DEF Books
<1>15. GrownFrom(os, os2)
  <2>1. \A j \in DOMAIN os : os[j].filled \in Int
    BY <1>1, RowFields, Zenon
  <2>2. \A j \in DOMAIN os : os[j].filled <= os2[j].filled
    BY <1>3, <1>6, <2>1
  <2>3. Len(os) <= Len(os2)
    BY <1>2, <1>6
  <2>4. QED BY <1>1, <2>2, <2>3, Zenon DEF GrownFrom
<1>16. QED BY <1>4, <1>14, <1>15, Zenon

\* What the mock trades of an order that is open, and what its row becomes.
Open(os, i) == os[i].status = "OPEN"
LotsOpen(os, i) == IF Open(os, i) THEN os[i].lots ELSE 0
Block(os, i) == [k \in 1..LotsOpen(os, i) |-> i]
SignedLots(os) == [i \in DOMAIN os |-> IF os[i].status = "OPEN" THEN os[i].side * os[i].lots ELSE 0]

\* The trades after each order of the mock's book.
MockTrades(h, os, n) ==
  h = [i \in 0..n |-> IF i = 0 THEN <<>>
                      ELSE h[i - 1] \o [k \in 1..(IF os[i].status = "OPEN" THEN os[i].lots ELSE 0) |-> i]]

\* They begin with none and go on with the lots of each open order in turn.
LEMMA MockInTurn ==
  ASSUME NEW os, NEW n \in Nat, NEW h
  PROVE  MockTrades(h, os, n) <=>
           Reaches(h, n) /\ h[0] = <<>> /\ \A i \in 1..n : h[i] = h[i - 1] \o Block(os, i)
<1> DEFINE Now(i) == IF i = 0 THEN <<>>
                     ELSE h[i - 1] \o [k \in 1..(IF os[i].status = "OPEN" THEN os[i].lots ELSE 0) |-> i]
<1>0. \A i : Block(os, i) = [k \in 1..(IF os[i].status = "OPEN" THEN os[i].lots ELSE 0) |-> i]
  BY Zenon DEF Block, LotsOpen, Open
<1>1. ASSUME \A i \in 0..n : h[i] = Now(i)
      PROVE  [i \in 0..n |-> h[i]] = [i \in 0..n |-> Now(i)]
  BY <1>1, Zenon
<1>2. (\A i \in 0..n : h[i] = Now(i))
        <=> (h[0] = <<>> /\ \A i \in 1..n : h[i] = h[i - 1] \o Block(os, i))
  <2>1. 0 \in 0..n /\ (\A i \in 1..n : i \in 0..n /\ i # 0) /\ \A i \in 0..n : i # 0 => i \in 1..n
    OBVIOUS
  <2>2. QED BY <1>0, <2>1, Zenon
<1>3. ASSUME MockTrades(h, os, n) PROVE \A i \in 0..n : h[i] = Now(i)
  BY <1>3, Zenon DEF MockTrades
<1>4. QED BY <1>1, <1>2, <1>3, Zenon DEF MockTrades, Reaches

\* Every number of orders has such a history.
LEMMA MockTradesExist ==
  ASSUME NEW os, NEW n \in Nat
  PROVE  \E h : MockTrades(h, os, n)
<1> DEFINE S == {k \in Nat : \E h : MockTrades(h, os, k)}
<1>1. 0 \in S
  <2>1. PICK f : f = [i \in 0..0 |-> <<>>]
    OBVIOUS
  <2>2. PICK h : Reaches(h, 0) /\ \A i \in 0..0 : h[i] = f[i]
    BY CutHistory
  <2>3. h[0] = <<>>
    <3>1. 0 \in 0..0
      OBVIOUS
    <3>2. QED BY <2>1, <2>2, <3>1
  <2>4. \A i \in 1..0 : h[i] = h[i - 1] \o Block(os, i)
    OBVIOUS
  <2>5. 0 \in Nat
    OBVIOUS
  <2>6. MockTrades(h, os, 0)
    BY ONLY <2>2, <2>3, <2>4, <2>5, MockInTurn
  <2>7. QED BY <2>6
<1>2. ASSUME NEW k \in Nat, k \in S PROVE k + 1 \in S
  <2>1. PICK h : MockTrades(h, os, k)
    BY <1>2
  <2>2. PICK g : Reaches(g, k + 1) /\ g[k + 1] = h[k] \o Block(os, k + 1) /\ \A i \in 0..k : g[i] = h[i]
    <3>1. \E g : Longer(g, h, k, h[k] \o Block(os, k + 1))
      BY LongerHistory
    <3>2. QED BY <3>1, Zenon DEF Longer
  <2>3. h[0] = <<>> /\ \A i \in 1..k : h[i] = h[i - 1] \o Block(os, i)
    BY ONLY k \in Nat, <2>1, MockInTurn
  <2>4. g[0] = <<>>
    <3>1. 0 \in 0..k
      OBVIOUS
    <3>2. QED BY ONLY <2>2, <2>3, <3>1, Zenon
  <2>5. ASSUME NEW i \in 1..(k + 1) PROVE g[i] = g[i - 1] \o Block(os, i)
    <3>1. i - 1 \in 0..k
      OBVIOUS
    <3>2. CASE i = k + 1
      <4>1. i - 1 = k
        BY <3>2
      <4>2. QED BY ONLY <2>2, <3>1, <3>2, <4>1, Zenon
    <3>3. CASE i # k + 1
      <4>1. i \in 1..k /\ i \in 0..k
        BY <3>3
      <4>2. QED BY ONLY <2>2, <2>3, <3>1, <4>1, Zenon
    <3>4. QED BY <3>2, <3>3
  <2>6. k + 1 \in Nat
    OBVIOUS
  <2>7. MockTrades(g, os, k + 1)
    BY ONLY <2>2, <2>4, <2>5, <2>6, MockInTurn
  <2>8. QED BY <2>6, <2>7
<1>3. Nat \subseteq S
  <2> HIDE DEF S
  <2>1. QED BY <1>1, <1>2, Grows
<1>4. QED BY <1>3

\* The row of an order that the mock fills if it is open.
MockRow(o) == IF o.status = "OPEN" THEN [o EXCEPT !.status = "COMPLETE", !.filled = o.lots] ELSE o

LEMMA MockRowIs ==
  ASSUME NEW os, NEW i \in DOMAIN os, RowIs(os[i]), Open(os, i) => os[i].filled = 0
  PROVE  /\ RowIs(MockRow(os[i])) /\ MockRow(os[i]).side = os[i].side
         /\ LotsOpen(os, i) \in Nat
         /\ MockRow(os[i]).filled = os[i].filled + LotsOpen(os, i)
         /\ MockRow(os[i]).status # "OPEN"
         /\ (IF os[i].status = "OPEN" THEN os[i].side * os[i].lots ELSE 0) = os[i].side * LotsOpen(os, i)
<1>1. PICK o : o = os[i]
  OBVIOUS
<1>2. RowIs(o) /\ (o.status = "OPEN" => o.filled = 0) /\ LotsOpen(os, i) = IF o.status = "OPEN" THEN o.lots ELSE 0
  BY <1>1, Zenon DEF LotsOpen, Open
<1>3. o \in Rows /\ o.side \in Int /\ o.filled \in Int /\ o.lots \in Nat \ {0} /\ o.lots \in 1..MaxLots
  <2>1. o \in Rows
    BY <1>2, RowFields, Zenon
  <2>2. o.lots \in 1..MaxLots
    BY <2>1 DEF Rows
  <2>3. QED BY <1>2, <2>1, <2>2, RowFields, Zenon
<1>4. CASE o.status = "OPEN"
  <2>1. PICK p : p = [o EXCEPT !.status = "COMPLETE", !.filled = o.lots]
    OBVIOUS
  <2>2. MockRow(o) = p /\ LotsOpen(os, i) = o.lots /\ o.filled = 0
    BY <1>2, <1>4, <2>1, Zenon DEF MockRow
  <2>3. /\ p \in Rows /\ p.side = o.side /\ p.filled = o.lots /\ p.lots = o.lots
        /\ p.status = "COMPLETE" /\ p.trigger = o.trigger
    <3>1. o.lots \in 0..MaxLots /\ "COMPLETE" \in Statuses
      BY <1>3 DEF Statuses
    <3>2. PICK st : st = "COMPLETE"
      OBVIOUS
    <3>3. p = [o EXCEPT !.status = st, !.filled = o.lots]
      BY <2>1, <3>2, Zenon
    <3>4. /\ p \in Rows /\ p.side = o.side /\ p.filled = o.lots /\ p.lots = o.lots
          /\ p.status = st /\ p.trigger = o.trigger
      BY <1>3, <3>1, <3>2, <3>3 DEF Rows
    <3>5. QED BY <3>2, <3>4, Zenon
  <2>4. RowIs(p)
    <3>1. p.filled <= p.lots
      BY <1>3, <2>3
    <3>2. /\ p.status \in {"OPEN", "COMPLETE", "CANCELLED"}
          /\ p.status # "OPEN" /\ p.status # "TRIGGER PENDING" /\ p.filled = p.lots
      BY <2>3
    <3>3. QED BY <2>3, <3>1, <3>2, Zenon DEF RowIs
  <2>5. p.filled = o.filled + o.lots
    BY <1>3, <2>2, <2>3
  <2>6. p.status # "OPEN"
    BY <2>3
  <2>7. QED BY <1>1, <1>3, <1>4, <2>2, <2>3, <2>4, <2>5, <2>6
<1>5. CASE o.status # "OPEN"
  <2>1. MockRow(o) = o /\ LotsOpen(os, i) = 0
    BY <1>2, <1>5, Zenon DEF MockRow
  <2>2. o.filled = o.filled + 0 /\ o.side * 0 = 0 /\ 0 \in Nat
    BY <1>3
  <2>3. QED BY <1>1, <1>2, <1>5, <2>1, <2>2, Zenon
<1>6. QED BY <1>4, <1>5

\* The books of the mock after a snapshot.
LEMMA MockFills ==
  ASSUME NEW os, NEW ts, NEW n, Books(os, ts, n),
         \A i \in DOMAIN os : os[i].status = "OPEN" => os[i].filled = 0
  PROVE  /\ Books(Account!FilledOpen(os), ts \o Account!OpenTrades(os), n + Total(SignedLots(os)))
         /\ \A i \in DOMAIN Account!FilledOpen(os) : Account!FilledOpen(os)[i].status # "OPEN"
<1>1. /\ os \in Seq(Rows) /\ (\A j \in DOMAIN os : RowIs(os[j])) /\ ts \in Seq(DOMAIN os)
  BY Zenon DEF Books
<1>2. PICK len \in Nat : len = Len(os) /\ DOMAIN os = 1..len
  BY <1>1
<1>3. PICK new : new = [i \in 1..len |-> MockRow(os[i])]
  OBVIOUS
<1>4. Account!FilledOpen(os) = new
  BY <1>2, <1>3, Zenon DEF Account!FilledOpen, MockRow
<1>5. \A i \in 1..len :
        /\ RowIs(new[i]) /\ new[i].side = os[i].side /\ LotsOpen(os, i) \in Nat
        /\ new[i].filled = os[i].filled + LotsOpen(os, i) /\ new[i].status # "OPEN"
        /\ SignedLots(os)[i] = os[i].side * LotsOpen(os, i)
  <2>1. SUFFICES ASSUME NEW i \in 1..len
                 PROVE  /\ RowIs(new[i]) /\ new[i].side = os[i].side /\ LotsOpen(os, i) \in Nat
                        /\ new[i].filled = os[i].filled + LotsOpen(os, i) /\ new[i].status # "OPEN"
                        /\ SignedLots(os)[i] = os[i].side * LotsOpen(os, i)
    OBVIOUS
  <2>2. i \in DOMAIN os /\ RowIs(os[i]) /\ (Open(os, i) => os[i].filled = 0)
    BY <1>1, <1>2, Zenon DEF Open
  <2>3. new[i] = MockRow(os[i])
    BY <1>3
  <2>4. SignedLots(os)[i] = IF os[i].status = "OPEN" THEN os[i].side * os[i].lots ELSE 0
    BY <2>2, Zenon DEF SignedLots
  <2>5. QED BY <2>2, <2>3, <2>4, MockRowIs, Zenon
<1>6. PICK h : h = CHOOSE f : MockTrades(f, os, len)
  OBVIOUS
<1>7. MockTrades(h, os, len)
  <2>1. \E f : MockTrades(f, os, len)
    BY MockTradesExist
  <2>2. QED BY <1>6, <2>1, Zenon
<1>8. Account!OpenTrades(os) = h[len]
  BY <1>2, <1>6, Zenon DEF Account!OpenTrades, MockTrades
<1>9. h[0] = <<>> /\ \A i \in 1..len : h[i] = h[i - 1] \o Block(os, i)
  BY ONLY len \in Nat, <1>7, MockInTurn
<1>10. PICK v : v = SignedLots(os)
  OBVIOUS
<1>11. \A i \in 1..len : v[i] \in Int /\ os[i].side \in Int /\ os[i] \in Rows
  <2>1. SUFFICES ASSUME NEW i \in 1..len PROVE v[i] \in Int /\ os[i].side \in Int /\ os[i] \in Rows
    OBVIOUS
  <2>2. RowIs(os[i])
    BY <1>1, <1>2, Zenon
  <2>3. os[i].side \in Int /\ os[i] \in Rows
    BY <2>2, RowFields, Zenon
  <2>4. v[i] = os[i].side * LotsOpen(os, i) /\ LotsOpen(os, i) \in Nat
    BY <1>5, <1>10, Zenon
  <2>5. QED BY <2>3, <2>4
<1>12. PICK c : Counts(c, v, len)
  BY CountExists
<1>13. Total(v) = c[len] /\ (\A i \in 0..len : c[i] \in Int) /\ c[0] = 0 /\ \A i \in 1..len : c[i] = c[i - 1] + v[i]
  <2>1. Len(v) = len
    <3>1. v = [i \in 1..len |-> v[i]]
      BY <1>2, <1>10, Zenon DEF SignedLots
    <3>2. QED BY <3>1
  <2>2. Total(v) = c[len]
    BY <1>12, <2>1, TotalIs
  <2>3. \A i \in 0..len : c[i] \in Int
    BY <1>11, <1>12, CountType
  <2>4. c[0] = 0 /\ \A i \in 1..len : c[i] = c[i - 1] + v[i]
    BY <1>12, CountSteps
  <2>5. QED BY <2>2, <2>3, <2>4
<1>14. n \in Int
  BY BooksPosition
<1> DEFINE Now(i) == [j \in 1..len |-> IF j <= i THEN new[j] ELSE os[j]]
           Good == {i \in Nat : i <= len => h[i] \in Seq(1..len) /\ Books(Now(i), ts \o h[i], n + c[i])}
<1>15. 0 \in Good
  <2>1. Now(0) = os
    <3>1. \A j \in 1..len : ~(j <= 0)
      OBVIOUS
    <3>2. os = [j \in 1..len |-> os[j]]
      BY <1>1, <1>2
    <3>3. Now(0) = [j \in 1..len |-> os[j]]
      BY <3>1
    <3>4. QED BY <3>2, <3>3, Zenon
  <2>2. ts \o <<>> = ts /\ <<>> \in Seq(1..len)
    BY <1>1
  <2>3. n + c[0] = n
    BY <1>13, <1>14
  <2> HIDE DEF Now
  <2>4. h[0] \in Seq(1..len) /\ Books(Now(0), ts \o h[0], n + c[0])
    BY <1>9, <2>1, <2>2, <2>3, Zenon
  <2>5. QED BY <2>4
<1>16. ASSUME NEW i \in Nat, i \in Good PROVE i + 1 \in Good
  <2>1. SUFFICES ASSUME i + 1 <= len
                 PROVE  h[i + 1] \in Seq(1..len) /\ Books(Now(i + 1), ts \o h[i + 1], n + c[i + 1])
    OBVIOUS
  <2>2. h[i] \in Seq(1..len) /\ Books(Now(i), ts \o h[i], n + c[i])
    BY <1>16, <2>1
  <2>3. PICK j \in 1..len : j = i + 1 /\ j - 1 = i /\ i \in 0..len
    BY <2>1
  <2>4. PICK m \in Nat : m = LotsOpen(os, j)
    BY <1>5
  <2>5. Block(os, j) = [k \in 1..m |-> j] /\ Block(os, j) \in Seq(1..len) /\ Len(Block(os, j)) = m
    <3>1. Block(os, j) = [k \in 1..m |-> j]
      BY <2>4, Zenon DEF Block
    <3>2. QED BY <3>1
  <2>6. h[j] = h[i] \o Block(os, j) /\ c[j] = c[i] + v[j]
    BY <1>9, <1>13, <2>3, Zenon
  <2>7. h[j] \in Seq(1..len)
    <3>1. h[i] \o Block(os, j) \in Seq(1..len)
      BY <2>2, <2>5
    <3>2. QED BY <2>6, <3>1, Zenon
  <2>8. PICK s, t, b : s = ts \o h[i] /\ t = ts \o h[j] /\ b = Block(os, j)
    OBVIOUS
  <2>9. ts \in Seq(1..len)
    BY <1>1, <1>2, Zenon
  <2>10. /\ s \in Seq(1..len) /\ t \in Seq(1..len) /\ Len(t) = Len(s) + m
         /\ (\A k \in 1..Len(s) : t[k] = s[k]) /\ \A k \in 1..m : t[Len(s) + k] = j
    <3>1. t = s \o b
      <4>1. PICK u : u = h[i]
        OBVIOUS
      <4>2. PICK P : ts \in Seq(P) /\ u \in Seq(P) /\ b \in Seq(P)
        BY <2>2, <2>5, <2>8, <2>9, <4>1, Zenon
      <4>3. ts \o (u \o b) = (ts \o u) \o b
        BY ONLY <4>2, ConcatAssociative
      <4>4. QED BY <2>6, <2>8, <4>1, <4>3, Zenon
    <3>2. s \in Seq(1..len)
      BY <2>2, <2>8, <2>9
    <3>3. b \in Seq(1..len) /\ Len(b) = m /\ \A k \in 1..m : b[k] = j
      BY <2>5, <2>8
    <3>4. /\ s \o b \in Seq(1..len) /\ Len(s \o b) = Len(s) + Len(b) /\ Len(s) \in Nat
          /\ (\A k \in 1..Len(s) : (s \o b)[k] = s[k])
          /\ \A k \in 1..Len(b) : (s \o b)[Len(s) + k] = b[k]
      BY ONLY <3>2, <3>3, m \in Nat
    <3>5. QED BY <3>1, <3>2, <3>3, <3>4, Zenon
  <2>11. DOMAIN Now(i) = 1..len /\ Now(i)[j] = os[j]
    BY <2>3
  <2>12. [Now(i) EXCEPT ![j] = new[j]] = Now(j)
    <3>1. \A k \in 1..len : (IF k = j THEN new[j] ELSE Now(i)[k]) = Now(j)[k]
      BY <2>3
    <3>2. [Now(i) EXCEPT ![j] = new[j]] = [k \in 1..len |-> IF k = j THEN new[j] ELSE Now(i)[k]]
      OBVIOUS
    <3>3. QED BY <3>1, <3>2
  <2>13. n + c[i] + os[j].side * m = n + c[j]
    <3>1. v[j] = os[j].side * m
      BY <1>5, <1>10, <2>4, Zenon
    <3>2. c[i] \in Int /\ v[j] \in Int
      BY <1>11, <1>13, <2>3
    <3>3. QED BY <1>14, <2>6, <3>1, <3>2
  <2>14. RowIs(new[j]) /\ new[j].side = os[j].side /\ new[j].filled = os[j].filled + m
    BY <1>5, <2>4, Zenon
  <2> HIDE DEF Now
  <2>15. PICK now0, row, pos : now0 = Now(i) /\ row = new[j] /\ pos = n + c[i]
    OBVIOUS
  <2>16. /\ Books(now0, s, pos) /\ j \in DOMAIN now0 /\ RowIs(row) /\ row.side = now0[j].side
         /\ row.filled = now0[j].filled + m /\ t \in Seq(DOMAIN now0)
    BY <2>2, <2>8, <2>10, <2>11, <2>14, <2>15, Zenon
  <2>17. Books([now0 EXCEPT ![j] = row], t, pos + now0[j].side * m)
    BY <2>10, <2>16, BooksTraded, Zenon
  <2>18. Books(Now(j), t, n + c[j])
    BY <2>11, <2>12, <2>13, <2>15, <2>17, Zenon
  <2>19. QED BY <2>3, <2>7, <2>8, <2>18, Zenon
<1>17. Nat \subseteq Good
  <2> HIDE DEF Good
  <2>1. QED BY <1>15, <1>16, Grows
<1>18. Books(Now(len), ts \o h[len], n + c[len])
  <2>1. len \in Good /\ len <= len
    BY <1>17
  <2>2. QED BY <2>1
<1>19. Now(len) = new
  BY <1>3
<1>20. \A i \in DOMAIN new : new[i].status # "OPEN"
  BY <1>3, <1>5
<1> HIDE DEF Now, Good
<1>21. QED BY <1>4, <1>8, <1>10, <1>13, <1>18, <1>19, <1>20, Zenon

\* The invariant at the start.
LEMMA AccountStarts == Init => AccountInv
<1>1. SUFFICES ASSUME Account!Init PROVE AccountInv
  BY Zenon DEF Init
<1>2. /\ broker \in {"kite", "paper"} /\ orders = <<>> /\ trades = <<>> /\ net = 0
      /\ shown = [orders |-> <<>>, trades |-> 0, position |-> 0]
      /\ read = Account!NoRead /\ view = Account!NoView
  BY <1>1, Zenon DEF Account!Init
<1>3. view.taken = FALSE
  BY <1>2 DEF Account!NoView
<1>4. PICK none : none = <<>>
  OBVIOUS
<1>5. none \in Seq(Rows) /\ none \in Seq({}) /\ none \in Seq(Int) /\ DOMAIN none = {} /\ Len(none) = 0
  BY <1>4
<1>6. SidesOf(none, none) = none
  BY <1>4, <1>5 DEF SidesOf
<1>7. Total(none) = 0
  BY <1>4, <1>5, TotalType
<1>8. Books(none, none, 0)
  BY <1>5, <1>6, <1>7 DEF Books
<1>9. \A i \in DOMAIN orders : FALSE
  BY <1>2, <1>4, <1>5, Zenon
<1>10. ShownIs(shown, none, none)
  <2>1. GrownFrom(none, none)
    <3>1. Len(none) <= Len(none)
      BY ONLY <1>5
    <3>2. QED BY <1>5, <3>1, Zenon DEF GrownFrom
  <2>2. PICK S : S = Seq(Rows)
    OBVIOUS
  <2>3. none \in S
    BY <1>5, <2>2, Zenon
  <2>4. PICK b : b = [orders |-> none, trades |-> 0, position |-> 0]
    OBVIOUS
  <2>5. b \in [orders : S, trades : Nat, position : Nat]
    BY ONLY <2>3, <2>4
  <2>6. b.orders = none /\ b.trades <= Len(none) /\ b.position <= b.trades
    BY ONLY <1>5, <2>4
  <2>7. b \in Books3
    BY <2>2, <2>5, Zenon DEF Books3
  <2>8. ShownIs(b, none, none)
    BY <2>1, <2>6, <2>7, Zenon DEF ShownIs
  <2>9. QED BY <1>2, <1>4, <2>4, <2>8, Zenon
<1>11. QED BY <1>2, <1>3, <1>4, <1>8, <1>9, <1>10, Zenon DEF AccountInv

\* A book that is older than one that has grown; and if nothing traded in all that
\* time, nothing did in a part of it.
LEMMA GrownOn ==
  ASSUME NEW os, NEW os2, GrownFrom(os, os2), os2 \in Seq(Rows), \A i \in DOMAIN os2 : RowIs(os2[i]),
         NEW first, GrownFrom(first, os)
  PROVE  /\ GrownFrom(first, os2)
         /\ Still(first, os2) => Still(first, os) /\ ~\E i \in DOMAIN os : os[i].filled < os2[i].filled
<1>1. /\ os \in Seq(Rows) /\ Len(os) <= Len(os2)
      /\ (\A i \in DOMAIN os : os[i].filled <= os2[i].filled) /\ \A i \in DOMAIN os : RowIs(os[i])
  BY Zenon DEF GrownFrom
<1>2. PICK k \in Nat, l \in Nat : /\ k = Len(os) /\ l = Len(os2) /\ k <= l
                                  /\ DOMAIN os = 1..k /\ DOMAIN os2 = 1..l
  BY <1>1
<1>3. (\A i \in 1..k : os[i].filled \in Int) /\ \A i \in 1..l : os2[i].filled \in Int
  BY <1>1, <1>2, RowFields, Zenon
<1>4. /\ first \in Seq(Rows) /\ Len(first) <= k
      /\ \A i \in DOMAIN first : RowIs(first[i])
      /\ \A i \in DOMAIN first : first[i].filled <= os[i].filled
  BY <1>2, Zenon DEF GrownFrom
<1>5. PICK m \in Nat : m = Len(first) /\ DOMAIN first = 1..m /\ m <= k
  BY <1>4
<1>6. \A i \in 1..m : first[i] \in Rows
  BY <1>4, <1>5
<1>7. \A i \in 1..m : first[i].filled \in Int
  <2>1. SUFFICES ASSUME NEW i \in 1..m PROVE first[i].filled \in Int
    OBVIOUS
  <2>2. first[i].filled \in 0..MaxLots
    BY <1>6 DEF Rows
  <2>3. QED BY <2>2
<1>8. \A i \in 1..m : i \in 1..k /\ i \in 1..l
  BY <1>2, <1>5
<1>9. \A i \in 1..m : first[i].filled <= os[i].filled /\ os[i].filled <= os2[i].filled
  BY <1>1, <1>2, <1>4, <1>5, <1>8, Zenon
<1>10. \A i \in 1..m : first[i].filled <= os2[i].filled
  <2>1. SUFFICES ASSUME NEW i \in 1..m PROVE first[i].filled <= os2[i].filled
    OBVIOUS
  <2>2. PICK a, b, c : a = first[i].filled /\ b = os[i].filled /\ c = os2[i].filled
    OBVIOUS
  <2>3. a \in Int /\ b \in Int /\ c \in Int /\ a <= b /\ b <= c
    BY <1>3, <1>7, <1>8, <1>9, <2>2, Zenon
  <2>4. a <= c
    BY ONLY <2>3
  <2>5. QED BY <2>2, <2>4, Zenon
<1>11. GrownFrom(first, os2)
  <2>1. Len(first) <= Len(os2)
    BY <1>2, <1>5
  <2>2. QED BY <1>4, <1>5, <1>10, <2>1, Zenon DEF GrownFrom
<1>12. ASSUME Still(first, os2)
      PROVE  Still(first, os) /\ ~\E i \in DOMAIN os : os[i].filled < os2[i].filled
  <2>1. m = l /\ \A i \in 1..m : first[i].filled = os2[i].filled
    BY <1>2, <1>5, <1>12, Zenon DEF Still
  <2>2. m = k
    BY <1>2, <1>5, <2>1
  <2>3. \A i \in 1..m : first[i].filled = os[i].filled /\ os[i].filled = os2[i].filled
    BY <1>3, <1>7, <1>8, <1>9, <2>1
  <2>4. Still(first, os)
    BY <1>2, <1>5, <2>2, <2>3, Zenon DEF Still
  <2>5. ~\E i \in DOMAIN os : os[i].filled < os2[i].filled
    BY <1>2, <1>3, <1>8, <2>2, <2>3
  <2>6. QED BY <2>4, <2>5, Zenon
<1>13. QED BY <1>11, <1>12

\* A read that goes on while the books grow.
LEMMA ReadGoesOn ==
  ASSUME NEW r, NEW os, NEW ts, NEW n, NEW k, NEW m, ReadIs(r, os, ts, n, k, m),
         NEW os2, NEW ts2, NEW n2, GrownFrom(os, os2), os2 \in Seq(Rows),
         \A i \in DOMAIN os2 : RowIs(os2[i]),
         \/ ts2 = ts /\ n2 = n
         \/ \E i \in DOMAIN os : os[i].filled < os2[i].filled
  PROVE  ReadIs(r, os2, ts2, n2, k, m)
<1>1. ASSUME NEW first, GrownFrom(first, os)
      PROVE  GrownFrom(first, os2) /\ (Still(first, os2) => Still(first, os) /\ ts2 = ts /\ n2 = n)
  BY <1>1, GrownOn, Zenon
<1>2. \A first : GrownFrom(first, os) =>
        GrownFrom(first, os2) /\ (Still(first, os2) => Still(first, os) /\ ts2 = ts /\ n2 = n)
  BY <1>1, Zenon
<1>3. (r.at \in {"positions", "again"} \/ r.at = "again") => r.at \in {"trades", "positions", "again"}
  OBVIOUS
<1>4. QED BY <1>2, <1>3, Zenon DEF ReadIs

\* The account changes, the client and what Kite shows do not.
LEMMA AccountMoves ==
  ASSUME AccountInv, broker' = broker, read' = read, shown' = shown, view' = Account!NoView,
         Books(orders', trades', net'), GrownFrom(orders, orders'), Len(trades) <= Len(trades'),
         broker = "paper" => \A i \in DOMAIN orders' : orders'[i].status = "OPEN" => orders'[i].filled = 0,
         \/ trades' = trades /\ net' = net
         \/ \E i \in DOMAIN orders : orders[i].filled < orders'[i].filled
  PROVE  AccountInv'
<1>1. view'.taken = FALSE
  BY DEF Account!NoView
<1>2. (\A i \in DOMAIN orders : RowIs(orders[i])) /\ broker \in {"kite", "paper"} /\ trades \in Seq(DOMAIN orders)
  BY Zenon DEF AccountInv, Books
<1>3. /\ orders' \in Seq(Rows) /\ (\A i \in DOMAIN orders' : RowIs(orders'[i]))
      /\ trades' \in Seq(DOMAIN orders')
  BY Zenon DEF Books
<1>4. ASSUME broker = "kite", read # Account!NoRead
      PROVE  ReadIs(read, orders', trades', net', shown.trades, shown.position)
  <2>1. ReadIs(read, orders, trades, net, shown.trades, shown.position)
    BY <1>4, Zenon DEF AccountInv
  <2>2. QED BY <1>2, <1>3, <2>1, ReadGoesOn, Zenon
<1>5. ASSUME broker = "kite" PROVE ShownIs(shown, orders', trades')
  <2>1. /\ shown \in Books3 /\ GrownFrom(shown.orders, orders)
        /\ shown.trades <= Len(trades) /\ shown.position <= shown.trades
    BY <1>5, Zenon DEF AccountInv, ShownIs
  <2>2. GrownFrom(shown.orders, orders')
    BY <1>3, <2>1, GrownOn, Zenon
  <2>3. shown.trades \in Nat
    <3>1. PICK all : all = Seq(Rows)
      OBVIOUS
    <3>2. shown \in [orders : all, trades : Nat, position : Nat]
      BY <2>1, <3>1, Zenon DEF Books3
    <3>3. QED BY ONLY <3>2
  <2>4. PICK a, b : a = Len(trades) /\ b = Len(trades') /\ a \in Nat /\ b \in Nat
    <3>1. Len(trades) \in Nat
      BY ONLY <1>2
    <3>2. PICK ts, where : ts = trades' /\ where = DOMAIN orders'
      OBVIOUS
    <3>3. ts \in Seq(where)
      BY <1>3, <3>2, Zenon
    <3>4. Len(ts) \in Nat
      BY ONLY <3>3
    <3>5. QED BY <3>1, <3>2, <3>4, Zenon
  <2>5. shown.trades <= a /\ a <= b
    BY <2>1, <2>4, Zenon
  <2>6. shown.trades <= b
    BY ONLY <2>3, <2>4, <2>5
  <2>7. QED BY <2>1, <2>2, <2>4, <2>6, Zenon DEF ShownIs
<1>6. Account!NoRead' = Account!NoRead
  BY Zenon DEF Account!NoRead
<1>7. QED BY <1>1, <1>2, <1>4, <1>5, <1>6, Zenon DEF AccountInv

\* The client reads, the account stands still.
LEMMA AccountStands ==
  ASSUME AccountInv, broker' = broker, UNCHANGED <<orders, trades, net, shown>>,
         broker = "kite" =>
           read' = Account!NoRead \/ ReadIs(read', orders, trades, net, shown.trades, shown.position),
         view'.taken => ViewIs(view', orders, trades, net)
  PROVE  AccountInv'
<1>1. orders' = orders /\ trades' = trades /\ net' = net /\ shown' = shown
  OBVIOUS
<1>2. Account!NoRead' = Account!NoRead
  BY Zenon DEF Account!NoRead
<1>3. QED BY <1>1, <1>2, Zenon DEF AccountInv

\* A row of an order changes without a trade.
LEMMA RowChanges ==
  ASSUME AccountInv, NEW i \in DOMAIN orders, NEW o, RowIs(o), o.side = orders[i].side,
         o.filled = orders[i].filled, o.status = "OPEN" => o.filled = 0 \/ broker = "kite",
         orders' = [orders EXCEPT ![i] = o], trades' = trades, net' = net, shown' = shown,
         Account!UnchangedClient
  PROVE  AccountInv'
<1>1. Books(orders, trades, net) /\ orders \in Seq(Rows)
  BY Zenon DEF AccountInv, Books
<1>2. Books(orders', trades', net') /\ GrownFrom(orders, orders')
  BY <1>1, BooksChanged, Zenon
<1>3. broker = "paper" => \A j \in DOMAIN orders' : orders'[j].status = "OPEN" => orders'[j].filled = 0
  <2>1. broker = "paper" => \A j \in DOMAIN orders : orders[j].status = "OPEN" => orders[j].filled = 0
    BY Zenon DEF AccountInv
  <2>2. DOMAIN orders' = DOMAIN orders /\ \A j \in DOMAIN orders : orders'[j] = IF j = i THEN o ELSE orders[j]
    BY <1>1
  <2>3. broker = "paper" => broker # "kite"
    OBVIOUS
  <2>4. QED BY <2>1, <2>2, <2>3, Zenon
<1>4. broker' = broker /\ read' = read /\ view' = Account!NoView
  BY Zenon DEF Account!UnchangedClient
<1>5. Len(trades) <= Len(trades')
  <2>1. trades \in Seq(DOMAIN orders)
    BY <1>1, Zenon DEF Books
  <2>2. Len(trades) <= Len(trades)
    BY <2>1
  <2>3. QED BY <2>2, Zenon
<1>6. QED BY <1>2, <1>3, <1>4, <1>5, AccountMoves, Zenon

\* What the account of an order does.
LEMMA AccountOrderKeeps ==
  ASSUME AccountInv, NEW i \in 1..MaxOrders,
         \/ Account!CancelsOrder(i) \/ Account!ModifiesStop(i)
         \/ Account!KiteAnswers(i) \/ Account!KiteTriggers(i) \/ Account!KiteFills(i)
  PROVE  AccountInv'
<1>1. i \in DOMAIN orders
  BY Zenon DEF Account!CancelsOrder, Account!ModifiesStop, Account!KiteAnswers, Account!KiteTriggers,
    Account!KiteFills, Account!Is
<1>2. PICK o : o = orders[i]
  OBVIOUS
<1>3. RowIs(o) /\ Books(orders, trades, net) /\ orders \in Seq(Rows)
      /\ (broker = "paper" => (o.status = "OPEN" => o.filled = 0))
  BY <1>1, <1>2, Zenon DEF AccountInv, Books
<1>4. o \in Rows /\ o.filled \in Int /\ o.filled >= 0 /\ o.lots \in Nat \ {0} /\ o.side \in Int
  BY <1>3, RowFields, Zenon
<1>5. /\ o.filled <= o.lots /\ (o.filled > 0 => o.status \in {"OPEN", "COMPLETE", "CANCELLED"})
      /\ (o.status = "OPEN" => o.filled < o.lots) /\ (o.status = "TRIGGER PENDING" => o.trigger # 0)
      /\ (o.status = "COMPLETE" => o.filled = o.lots)
  BY <1>3, Zenon DEF RowIs
<1>6. ASSUME NEW s \in Statuses, s # "TRIGGER PENDING", s # "COMPLETE",
             s \in {"OPEN", "COMPLETE", "CANCELLED"} \/ o.filled = 0,
             s = "OPEN" => o.filled < o.lots
      PROVE  /\ RowIs([o EXCEPT !.status = s]) /\ [o EXCEPT !.status = s].side = o.side
             /\ [o EXCEPT !.status = s].filled = o.filled /\ [o EXCEPT !.status = s].status = s
  <2>1. PICK p : p = [o EXCEPT !.status = s]
    OBVIOUS
  <2>2. p \in Rows /\ p.side = o.side /\ p.filled = o.filled /\ p.status = s /\ p.lots = o.lots
    BY <1>4, <2>1 DEF Rows
  <2>3. p.filled <= p.lots /\ (p.filled > 0 => s \in {"OPEN", "COMPLETE", "CANCELLED"})
        /\ (s = "OPEN" => p.filled < p.lots)
    <3>1. o.filled > 0 => ~(o.filled = 0)
      BY <1>4
    <3>2. o.filled > 0 => s \in {"OPEN", "COMPLETE", "CANCELLED"}
      BY <1>6, <3>1, Zenon
    <3>3. QED BY <1>5, <1>6, <2>2, <3>2, Zenon
  <2>4. RowIs(p)
    BY <1>6, <2>2, <2>3, Zenon DEF RowIs
  <2>5. QED BY <2>1, <2>2, <2>4
<1>7. CASE Account!CancelsOrder(i)
  <2>1. PICK p : p = [o EXCEPT !.status = "CANCELLED"]
    OBVIOUS
  <2>2. /\ orders' = [orders EXCEPT ![i].status = "CANCELLED"] /\ trades' = trades /\ net' = net /\ shown' = shown
        /\ Account!UnchangedClient
    BY <1>7, Zenon DEF Account!CancelsOrder
  <2>3. orders' = [orders EXCEPT ![i] = p]
    BY <1>2, <2>1, <2>2
  <2>4. RowIs(p) /\ p.side = o.side /\ p.filled = o.filled /\ p.status # "OPEN"
    <3>1. PICK s : s = "CANCELLED"
      OBVIOUS
    <3>2. /\ s \in Statuses /\ s # "TRIGGER PENDING" /\ s \in {"OPEN", "COMPLETE", "CANCELLED"}
          /\ s # "OPEN" /\ s # "COMPLETE"
      BY <3>1 DEF Statuses
    <3>3. p = [o EXCEPT !.status = s]
      BY <2>1, <3>1, Zenon
    <3>4. QED BY <1>6, <3>2, <3>3, Zenon
  <2>5. QED BY <1>1, <1>2, <2>2, <2>3, <2>4, RowChanges, Zenon
<1>8. CASE Account!ModifiesStop(i)
  <2>1. PICK p : p = [o EXCEPT !.trigger = 2]
    OBVIOUS
  <2>2. /\ orders' = [orders EXCEPT ![i].trigger = 2] /\ trades' = trades /\ net' = net /\ shown' = shown
        /\ Account!UnchangedClient /\ o.status = "TRIGGER PENDING"
    BY <1>2, <1>8, Zenon DEF Account!ModifiesStop, Account!Is
  <2>3. orders' = [orders EXCEPT ![i] = p]
    BY <1>2, <2>1, <2>2
  <2>4. /\ p \in Rows /\ p.side = o.side /\ p.filled = o.filled /\ p.status = o.status
        /\ p.lots = o.lots /\ p.trigger = 2
    BY <1>4, <2>1 DEF Rows
  <2>5. p.trigger # 0 /\ p.status # "OPEN" /\ p.status # "COMPLETE"
    <3>1. 2 # 0 /\ "TRIGGER PENDING" # "OPEN" /\ "TRIGGER PENDING" # "COMPLETE"
      OBVIOUS
    <3>2. QED BY <2>2, <2>4, <3>1, Zenon
  <2>6. RowIs(p)
    BY <1>5, <2>4, <2>5, Zenon DEF RowIs
  <2>7. QED BY <1>1, <1>2, <2>2, <2>3, <2>4, <2>5, <2>6, RowChanges, Zenon
<1>9. CASE Account!KiteAnswers(i)
  <2>1. PICK s \in {"OPEN", "REJECTED"} : orders' = [orders EXCEPT ![i].status = s]
    BY <1>9, Zenon DEF Account!KiteAnswers
  <2>2. /\ broker = "kite" /\ o.status = "OPEN PENDING" /\ trades' = trades /\ net' = net /\ shown' = shown
        /\ Account!UnchangedClient
    BY <1>2, <1>9, Zenon DEF Account!KiteAnswers, Account!Is
  <2>3. PICK p : p = [o EXCEPT !.status = s]
    OBVIOUS
  <2>4. orders' = [orders EXCEPT ![i] = p]
    BY <1>2, <2>1, <2>3
  <2>5. o.filled = 0 /\ o.filled < o.lots
    <3>1. ~(o.status \in {"OPEN", "COMPLETE", "CANCELLED"})
      BY <2>2
    <3>2. ~(o.filled > 0)
      BY <1>5, <3>1, Zenon
    <3>3. QED BY <1>4, <3>2
  <2>6. s \in Statuses /\ s # "TRIGGER PENDING" /\ s # "COMPLETE"
    BY <2>1 DEF Statuses
  <2>7. RowIs(p) /\ p.side = o.side /\ p.filled = o.filled
    BY <1>6, <2>3, <2>5, <2>6, Zenon
  <2>8. QED BY <1>1, <1>2, <2>2, <2>4, <2>7, RowChanges, Zenon
<1>10. CASE Account!KiteTriggers(i)
  <2>1. PICK s : s = "OPEN"
    OBVIOUS
  <2>2. /\ broker = "kite" /\ o.status = "TRIGGER PENDING" /\ trades' = trades /\ net' = net /\ shown' = shown
        /\ orders' = [orders EXCEPT ![i].status = s] /\ Account!UnchangedClient
    BY <1>2, <1>10, <2>1, Zenon DEF Account!KiteTriggers, Account!Is
  <2>3. PICK p : p = [o EXCEPT !.status = s]
    OBVIOUS
  <2>4. orders' = [orders EXCEPT ![i] = p]
    BY <1>2, <2>2, <2>3
  <2>5. o.filled = 0 /\ o.filled < o.lots
    <3>1. ~(o.status \in {"OPEN", "COMPLETE", "CANCELLED"})
      BY <2>2
    <3>2. ~(o.filled > 0)
      BY <1>5, <3>1, Zenon
    <3>3. QED BY <1>4, <3>2
  <2>6. s \in Statuses /\ s # "TRIGGER PENDING" /\ s # "COMPLETE"
    BY <2>1 DEF Statuses
  <2>7. RowIs(p) /\ p.side = o.side /\ p.filled = o.filled
    BY <1>6, <2>3, <2>5, <2>6, Zenon
  <2>8. QED BY <1>1, <1>2, <2>2, <2>4, <2>7, RowChanges, Zenon
<1>11. CASE Account!KiteFills(i)
  <2>1. /\ broker = "kite" /\ o.status = "OPEN" /\ orders' = [orders EXCEPT ![i] = Account!LotFilled(@)]
        /\ trades' = Append(trades, i) /\ net' = net + Account!Traded(i)
        /\ shown' = shown /\ Account!UnchangedClient
    BY <1>2, <1>11, Zenon DEF Account!KiteFills, Account!Is
  <2>2. PICK p : p = Account!LotFilled(o)
    OBVIOUS
  <2>3. orders' = [orders EXCEPT ![i] = p]
    BY <1>2, <2>1, <2>2
  <2>4. PICK s \in {"COMPLETE", "OPEN"} : /\ s = (IF o.filled + 1 = o.lots THEN "COMPLETE" ELSE o.status)
                                          /\ p = [o EXCEPT !.filled = o.filled + 1, !.status = s]
    BY <2>1, <2>2 DEF Account!LotFilled
  <2>5. o.filled + 1 \in 0..MaxLots /\ s \in Statuses
    <3>1. o.lots \in 1..MaxLots
      BY <1>4 DEF Rows
    <3>2. MaxLots \in Nat \ {0}
      BY ServicesAssumption, Zenon DEF Account!AccountAssumption
    <3>3. o.filled < o.lots
      BY <1>5, <2>1, Zenon
    <3>4. o.filled + 1 \in 0..MaxLots
      BY <1>4, <3>1, <3>2, <3>3
    <3>5. s \in Statuses
      BY <2>4 DEF Statuses
    <3>6. QED BY <3>4, <3>5
  <2>6. /\ p \in Rows /\ p.side = o.side /\ p.filled = o.filled + 1 /\ p.status = s /\ p.lots = o.lots
    BY <1>4, <2>4, <2>5 DEF Rows
  <2>7. RowIs(p)
    <3>1. p.filled <= p.lots /\ (s = "OPEN" => p.filled < p.lots) /\ (s = "COMPLETE" => p.filled = p.lots)
      BY <1>4, <1>5, <2>1, <2>4, <2>6
    <3>2. s \in {"OPEN", "COMPLETE", "CANCELLED"} /\ s # "TRIGGER PENDING"
      BY <2>4
    <3>3. QED BY <2>6, <3>1, <3>2, Zenon DEF RowIs
  <2>8. trades \in Seq(DOMAIN orders) /\ net \in Int
    <3>1. trades \in Seq(DOMAIN orders)
      BY <1>3, Zenon DEF Books
    <3>2. QED BY <1>3, <3>1, BooksPosition, Zenon
  <2>9. PICK one \in Nat : one = 1
    OBVIOUS
  <2>10. /\ trades' \in Seq(DOMAIN orders) /\ Len(trades') = Len(trades) + one
         /\ (\A k \in 1..Len(trades) : trades'[k] = trades[k])
         /\ \A k \in 1..one : trades'[Len(trades) + k] = i
    BY <1>1, <2>1, <2>8, <2>9
  <2>11. Books(orders', trades', net + o.side * one)
    <3>1. p.side = orders[i].side /\ p.filled = orders[i].filled + one
      BY <1>2, <2>6, <2>9, Zenon
    <3>2. Books([orders EXCEPT ![i] = p], trades', net + orders[i].side * one)
      BY <1>1, <1>3, <2>7, <2>10, <3>1, BooksTraded, Zenon
    <3>3. QED BY <1>2, <2>3, <3>2, Zenon
  <2>12. net' = net + o.side * one
    <3>1. net' = net + o.side
      BY <1>2, <2>1, Zenon DEF Account!Traded
    <3>2. o.side * one = o.side
      BY <1>4, <2>9
    <3>3. QED BY <3>1, <3>2, Zenon
  <2>13. /\ DOMAIN orders' = DOMAIN orders /\ Len(orders') = Len(orders)
         /\ \A j \in DOMAIN orders : orders'[j] = IF j = i THEN p ELSE orders[j]
    BY <1>3, <2>3, <2>6
  <2>14. orders[i].filled < orders'[i].filled
    BY <1>1, <1>2, <1>4, <2>6, <2>13
  <2>15. GrownFrom(orders, orders')
    <3>1. \A j \in DOMAIN orders : orders[j].filled \in Int
      <4>1. \A j \in DOMAIN orders : RowIs(orders[j])
        BY <1>3, Zenon DEF Books
      <4>2. QED BY <4>1, RowFields, Zenon
    <3>2. \A j \in DOMAIN orders : orders[j].filled <= orders'[j].filled
      BY <1>2, <1>4, <2>6, <2>13, <3>1
    <3>3. Len(orders) <= Len(orders')
      BY <1>3, <2>13
    <3>4. \A j \in DOMAIN orders : RowIs(orders[j])
      BY <1>3, Zenon DEF Books
    <3>5. QED BY <1>3, <3>2, <3>3, <3>4, Zenon DEF GrownFrom
  <2>16. broker' = broker /\ read' = read /\ view' = Account!NoView
    BY <2>1, Zenon DEF Account!UnchangedClient
  <2>17. broker # "paper"
    BY <2>1
  <2>18. Books(orders', trades', net')
    BY <2>11, <2>12, Zenon
  <2>19. Len(trades) <= Len(trades')
    BY <2>8, <2>9, <2>10
  <2>20. QED BY <1>1, <2>1, <2>14, <2>15, <2>16, <2>17, <2>18, <2>19, AccountMoves, Zenon
<1>12. QED BY <1>7, <1>8, <1>9, <1>10, <1>11

\* The row of a new order.
LEMMA PlacedIs ==
  ASSUME broker \in {"kite", "paper"}, NEW side \in {-1, 1}, NEW lots \in 1..MaxLots, NEW resting
  PROVE  /\ RowIs(Account!Placed(side, lots, resting))
         /\ Account!Placed(side, lots, resting).filled = 0
<1>1. PICK o : o = Account!Placed(side, lots, resting)
  OBVIOUS
<1>2. 0 \in 0..MaxLots /\ 0 <= lots /\ 0 < lots /\ ~(0 > 0) /\ 0 \in 0..2 /\ 1 \in 0..2 /\ 1 # 0
  <2>1. MaxLots \in Nat \ {0}
    BY ServicesAssumption, Zenon DEF Account!AccountAssumption
  <2>2. QED BY ONLY <2>1, lots \in 1..MaxLots
<1>3. PICK s, trigger :
        /\ o = [side |-> side, lots |-> lots, filled |-> 0, trigger |-> trigger, status |-> s]
        /\ trigger \in 0..2 /\ s \in Statuses /\ (s = "TRIGGER PENDING" => trigger # 0)
        /\ s # "COMPLETE"
  <2>1. {"TRIGGER PENDING", "OPEN PENDING", "OPEN"} \subseteq Statuses
        /\ "OPEN PENDING" # "TRIGGER PENDING" /\ "OPEN" # "TRIGGER PENDING"
        /\ "TRIGGER PENDING" # "COMPLETE" /\ "OPEN PENDING" # "COMPLETE" /\ "OPEN" # "COMPLETE"
    BY ONLY SMT DEF Statuses
  <2>2. CASE resting
    BY <1>1, <1>2, <2>1, <2>2 DEF Account!Placed
  <2>3. CASE ~resting /\ broker = "kite"
    BY <1>1, <1>2, <2>1, <2>3 DEF Account!Placed
  <2>4. CASE ~resting /\ broker = "paper"
    BY <1>1, <1>2, <2>1, <2>4 DEF Account!Placed
  <2>5. QED BY <2>2, <2>3, <2>4, Zenon
<1>4. /\ o \in Rows /\ o.filled = 0 /\ o.lots = lots /\ o.status = s /\ o.trigger = trigger
  BY <1>2, <1>3 DEF Rows
<1>5. o.filled <= o.lots /\ o.filled < o.lots /\ ~(o.filled > 0)
  BY <1>2, <1>4, Zenon
<1>6. (o.status = "TRIGGER PENDING" => o.trigger # 0) /\ o.status # "COMPLETE"
  BY <1>3, <1>4, Zenon
<1>7. QED BY <1>1, <1>4, <1>5, <1>6, Zenon DEF RowIs

\* An order is placed.
LEMMA AccountPlaceKeeps == AccountInv /\ Account!PlacesOrder => AccountInv'
<1>1. SUFFICES ASSUME AccountInv, Account!PlacesOrder PROVE AccountInv'
  OBVIOUS
<1>2. /\ trades' = trades /\ net' = net /\ shown' = shown
      /\ broker' = broker /\ read' = read /\ view' = Account!NoView
  BY <1>1, Zenon DEF Account!PlacesOrder, Account!UnchangedClient
<1>3. broker \in {"kite", "paper"} /\ Books(orders, trades, net) /\ orders \in Seq(Rows)
  BY <1>1, Zenon DEF AccountInv, Books
<1>4. PICK o : orders' = Append(orders, o) /\ RowIs(o) /\ o.filled = 0
  <2>1. \E side \in {-1, 1}, lots \in 1..MaxLots, resting \in BOOLEAN :
          orders' = Append(orders, Account!Placed(side, lots, resting))
    BY <1>1, Zenon DEF Account!PlacesOrder
  <2>2. QED BY <1>3, <2>1, PlacedIs, Zenon
<1>5. Books(orders', trades', net') /\ GrownFrom(orders, orders')
  BY <1>2, <1>3, <1>4, BooksPlaced, Zenon
<1>6. broker = "paper" => \A j \in DOMAIN orders' : orders'[j].status = "OPEN" => orders'[j].filled = 0
  <2>1. broker = "paper" => \A j \in DOMAIN orders : orders[j].status = "OPEN" => orders[j].filled = 0
    BY <1>1, Zenon DEF AccountInv
  <2>2. \A j \in DOMAIN orders' : (j \in DOMAIN orders /\ orders'[j] = orders[j]) \/ orders'[j] = o
    <3>1. PICK new : new = orders'
      OBVIOUS
    <3>2. new = Append(orders, o)
      BY <1>4, <3>1, Zenon
    <3>3. o \in Rows
      BY <1>4, Zenon DEF RowIs
    <3>4. \A j \in DOMAIN new : (j \in DOMAIN orders /\ new[j] = orders[j]) \/ new[j] = o
      <4>1. PICK k \in Nat : k = Len(orders) /\ DOMAIN orders = 1..k
        BY <1>3
      <4>2. DOMAIN new = 1..(k + 1) /\ (\A j \in 1..k : new[j] = orders[j]) /\ new[k + 1] = o
        BY <1>3, <3>2, <3>3, <4>1
      <4>3. \A j \in 1..(k + 1) : j \in 1..k \/ j = k + 1
        OBVIOUS
      <4>4. QED BY <4>1, <4>2, <4>3, Zenon
    <3>5. QED BY <3>1, <3>4, Zenon
  <2>3. QED BY <1>4, <2>1, <2>2, Zenon
<1>7. Len(trades) <= Len(trades')
  <2>1. trades \in Seq(DOMAIN orders)
    BY <1>3, Zenon DEF Books
  <2>2. Len(trades) <= Len(trades)
    BY <2>1
  <2>3. QED BY <1>2, <2>2, Zenon
<1>8. QED BY <1>1, <1>2, <1>5, <1>6, <1>7, AccountMoves, Zenon

\* The mock answers a snapshot.
LEMMA AccountMockKeeps == AccountInv /\ Account!MockSnapshot => AccountInv'
<1>1. SUFFICES ASSUME AccountInv, Account!MockSnapshot PROVE AccountInv'
  OBVIOUS
<1>2. /\ broker = "paper" /\ broker' = broker
      /\ orders' = Account!FilledOpen(orders)
      /\ trades' = trades \o Account!OpenTrades(orders)
      /\ view' = [taken |-> TRUE, orders |-> orders', trades |-> trades', net |-> net',
                  why |-> read.why, settled |-> TRUE]
  BY <1>1 DEF Account!MockSnapshot, Account!Accepts
<1>3. net' = net + Total(SignedLots(orders))
  <2>1. Account!Total(SignedLots(orders)) = Total(SignedLots(orders))
    BY Zenon DEF Account!Total, Total
  <2>2. net' = net + Account!Total(SignedLots(orders))
    BY <1>1, Zenon DEF Account!MockSnapshot, SignedLots
  <2>3. QED BY <2>1, <2>2, Zenon
<1>4. Books(orders, trades, net) /\ \A i \in DOMAIN orders : orders[i].status = "OPEN" => orders[i].filled = 0
  BY <1>1, <1>2, Zenon DEF AccountInv
<1>5. /\ Books(orders', trades', net')
      /\ \A i \in DOMAIN orders' : orders'[i].status # "OPEN"
  BY <1>2, <1>3, <1>4, MockFills, Zenon
<1>6. view'.orders = orders' /\ view'.trades = trades' /\ view'.net = net'
  BY <1>2
<1>7. broker' = "paper" /\ broker' # "kite" /\ broker' \in {"kite", "paper"}
  BY <1>2
<1>8. ViewIs(view', orders', trades', net')
  <2>1. orders' \in Seq(Rows) /\ \A i \in DOMAIN orders' : RowIs(orders'[i])
    BY <1>5, Zenon DEF Books
  <2>2. QED BY <1>6, <2>1, Zenon DEF ViewIs
<1>9. QED BY <1>5, <1>7, <1>8, Zenon DEF AccountInv

\* Kite's books show more of what has happened.
LEMMA AccountShowKeeps == AccountInv /\ Account!KiteShows => AccountInv'
<1>1. SUFFICES ASSUME AccountInv, Account!KiteShows PROVE AccountInv'
  OBVIOUS
<1>2. /\ broker = "kite" /\ UNCHANGED <<orders, trades, net>>
      /\ broker' = broker /\ read' = read /\ view' = Account!NoView
  BY <1>1, Zenon DEF Account!KiteShows, Account!UnchangedClient
<1>3. /\ orders \in Seq(Rows) /\ (\A j \in DOMAIN orders : RowIs(orders[j]))
      /\ trades \in Seq(DOMAIN orders)
  BY <1>1, Zenon DEF AccountInv, Books
<1>4. /\ shown \in Books3 /\ GrownFrom(shown.orders, orders)
      /\ shown.trades <= Len(trades) /\ shown.position <= shown.trades
  BY <1>1, <1>2, Zenon DEF AccountInv, ShownIs
<1>5. PICK b, b2, all : b = shown /\ b2 = shown' /\ all = Seq(Rows)
  OBVIOUS
<1>6. PICK count \in Nat : count = Len(trades)
  BY <1>3
<1>7. /\ b \in [orders : all, trades : Nat, position : Nat]
      /\ b.trades <= count /\ b.position <= b.trades
  BY <1>4, <1>5, <1>6, Zenon DEF Books3
<1>8. \/ \E i \in DOMAIN orders :
           /\ i <= Len(b.orders) + 1
           /\ b2 = [b EXCEPT !.orders = IF i \in DOMAIN @ THEN [@ EXCEPT ![i] = orders[i]]
                                        ELSE Append(@, orders[i])]
      \/ b.trades < count /\ b2 = [b EXCEPT !.trades = @ + 1]
      \/ b.position < b.trades /\ b2 = [b EXCEPT !.position = @ + 1]
  BY <1>1, <1>5, <1>6, Zenon DEF Account!KiteShows
<1>9. /\ b2 \in [orders : all, trades : Nat, position : Nat] /\ GrownFrom(b2.orders, orders)
      /\ b2.trades <= count /\ b2.position <= b2.trades
      /\ \/ b2.trades = b.trades /\ b2.position = b.position
         \/ b.trades < count
         \/ b.position < count
  <2>1. ASSUME NEW i \in DOMAIN orders, i <= Len(b.orders) + 1,
               b2 = [b EXCEPT !.orders = IF i \in DOMAIN @ THEN [@ EXCEPT ![i] = orders[i]]
                                         ELSE Append(@, orders[i])]
        PROVE  /\ b2 \in [orders : all, trades : Nat, position : Nat] /\ GrownFrom(b2.orders, orders)
               /\ b2.trades <= count /\ b2.position <= b2.trades
               /\ b2.trades = b.trades /\ b2.position = b.position
    <3>1. PICK rows, rows2 : /\ rows = b.orders
                             /\ rows2 = IF i \in DOMAIN rows THEN [rows EXCEPT ![i] = orders[i]]
                                        ELSE Append(rows, orders[i])
      OBVIOUS
    <3>2. /\ rows \in Seq(Rows) /\ Len(rows) <= Len(orders)
          /\ \A j \in DOMAIN rows : RowIs(rows[j]) /\ rows[j].filled <= orders[j].filled
      BY <1>4, <1>5, <3>1, Zenon DEF GrownFrom
    <3>3. PICK row : row = orders[i]
      OBVIOUS
    <3>4. RowIs(row) /\ row \in Rows /\ row.filled \in Int
      BY <1>3, <3>3, RowFields, Zenon
    <3>5. PICK k \in Nat, l \in Nat : k = Len(rows) /\ l = Len(orders) /\ k <= l
                                      /\ DOMAIN rows = 1..k /\ DOMAIN orders = 1..l
      <4>1. rows \in Seq(Rows) /\ Len(rows) <= Len(orders) /\ orders \in Seq(Rows)
        BY <1>3, <3>2, Zenon
      <4>2. QED BY ONLY <4>1
    <3>6. i \in 1..l /\ i <= k + 1
      BY <2>1, <3>1, <3>5, Zenon
    <3>7. /\ rows2 \in Seq(Rows) /\ Len(rows2) <= l
          /\ \A j \in DOMAIN rows2 : (j \in 1..k /\ rows2[j] = rows[j]) \/ (j = i /\ rows2[j] = row)
      <4>1. CASE i \in 1..k
        <5>1. rows2 = [rows EXCEPT ![i] = row]
          BY <3>1, <3>3, <3>5, <4>1, Zenon
        <5>2. rows2 \in Seq(Rows) /\ Len(rows2) = k /\ DOMAIN rows2 = 1..k
              /\ \A j \in 1..k : rows2[j] = IF j = i THEN row ELSE rows[j]
          BY ONLY <3>2, <3>4, <3>5, <4>1, <5>1
        <5>3. QED BY ONLY <3>5, <5>2
      <4>2. CASE i \notin 1..k
        <5>1. rows2 = Append(rows, row)
          BY <3>1, <3>3, <3>5, <4>2, Zenon
        <5>2. rows2 \in Seq(Rows) /\ Len(rows2) = k + 1 /\ DOMAIN rows2 = 1..(k + 1)
              /\ (\A j \in 1..k : rows2[j] = rows[j]) /\ rows2[k + 1] = row
          BY ONLY <3>2, <3>4, <3>5, <5>1
        <5>3. i = k + 1 /\ k + 1 <= l /\ \A j \in 1..(k + 1) : j \in 1..k \/ j = k + 1
          BY ONLY <3>5, <3>6, <4>2
        <5>4. QED BY <5>2, <5>3, Zenon
      <4>3. QED BY <4>1, <4>2
    <3>8. \A j \in DOMAIN rows2 : RowIs(rows2[j]) /\ rows2[j].filled <= orders[j].filled
      <4>1. row.filled <= orders[i].filled
        BY ONLY <3>3, <3>4
      <4>2. QED BY <3>2, <3>4, <3>5, <3>7, <4>1, Zenon
    <3>9. GrownFrom(rows2, orders)
      BY <3>5, <3>7, <3>8, Zenon DEF GrownFrom
    <3>10. b2 = [b EXCEPT !.orders = rows2]
      BY <1>7, <2>1, <3>1
    <3>11. rows2 \in all
      BY <1>5, <3>7, Zenon
    <3>12. /\ b2 \in [orders : all, trades : Nat, position : Nat] /\ b2.orders = rows2
           /\ b2.trades = b.trades /\ b2.position = b.position
      BY ONLY <1>7, <3>10, <3>11
    <3>13. QED BY <1>7, <3>9, <3>12, Zenon
  <2>2. GrownFrom(b.orders, orders)
    BY <1>4, <1>5, Zenon
  <2>3. CASE b.trades < count /\ b2 = [b EXCEPT !.trades = @ + 1]
    <3>1. /\ b2 \in [orders : all, trades : Nat, position : Nat] /\ b2.orders = b.orders
          /\ b2.trades <= count /\ b2.position <= b2.trades
      BY ONLY <1>6, <1>7, <2>3
    <3>2. QED BY <2>2, <2>3, <3>1, Zenon
  <2>4. CASE b.position < b.trades /\ b2 = [b EXCEPT !.position = @ + 1]
    <3>1. /\ b2 \in [orders : all, trades : Nat, position : Nat] /\ b2.orders = b.orders
          /\ b2.trades <= count /\ b2.position <= b2.trades /\ b.position < count
      BY ONLY <1>6, <1>7, <2>4
    <3>2. QED BY <2>2, <3>1, Zenon
  <2>5. QED BY <1>8, <2>1, <2>3, <2>4, Zenon
<1>10. ShownIs(shown', orders, trades)
  BY <1>5, <1>6, <1>9, Zenon DEF ShownIs, Books3
<1>11. ASSUME read # Account!NoRead
       PROVE  ReadIs(read, orders, trades, net, b2.trades, b2.position)
  <2>1. ReadIs(read, orders, trades, net, b.trades, b.position)
    BY <1>1, <1>2, <1>5, <1>11, Zenon DEF AccountInv
  <2>2. b.trades = count /\ b.position = count => b2.trades = count /\ b2.position = count
    BY <1>7, <1>9
  <2>3. QED BY <1>6, <2>1, <2>2, Zenon DEF ReadIs
<1>12. view'.taken = FALSE
  BY <1>2 DEF Account!NoView
<1>13. Account!NoRead' = Account!NoRead
  BY Zenon DEF Account!NoRead
<1>14. orders' = orders /\ trades' = trades /\ net' = net
  BY <1>2
<1>15. QED BY <1>1, <1>2, <1>5, <1>10, <1>11, <1>12, <1>13, <1>14, Zenon DEF AccountInv

\* A read that begins, or begins again, has nothing of the books yet.
LEMMA ReadBegins ==
  ASSUME NEW r, r.at = "first", NEW os, NEW ts, NEW n, NEW k, NEW m
  PROVE  ReadIs(r, os, ts, n, k, m)
<1>1. r.at \notin {"trades", "positions", "again"}
  OBVIOUS
<1>2. r.at \notin {"positions", "again"} /\ r.at # "again"
  OBVIOUS
<1>3. QED BY <1>1, <1>2, Zenon DEF ReadIs

\* A read that is tried again or ends.
LEMMA AccountRetryKeeps ==
  ASSUME AccountInv, Account!Retried \/ read' = Account!NoRead,
         broker' = broker, UNCHANGED <<orders, trades, net, shown>>, view' = Account!NoView
  PROVE  AccountInv'
<1>1. read' = Account!NoRead \/ read' = [Account!Reading(read.why) EXCEPT !.attempt = read.attempt + 1]
  BY Zenon DEF Account!Retried
<1>2. read' = Account!NoRead \/ read'.at = "first"
  BY <1>1 DEF Account!Reading
<1>3. read' = Account!NoRead \/ ReadIs(read', orders, trades, net, shown.trades, shown.position)
  BY <1>2, ReadBegins, Zenon
<1>4. view'.taken = FALSE
  BY DEF Account!NoView
<1>5. QED BY <1>3, <1>4, AccountStands, Zenon

\* The order book is read a second time.
LEMMA AccountReadAgainKeeps == AccountInv /\ Account!ReadAgain => AccountInv'
<1>1. SUFFICES ASSUME AccountInv, Account!ReadAgain PROVE AccountInv'
  OBVIOUS
<1>2. /\ read # Account!NoRead /\ broker = "kite" /\ read.at = "again"
      /\ broker' = broker /\ UNCHANGED <<orders, trades, net, shown>>
  BY <1>1, Zenon DEF Account!ReadAgain, Account!At, Account!accountVars
<1>3. CASE Account!Same(read.first, shown.orders)
  <2>1. /\ read' = Account!NoRead
        /\ view' = [taken |-> TRUE, orders |-> read.first, trades |-> read.trades, net |-> read.net,
                    why |-> read.why, settled |-> read.settled /\ Account!CaughtUp]
    BY <1>1, <1>3 DEF Account!ReadAgain, Account!Accepts
  <2>2. read.first = shown.orders
    BY <1>3, Zenon DEF Account!Same
  <2>3. ReadIs(read, orders, trades, net, shown.trades, shown.position)
    BY <1>1, <1>2, Zenon DEF AccountInv
  <2>4. read.at \in {"trades", "positions", "again"} /\ read.at \in {"positions", "again"}
    BY <1>2
  <2>5. read.first \in Seq(Rows) /\ \A i \in DOMAIN read.first : RowIs(read.first[i])
    BY <2>3, <2>4, Zenon DEF ReadIs, GrownFrom
  <2>6. /\ view'.orders = read.first /\ view'.trades = read.trades /\ view'.net = read.net
        /\ view'.settled = (read.settled /\ Account!CaughtUp)
    BY <2>1, Zenon
  <2>7. ASSUME read.settled, Account!CaughtUp
        PROVE  read.first = orders /\ read.trades = trades /\ read.net = net
    <3>1. shown = [orders |-> orders, trades |-> Len(trades), position |-> Len(trades)]
      BY <2>7, Zenon DEF Account!CaughtUp
    <3>2. shown.orders = orders
      BY <3>1
    <3>3. Still(read.first, orders)
      BY <2>2, <3>2, Zenon DEF Still
    <3>4. QED BY <1>2, <2>2, <2>3, <2>4, <2>7, <3>2, <3>3, Zenon DEF ReadIs
  <2>8. ViewIs(view', orders, trades, net)
    BY <2>5, <2>6, <2>7, Zenon DEF ViewIs
  <2>9. QED BY <1>1, <1>2, <2>1, <2>8, AccountStands, Zenon
<1>4. CASE ~Account!Same(read.first, shown.orders)
  <2>1. Account!Retried /\ view' = Account!NoView
    BY <1>1, <1>4, Zenon DEF Account!ReadAgain
  <2>2. QED BY <1>1, <1>2, <2>1, AccountRetryKeeps, Zenon
<1>5. QED BY <1>3, <1>4

\* A step of a read that goes on.
LEMMA AccountReadKeeps ==
  AccountInv /\ (Account!ReadFirst \/ Account!ReadTrades \/ Account!ReadPositions) => AccountInv'
<1>1. SUFFICES ASSUME AccountInv, Account!ReadFirst \/ Account!ReadTrades \/ Account!ReadPositions
               PROVE  AccountInv'
  OBVIOUS
<1>2. /\ read # Account!NoRead /\ broker = "kite"
      /\ broker' = broker /\ UNCHANGED <<orders, trades, net, shown>> /\ view' = Account!NoView
  BY <1>1, Zenon DEF Account!ReadFirst, Account!ReadTrades, Account!ReadPositions, Account!At,
    Account!accountVars
<1>3. view'.taken = FALSE
  BY <1>2 DEF Account!NoView
<1>4. /\ ReadIs(read, orders, trades, net, shown.trades, shown.position)
      /\ ShownIs(shown, orders, trades)
  BY <1>1, <1>2, Zenon DEF AccountInv
<1>5. PICK k, m : k = shown.trades /\ m = shown.position
  OBVIOUS
<1>6. trades \in Seq(DOMAIN orders) /\ net = Total(SidesOf(orders, trades))
  BY <1>1, Zenon DEF AccountInv, Books
<1>7. CASE Account!ReadFirst
  <2>1. read' = [why |-> read.why, attempt |-> read.attempt, at |-> "trades",
                 first |-> shown.orders, settled |-> Account!CaughtUp]
    BY <1>7, Zenon DEF Account!ReadFirst
  <2>2. read'.at = "trades" /\ read'.first = shown.orders /\ read'.settled = Account!CaughtUp
    BY <2>1, Zenon
  <2>3. GrownFrom(shown.orders, orders)
    BY <1>4, Zenon DEF ShownIs
  <2>4. Account!CaughtUp => k = Len(trades) /\ m = Len(trades)
    <3>1. Account!CaughtUp => shown = [orders |-> orders, trades |-> Len(trades), position |-> Len(trades)]
      BY Zenon DEF Account!CaughtUp
    <3>2. QED BY <1>5, <3>1
  <2>5. read'.at \notin {"positions", "again"} /\ read'.at # "again"
    BY <2>2
  <2>6. ReadIs(read', orders, trades, net, k, m)
    BY <2>2, <2>3, <2>4, <2>5, Zenon DEF ReadIs
  <2>7. QED BY <1>1, <1>2, <1>3, <1>5, <2>6, AccountStands, Zenon
<1>8. CASE Account!ReadTrades
  <2>1. /\ read' = [why |-> read.why, attempt |-> read.attempt, at |-> "positions",
                    first |-> read.first, settled |-> read.settled,
                    trades |-> SubSeq(trades, 1, k)]
        /\ read.at = "trades"
    BY <1>5, <1>8, Zenon DEF Account!ReadTrades, Account!At
  <2>2. /\ read'.at = "positions" /\ read'.first = read.first /\ read'.settled = read.settled
        /\ read'.trades = SubSeq(trades, 1, k)
    BY <2>1, Zenon
  <2>3. /\ GrownFrom(read.first, orders)
        /\ read.settled /\ Still(read.first, orders) => k = Len(trades) /\ m = Len(trades)
    <3>1. read.at \in {"trades", "positions", "again"}
      BY <2>1
    <3>2. QED BY <1>4, <1>5, <3>1, Zenon DEF ReadIs
  <2>4. k = Len(trades) => SubSeq(trades, 1, k) = trades
    BY <1>6
  <2>5. read'.at # "again"
    BY <2>2
  <2>6. ReadIs(read', orders, trades, net, k, m)
    BY <2>2, <2>3, <2>4, <2>5, Zenon DEF ReadIs
  <2>7. QED BY <1>1, <1>2, <1>3, <1>5, <2>6, AccountStands, Zenon
<1>9. CASE Account!ReadPositions
  <2>1. PICK position : position = Account!Total([q \in 1..m |-> orders[trades[q]].side])
    OBVIOUS
  <2>2. /\ read' = [why |-> read.why, attempt |-> read.attempt, at |-> "again",
                    first |-> read.first, settled |-> read.settled, trades |-> read.trades,
                    net |-> position]
        /\ read.at = "positions"
    BY <1>5, <1>9, <2>1, Zenon DEF Account!ReadPositions, Account!At
  <2>3. /\ read'.first = read.first /\ read'.settled = read.settled
        /\ read'.trades = read.trades /\ read'.net = position
    BY <2>2, Zenon
  <2>4. /\ GrownFrom(read.first, orders)
        /\ read.settled /\ Still(read.first, orders) =>
             k = Len(trades) /\ m = Len(trades) /\ read.trades = trades
    <3>1. read.at \in {"trades", "positions", "again"} /\ read.at \in {"positions", "again"}
      BY <2>2
    <3>2. QED BY <1>4, <1>5, <3>1, Zenon DEF ReadIs
  <2>5. m = Len(trades) => position = net
    <3>1. 1..Len(trades) = DOMAIN trades
      BY <1>6
    <3>2. Account!Total(SidesOf(orders, trades)) = Total(SidesOf(orders, trades))
      BY Zenon DEF Account!Total, Total
    <3>3. m = Len(trades) => [q \in 1..m |-> orders[trades[q]].side] = SidesOf(orders, trades)
      BY <3>1, Zenon DEF SidesOf
    <3>4. QED BY <1>6, <2>1, <3>2, <3>3, Zenon
  <2>6. ReadIs(read', orders, trades, net, k, m)
    BY <2>3, <2>4, <2>5, Zenon DEF ReadIs
  <2>7. QED BY <1>1, <1>2, <1>3, <1>5, <2>6, AccountStands, Zenon
<1>10. QED BY <1>1, <1>7, <1>8, <1>9

\* A read begins.
LEMMA AccountAsksKeeps == AccountInv /\ (Account!Connect \/ Account!AsksStatus) => AccountInv'
<1>1. SUFFICES ASSUME AccountInv, Account!Connect \/ Account!AsksStatus PROVE AccountInv'
  OBVIOUS
<1>2. broker' = broker /\ UNCHANGED <<orders, trades, net, shown>> /\ view' = Account!NoView
  BY <1>1, Zenon DEF Account!Connect, Account!AsksStatus, Account!accountVars
<1>3. \/ read' = Account!NoRead
      \/ read' = Account!Reading("connect")
      \/ read' = Account!Reading("status")
  BY <1>1, Zenon DEF Account!Connect, Account!AsksStatus
<1>4. read' = Account!NoRead \/ read'.at = "first"
  BY <1>3 DEF Account!Reading
<1>5. read' = Account!NoRead \/ ReadIs(read', orders, trades, net, shown.trades, shown.position)
  BY <1>4, ReadBegins, Zenon
<1>6. view'.taken = FALSE
  BY <1>2 DEF Account!NoView
<1>7. QED BY <1>1, <1>2, <1>5, <1>6, AccountStands, Zenon

\* Every step keeps the invariant.
LEMMA AccountSteps == AccountInv /\ [Next]_vars => AccountInv'
<1>1. SUFFICES ASSUME AccountInv, [Next]_vars PROVE AccountInv'
  OBVIOUS
<1>2. CASE ~AccountStep
  <2>1. UNCHANGED accountVars
    BY <1>1, <1>2, Zenon DEF Next, BudgetStep, DashStep, SatsStep, StopStep, vars
  <2>2. broker' = broker /\ UNCHANGED <<orders, trades, net, shown>> /\ read' = read /\ view' = view
    BY <2>1, Zenon DEF accountVars
  <2>3. broker = "kite" =>
          read' = Account!NoRead \/ ReadIs(read', orders, trades, net, shown.trades, shown.position)
    BY <1>1, <2>2, Zenon DEF AccountInv
  <2>4. view'.taken => ViewIs(view', orders, trades, net)
    BY <1>1, <2>2, Zenon DEF AccountInv
  <2>5. QED BY <1>1, <2>2, <2>3, <2>4, AccountStands, Zenon
<1>3. CASE AccountStep
  <2>1. Account!Next
    BY <1>3, Zenon DEF AccountStep
  <2>2. CASE Account!Account
    <3>1. CASE Account!PlacesOrder
      BY <1>1, <3>1, AccountPlaceKeeps, Zenon
    <3>2. ASSUME NEW i \in 1..MaxOrders,
                 \/ Account!CancelsOrder(i) \/ Account!ModifiesStop(i)
                 \/ Account!KiteAnswers(i) \/ Account!KiteTriggers(i) \/ Account!KiteFills(i)
          PROVE  AccountInv'
      BY <1>1, <3>2, AccountOrderKeeps, Zenon
    <3>3. CASE Account!KiteShows
      BY <1>1, <3>3, AccountShowKeeps, Zenon
    <3>4. QED BY <2>2, <3>1, <3>2, <3>3, Zenon DEF Account!Account
  <2>3. CASE Account!Connect \/ Account!AsksStatus
    BY <1>1, <2>3, AccountAsksKeeps, Zenon
  <2>4. CASE Account!MockSnapshot
    BY <1>1, <2>4, AccountMockKeeps, Zenon
  <2>5. CASE Account!ReadFirst \/ Account!ReadTrades \/ Account!ReadPositions
    BY <1>1, <2>5, AccountReadKeeps, Zenon
  <2>6. CASE Account!ReadAgain
    BY <1>1, <2>6, AccountReadAgainKeeps, Zenon
  <2>7. CASE Account!ReadFails
    <3>1. /\ Account!Retried \/ read' = Account!NoRead
          /\ broker' = broker /\ UNCHANGED <<orders, trades, net, shown>> /\ view' = Account!NoView
      BY <2>7, Zenon DEF Account!ReadFails, Account!accountVars
    <3>2. QED BY <1>1, <3>1, AccountRetryKeeps, Zenon
  <2>8. QED BY <2>1, <2>2, <2>3, <2>4, <2>5, <2>6, <2>7, Zenon DEF Account!Next, Account!Reader
<1>4. QED BY <1>2, <1>3

\* An order without a trigger has a report.
LEMMA ReportIs ==
  ASSUME NEW o, RowIs(o), o.trigger = 0
  PROVE  Account!ReportedStatus(o) # "none"
<1>1. o \in Rows /\ o.filled \in Int /\ o.filled >= 0 /\ o.lots \in Nat \ {0}
  BY RowFields, Zenon
<1>2. PICK s, f, l : s = o.status /\ f = o.filled /\ l = o.lots
  OBVIOUS
<1>3. s \in Statuses
  BY <1>1, <1>2 DEF Rows
<1>4. /\ f \in Int /\ f >= 0 /\ l \in Nat \ {0} /\ s # "TRIGGER PENDING"
      /\ (f > 0 => s \in {"OPEN", "COMPLETE", "CANCELLED"}) /\ (s = "OPEN" => f < l) /\ (s = "COMPLETE" => f = l)
  BY <1>1, <1>2, Zenon DEF RowIs
<1>5. /\ s \in {"OPEN PENDING", "OPEN", "COMPLETE", "CANCELLED", "REJECTED"}
      /\ f = 0 \/ f > 0
  <2>1. s \in {"OPEN PENDING", "OPEN", "COMPLETE", "CANCELLED", "REJECTED"}
    BY ONLY <1>3, <1>4 DEF Statuses
  <2>2. f \in Int /\ f >= 0
    BY <1>4, Zenon
  <2>3. f = 0 \/ f > 0
    BY ONLY <2>2
  <2>4. QED BY <2>1, <2>3
<1>6. CASE s = "OPEN" /\ f = 0
  BY <1>2, <1>6 DEF Account!ReportedStatus
<1>7. CASE s = "OPEN" /\ f > 0
  <2>1. 0 < f /\ f < l
    BY <1>4, <1>7
  <2>2. QED BY <1>2, <1>7, <2>1 DEF Account!ReportedStatus
<1>8. CASE s = "OPEN PENDING"
  <2>1. f = 0
    BY <1>4, <1>5, <1>8
  <2>2. QED BY <1>2, <1>8, <2>1 DEF Account!ReportedStatus
<1>9. CASE s = "COMPLETE"
  <2>1. f = l
    BY <1>4, <1>9
  <2>2. QED BY <1>2, <1>9, <2>1 DEF Account!ReportedStatus
<1>10. CASE s = "CANCELLED"
  BY <1>2, <1>10 DEF Account!ReportedStatus
<1>11. CASE s = "REJECTED"
  <2>1. f = 0
    BY <1>4, <1>5, <1>11
  <2>2. QED BY <1>2, <1>11, <2>1 DEF Account!ReportedStatus
<1>12. QED BY <1>5, <1>6, <1>7, <1>8, <1>9, <1>10, <1>11

\* What the invariant says of a snapshot that is accepted.
LEMMA AccountShows == AccountInv => ViewAddsUp
<1>1. SUFFICES ASSUME AccountInv PROVE ViewAddsUp
  OBVIOUS
<1>2. SUFFICES ASSUME view.taken PROVE
        /\ view.settled =>
             /\ view.orders = orders /\ view.trades = trades /\ view.net = net
             /\ Account!Grouped(view) /\ Account!PositionIn(view) = Account!FilledIn(view)
             /\ view.why = "status" =>
                  (Account!Reports(view) <=> \A i \in DOMAIN view.orders : view.orders[i].trigger = 0)
        /\ Account!Reports(view) =>
             \A i \in DOMAIN view.orders :
               Account!Cardinality(Account!TradesOf(view, i)) = view.orders[i].filled
        /\ \A i \in DOMAIN view.orders, total \in Charges :
             \A worth \in [1..view.orders[i].filled -> Prices] :
               \A k \in DOMAIN worth : Account!Share(total, worth, k) \in 0..total
  BY Zenon DEF ViewAddsUp, Account!ViewAddsUp
<1>3. PICK os, ts, n : os = view.orders /\ ts = view.trades /\ n = view.net
  OBVIOUS
<1>4. /\ os \in Seq(Rows) /\ (\A j \in DOMAIN os : RowIs(os[j]))
      /\ view.settled => os = orders /\ ts = trades /\ n = net
  BY <1>1, <1>2, <1>3, Zenon DEF AccountInv, ViewIs
<1>5. \A i : Account!TradesOf(view, i) = PlacesOf(ts, i)
  BY <1>3, Zenon DEF Account!TradesOf, PlacesOf
<1>6. \A S : Account!Cardinality(S) = Cardinality(S)
  BY Zenon DEF Account!Cardinality, Cardinality
<1>7. ASSUME view.settled
      PROVE  /\ view.orders = orders /\ view.trades = trades /\ view.net = net
             /\ Account!Grouped(view) /\ Account!PositionIn(view) = Account!FilledIn(view)
             /\ Account!Reports(view) <=> \A i \in DOMAIN view.orders : view.orders[i].trigger = 0
  <2>1. Books(os, ts, n)
    BY <1>1, <1>4, <1>7, Zenon DEF AccountInv
  <2>2. /\ ts \in Seq(DOMAIN os)
        /\ (\A j \in DOMAIN os : Cardinality(PlacesOf(ts, j)) = os[j].filled)
        /\ n = Total(SidesOf(os, ts))
    BY <2>1, Zenon DEF Books
  <2>3. Account!Grouped(view)
    <3>1. ASSUME NEW k \in DOMAIN ts
          PROVE  /\ ts[k] \in DOMAIN os /\ Cardinality(PlacesOf(ts, ts[k])) = os[ts[k]].filled
                 /\ os[ts[k]].status \in {"OPEN", "COMPLETE", "CANCELLED"}
      <4>1. PICK i : i = ts[k]
        OBVIOUS
      <4>2. i \in DOMAIN os
        BY <2>2, <4>1
      <4>3. PICK S : S = PlacesOf(ts, i)
        OBVIOUS
      <4>4. k \in S /\ S \subseteq DOMAIN ts
        BY <4>1, <4>3 DEF PlacesOf
      <4>5. IsFiniteSet(S)
        <5>1. PICK m \in Nat : DOMAIN ts = 1..m
          BY <2>2
        <5>2. IsFiniteSet(1..m)
          BY FS_Interval
        <5>3. QED BY <4>4, <5>1, <5>2, FS_Subset
      <4>6. Cardinality(S) \in Nat /\ Cardinality(S) # 0
        BY ONLY <4>4, <4>5, FS_CardinalityType, FS_EmptySet
      <4>7. RowIs(os[i]) /\ Cardinality(S) = os[i].filled
        BY <1>4, <2>2, <4>2, <4>3, Zenon
      <4>8. os[i].filled > 0
        BY ONLY <4>6, <4>7
      <4>9. os[i].status \in {"OPEN", "COMPLETE", "CANCELLED"}
        BY <4>7, <4>8, Zenon DEF RowIs
      <4>10. QED BY <4>1, <4>2, <4>3, <4>7, <4>9, Zenon
    <3>2. ASSUME NEW i \in {view.trades[k] : k \in DOMAIN view.trades}
          PROVE  /\ i \in DOMAIN view.orders
                 /\ Account!Cardinality(Account!TradesOf(view, i)) = view.orders[i].filled
                 /\ view.orders[i].status \in {"OPEN", "COMPLETE", "CANCELLED"}
      <4>1. PICK k \in DOMAIN ts : i = ts[k]
        BY <1>3, <3>2, Zenon
      <4>2. Account!Cardinality(Account!TradesOf(view, i)) = Cardinality(PlacesOf(ts, i))
        BY <1>5, <1>6, Zenon
      <4>3. QED BY <1>3, <3>1, <4>1, <4>2, Zenon
    <3>3. QED BY <3>2, Zenon DEF Account!Grouped
  <2>4. Account!PositionIn(view) = Account!FilledIn(view)
    <3>1. \A v : Account!Total(v) = Total(v)
      BY Zenon DEF Account!Total, Total
    <3>2. QED BY <1>3, <2>2, <3>1, Zenon DEF Account!PositionIn, Account!FilledIn, SidesOf
  <2>5. Account!Reports(view) <=> \A i \in DOMAIN view.orders : view.orders[i].trigger = 0
    <3>1. ASSUME NEW i \in DOMAIN os PROVE Account!Reportable(os[i]) <=> os[i].trigger = 0
      BY <1>4, ReportIs, Zenon DEF Account!Reportable
    <3>2. ASSUME NEW i \in DOMAIN os, os[i].filled > 0 PROVE Account!TradesOf(view, i) # {}
      <4>1. Cardinality(PlacesOf(ts, i)) = os[i].filled
        BY <2>2, Zenon
      <4>2. PICK S : S = PlacesOf(ts, i)
        OBVIOUS
      <4>3. Cardinality(S) > 0
        BY <3>2, <4>1, <4>2, Zenon
      <4>4. S # {}
        <5>1. Cardinality({}) = 0
          BY FS_EmptySet, Zenon
        <5>2. QED BY ONLY <4>3, <5>1
      <4>5. QED BY <1>5, <4>2, <4>4, Zenon
    <3>3. QED BY <1>3, <2>3, <3>1, <3>2, Zenon DEF Account!Reports
  <2>6. QED BY <1>3, <1>4, <1>7, <2>3, <2>4, <2>5, Zenon
<1>8. ASSUME Account!Reports(view), NEW i \in DOMAIN view.orders
      PROVE  Account!Cardinality(Account!TradesOf(view, i)) = view.orders[i].filled
  <2>1. /\ Account!Grouped(view)
        /\ view.orders[i].filled > 0 => Account!TradesOf(view, i) # {}
    BY <1>8, Zenon DEF Account!Reports
  <2>2. CASE \E k \in DOMAIN view.trades : view.trades[k] = i
    BY <2>1, <2>2, Zenon DEF Account!Grouped
  <2>3. CASE ~\E k \in DOMAIN view.trades : view.trades[k] = i
    <3>1. Account!TradesOf(view, i) = {}
      BY <2>3, Zenon DEF Account!TradesOf
    <3>2. Account!Cardinality({}) = 0
      BY <1>6, FS_EmptySet, Zenon
    <3>3. PICK f : f = view.orders[i].filled
      OBVIOUS
    <3>4. f \in Int /\ f >= 0
      BY <1>3, <1>4, <3>3, RowFields, Zenon
    <3>5. ~(f > 0)
      BY <2>1, <3>1, <3>3, Zenon
    <3>6. f = 0
      BY ONLY <3>4, <3>5
    <3>7. QED BY <3>1, <3>2, <3>3, <3>6, Zenon
  <2>4. QED BY <2>2, <2>3, Zenon
<1>9. ASSUME NEW i \in DOMAIN view.orders, NEW total \in Charges,
             NEW worth \in [1..view.orders[i].filled -> Prices], NEW k \in DOMAIN worth
      PROVE  Account!Share(total, worth, k) \in 0..total
  <2>1. PICK m : m = view.orders[i].filled
    OBVIOUS
  <2>2. os[i] \in Rows /\ m = os[i].filled
    BY <1>3, <1>4, <1>9, <2>1, Zenon DEF RowIs
  <2>3. m \in 0..MaxLots
    BY <2>2 DEF Rows
  <2>4. worth \in [1..m -> Prices] /\ k \in 1..m
    BY <1>9, <2>1
  <2>5. MaxLots \in Nat
    BY ServicesAssumption DEF Account!AccountAssumption
  <2>6. m \in 1..MaxLots
    BY ONLY <2>3, <2>4, <2>5
  <2>7. total \in Nat
    BY <1>9, ServicesAssumption DEF Account!AccountAssumption
  <2>8. QED BY ONLY <2>4, <2>6, <2>7, SharesFit
<1>10. QED BY <1>7, <1>8, <1>9, Zenon

\* A snapshot that the client accepts is consistent, however the account moved while
\* it was read.
THEOREM ViewAddsUpHolds == Spec => []ViewAddsUp
<1>1. QED BY AccountStarts, AccountSteps, AccountShows, PTL DEF Spec
===============================================================================
