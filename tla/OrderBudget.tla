----------------------------- MODULE OrderBudget -----------------------------
(***************************************************************************)
(* The order-rate budget of an account: one Redis key, shared by every     *)
(* process of the account, changed by one Lua script                       *)
(* (kite-execution/src/rate_limit/reserve.lua) and used through a limiter  *)
(* that is dropped after an error and opened again on the next call        *)
(* (store.rs, native_client/coordination.rs).                              *)
(*                                                                         *)
(* Redis writes its log behind (appendfsync everysec): a crash loses the   *)
(* writes of the last Second.  A cooldown waits for the log, a reserve     *)
(* does not.  The clock of Redis may be set back.                          *)
(***************************************************************************)
EXTENDS Integers, Sequences, FiniteSetsExt

CONSTANTS
  Windows,       \* the limits: pairs of a span and the orders allowed in it
  Second,        \* the age at which a write is in the log at the latest
  CooldownLow,   \* a cooldown asked for is clamped between the two
  CooldownHigh,
  MaxTime,       \* bound: readings of the clock
  MaxAllowed,     \* bound: orders allowed
  MaxMishaps     \* bound: crashes of Redis, steps back of its clock, lost answers

\* Assumed by Services.
BudgetAssumption ==
  /\ Windows \subseteq (Nat \ {0}) \X (Nat \ {0}) /\ Windows # {} /\ IsFiniteSet(Windows)
  /\ Second \in Nat \ {0}
  /\ CooldownLow \in Nat \ {0} /\ CooldownHigh \in Nat /\ CooldownLow <= CooldownHigh
  /\ MaxTime \in Nat /\ MaxAllowed \in Nat /\ MaxMishaps \in Nat

VARIABLES
  now,      \* the clock of Redis
  store,    \* the key: [history, last, cooldown]
  logged,   \* the key as the log has it, and how many orders that counts
  age,      \* of the oldest write that is not in the log
  allowed,   \* the orders allowed: when, and whether the key still counts them
  promised, \* the end of the longest cooldown that was acknowledged
  mishaps   \* mishaps so far

vars == <<now, store, logged, age, allowed, promised, mishaps>>

Longest == Max({w[1] : w \in Windows})
Fresh == [history |-> <<>>, last |-> 0, cooldown |-> 0]

\* OrderBudget::open: the key is created, or found, before the run starts.
Init ==
  /\ now = 0
  /\ store = Fresh /\ logged = [key |-> Fresh, counts |-> 0] /\ age = 0
  /\ allowed = <<>> /\ promised = 0 /\ mishaps = 0

-----------------------------------------------------------------------------
(* reserve.lua *)

\* The stamps are in order, or the script refuses the key, so the recent ones are the
\* last ones.
Older(history, cut) ==
  CHOOSE k \in 0..Len(history) : \A i \in DOMAIN history : history[i] <= cut <=> i <= k
Recent(history, span, at) == SubSeq(history, Older(history, at - span) + 1, Len(history))

\* Mutant: one order too many.
FullOneLate(recent, limit) == Len(recent) > limit
Full(recent, limit) == Len(recent) >= limit

\* The time until this window would allow an order, and until the script would; 0: now.
Wait(key, w, at) ==
  LET recent == Recent(key.history, w[1], at)
  IN  IF Full(recent, w[2]) THEN recent[Len(recent) - w[2] + 1] + w[1] - at ELSE 0
Retry(key, at) == Max({0, key.cooldown - at} \cup {Wait(key, w, at) : w \in Windows})

Backwards == now < store.last

Counted ==
  [store EXCEPT !.history = Append(Recent(@, Longest, now), now), !.last = now]

CooledTo(until) ==
  [store EXCEPT !.history = Recent(@, Longest, now), !.last = now,
                !.cooldown = Max({@, until})]

-----------------------------------------------------------------------------
(* The calls of any process.  A call that fails before the script runs, or that *)
(* the script refuses, drops the limiter; the next call opens another on the    *)
(* same key: nothing of it remains.                                             *)

Unlogged(key) ==
  /\ store' = key
  /\ UNCHANGED <<logged, age>>

AnswerLost == mishaps < MaxMishaps /\ mishaps' = mishaps + 1

\* OrderBudget::reserve, the script executed: the answer arrives or is lost.
Reserve ==
  /\ ~Backwards /\ Retry(store, now) = 0
  /\ Len(allowed) < MaxAllowed
  /\ Unlogged(Counted)
  /\ \/ /\ allowed' = Append(allowed, [at |-> now, kept |-> TRUE])
        /\ UNCHANGED mishaps
     \/ AnswerLost /\ UNCHANGED allowed
  /\ UNCHANGED <<now, promised>>

\* connection::sync after a cooldown.
InLog(key) ==
  /\ store' = key /\ age' = 0
  /\ logged' = [key |-> key, counts |-> Len(allowed)]

\* OrderBudget::cooldown, the script executed: the log is waited for, or the answer
\* or the log do not come in time.
Clamped(ms) == Max({CooldownLow, Min({CooldownHigh, ms})})
Cooldown ==
  /\ ~Backwards
  /\ \E ms \in {0, CooldownHigh + 1} :
       LET until == now + Clamped(ms)
           key == CooledTo(until)
       IN  \/ /\ InLog(key)
              /\ promised' = Max({promised, until})
              /\ UNCHANGED mishaps
           \/ Unlogged(key) /\ AnswerLost /\ UNCHANGED promised
  /\ UNCHANGED <<now, allowed>>

-----------------------------------------------------------------------------
(* Redis *)

\* Time passes no further than a write may wait for the log.
Tick ==
  /\ now < MaxTime
  /\ store = logged.key \/ age < Second
  /\ now' = now + 1
  /\ age' = IF store = logged.key THEN 0 ELSE age + 1
  /\ UNCHANGED <<store, logged, allowed, promised, mishaps>>

Log ==
  /\ store # logged.key
  /\ InLog(store)
  /\ UNCHANGED <<now, allowed, promised, mishaps>>

\* Redis comes back with what its log has; what that does not count is lost.
Crash ==
  /\ mishaps < MaxMishaps /\ store # logged.key
  /\ store' = logged.key /\ age' = 0
  /\ allowed' = [i \in DOMAIN allowed |->
                  [allowed[i] EXCEPT !.kept = @ /\ i <= logged.counts]]
  /\ mishaps' = mishaps + 1
  /\ UNCHANGED <<now, logged, promised>>

ClockSetBack ==
  /\ mishaps < MaxMishaps
  /\ now' \in {t \in 0..now : t < now /\ t >= now - 2}
  /\ mishaps' = mishaps + 1
  /\ UNCHANGED <<store, logged, age, allowed, promised>>

Next == Reserve \/ Cooldown \/ Tick \/ Log \/ Crash \/ ClockSetBack

Spec == Init /\ [][Next]_vars

-----------------------------------------------------------------------------
\* Of these orders, those allowed after c that the key has counted ever since.
KeptAfter(orders, c) == {i \in DOMAIN orders : orders[i].kept /\ orders[i].at > c}

\* No window has more of them than its limit.
WithinLimits(orders) ==
  \A w \in Windows, t \in 0..MaxTime :
    Cardinality({i \in KeptAfter(orders, t - w[1]) : orders[i].at <= t}) <= w[2]

\* However often Redis crashes, its clock steps back, answers get lost and the
\* limiter is opened again: in every window no more orders are allowed than the
\* limit and those a crash made the key forget; a cooldown that was acknowledged is
\* kept to its end; and a deferral ends exactly when it says.
BudgetHolds ==
  /\ WithinLimits(allowed)
  /\ promised <= store.cooldown /\ promised <= logged.key.cooldown
  /\ LET retry == Retry(store, now)
     IN  retry > 0 => /\ Retry(store, now + retry) = 0
                      /\ \A d \in 0..(retry - 1) : Retry(store, now + d) > 0

-----------------------------------------------------------------------------
(* The inductive invariant behind it. *)

\* The stamps of a key are in order, as the script demands, and none is after its last.
Ordered(key) ==
  /\ \A i, j \in DOMAIN key.history : i <= j => key.history[i] <= key.history[j]
  /\ \A i \in DOMAIN key.history : key.history[i] <= key.last

\* A key has a stamp for each of the first n orders that it is to count.
Covers(key, orders, n) ==
  \A c \in (key.last - Longest)..MaxTime :
    Cardinality({i \in KeptAfter(orders, c) : i <= n})
      <= Len(key.history) - Older(key.history, c)

BudgetInv ==
  /\ now <= MaxTime /\ logged.counts <= Len(allowed)
  /\ Ordered(store) /\ Ordered(logged.key)
  /\ Covers(store, allowed, Len(allowed)) /\ Covers(logged.key, allowed, logged.counts)
  /\ promised <= store.cooldown /\ promised <= logged.key.cooldown
  /\ WithinLimits(allowed)
=============================================================================
