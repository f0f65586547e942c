------------------------------- MODULE BarModel -------------------------------
(***************************************************************************)
(* What a bar model promises its runner (KN/bar_model.rs): its events are  *)
(* Entry, then Partials at rising targets, then one Exit of all the rest.  *)
(* Every call of the model tells a sequence of events.  The stop of an     *)
(* open trade only follows the targets it reached, never back and never    *)
(* ahead of them.                                                          *)
(***************************************************************************)
EXTENDS Integers, Sequences, FiniteSets

VARIABLES
  size,       \* lots of an entry
  position,   \* direction, open lots and the targets that closed some
  stop, hits, \* of the open trade: its stop, in steps of the risk, and targets reached
  told        \* the events of the last call

Flat == [dir |-> 0, left |-> 0, closed |-> {}]
Broken == [dir |-> 2, left |-> 0, closed |-> {}]

Lawful(p, e) ==
  \/ e.kind = "Entry" /\ p = Flat
  \/ /\ e.kind = "Partial" /\ e.dir = p.dir
     /\ 0 < e.lots /\ e.lots < p.left
     /\ \A k \in p.closed : k < e.level
  \/ e.kind = "Exit" /\ p.left > 0 /\ e.dir = p.dir /\ e.lots = p.left

After(p, e) ==
  IF ~Lawful(p, e) THEN Broken
  ELSE IF e.kind = "Entry" THEN [dir |-> e.dir, left |-> size, closed |-> {}]
  ELSE IF e.kind = "Exit" THEN Flat
  ELSE [p EXCEPT !.left = @ - e.lots, !.closed = @ \cup {e.level}]

\* After a sequence of events.
AfterAll(p, events) ==
  LET upTo[i \in 0..Len(events)] == IF i = 0 THEN p ELSE After(upTo[i - 1], events[i])
  IN  upTo[Len(events)]

Init == size \in Nat \ {0} /\ position = Flat /\ stop = -1 /\ hits = {} /\ told = <<>>

Call ==
  /\ UNCHANGED size
  /\ position' = AfterAll(position, told')
  /\ position' # Broken
  /\ stop' <= Cardinality(hits') - 1
  /\ (\A i \in DOMAIN told' : told'[i].kind = "Partial") => stop' >= stop /\ hits \subseteq hits'

Spec == Init /\ [][Call]_<<size, position, stop, hits, told>>
===============================================================================
