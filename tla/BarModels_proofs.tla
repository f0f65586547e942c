--------------------------- MODULE BarModels_proofs ---------------------------
(***************************************************************************)
(* Proofs about the bar models and their runners, for every size of a      *)
(* position, every split of it over the targets, every schedule of a day,  *)
(* every exit mode of SATS' replay and every price.                        *)
(***************************************************************************)
EXTENDS BarModels, DataLemmas

-----------------------------------------------------------------------------
(* The position as the contract sees it. *)

Size == IF kind = "sats" THEN Thirds ELSE Lots

Positions(h, p, events, n) ==
  h = [i \in 0..n |-> IF i = 0 THEN p ELSE Contract!After(h[i - 1], events[i])]

\* A history of positions starts at p and makes every event in turn.
LEMMA PositionsStep ==
  ASSUME NEW p, NEW events, NEW n \in Nat, NEW h
  PROVE  Positions(h, p, events, n) <=>
           /\ Reaches(h, n) /\ h[0] = p
           /\ \A i \in 1..n : h[i] = Contract!After(h[i - 1], events[i])
<1>1. ASSUME \A i \in 0..n : h[i] = IF i = 0 THEN p ELSE Contract!After(h[i - 1], events[i])
      PROVE  [i \in 0..n |-> h[i]]
               = [i \in 0..n |-> IF i = 0 THEN p ELSE Contract!After(h[i - 1], events[i])]
  BY <1>1, Zenon
<1>2. (\A i \in 0..n : h[i] = IF i = 0 THEN p ELSE Contract!After(h[i - 1], events[i]))
        <=> (h[0] = p /\ \A i \in 1..n : h[i] = Contract!After(h[i - 1], events[i]))
  <2>1. 0 \in 0..n /\ (\A i \in 1..n : i \in 0..n /\ i # 0) /\ \A i \in 0..n : i # 0 => i \in 1..n
    OBVIOUS
  <2>2. QED BY <2>1, Zenon
<1>3. ASSUME Positions(h, p, events, n)
      PROVE  \A i \in 0..n : h[i] = IF i = 0 THEN p ELSE Contract!After(h[i - 1], events[i])
  BY <1>3, Zenon DEF Positions
<1>4. QED BY <1>1, <1>2, <1>3, Zenon DEF Positions, Reaches

\* Every number of events has a history of positions.
LEMMA PositionsExist ==
  ASSUME NEW p, NEW events, NEW n \in Nat
  PROVE  \E h : Positions(h, p, events, n)
<1> DEFINE S == {k \in Nat : \E h : Positions(h, p, events, k)}
<1>1. 0 \in S
  <2>1. \E f : f = [i \in 0..0 |-> p]
    OBVIOUS
  <2>2. PICK f : f = [i \in 0..0 |-> p]
    BY <2>1
  <2>3. PICK h : Reaches(h, 0) /\ \A i \in 0..0 : h[i] = f[i]
    BY CutHistory
  <2>4. h[0] = p
    <3>1. 0 \in 0..0
      OBVIOUS
    <3>2. QED BY <2>2, <2>3, <3>1
  <2>5. \A i \in 1..0 : h[i] = Contract!After(h[i - 1], events[i])
    OBVIOUS
  <2>6. 0 \in Nat
    OBVIOUS
  <2>7. Positions(h, p, events, 0)
    BY ONLY <2>3, <2>4, <2>5, <2>6, PositionsStep
  <2>8. QED BY <2>7
<1>2. ASSUME NEW k \in Nat, k \in S PROVE k + 1 \in S
  <2>1. PICK h : Positions(h, p, events, k)
    BY <1>2
  <2>2. PICK x : x = Contract!After(h[k], events[k + 1])
    OBVIOUS
  <2>3. PICK g : Reaches(g, k + 1) /\ g[k + 1] = x /\ \A i \in 0..k : g[i] = h[i]
    <3>1. \E g : Longer(g, h, k, x)
      BY LongerHistory
    <3>2. QED BY <3>1, Zenon DEF Longer
  <2>4. h[0] = p /\ \A i \in 1..k : h[i] = Contract!After(h[i - 1], events[i])
    BY ONLY k \in Nat, <2>1, PositionsStep
  <2>5. g[0] = p
    <3>1. 0 \in 0..k
      OBVIOUS
    <3>2. QED BY ONLY <2>3, <2>4, <3>1, Zenon
  <2>6. ASSUME NEW i \in 1..(k + 1) PROVE g[i] = Contract!After(g[i - 1], events[i])
    <3>1. i - 1 \in 0..k
      OBVIOUS
    <3>2. CASE i = k + 1
      <4>1. i - 1 = k
        BY <3>2
      <4>2. QED BY ONLY <2>2, <2>3, <3>1, <3>2, <4>1, Zenon
    <3>3. CASE i # k + 1
      <4>1. i \in 1..k /\ i \in 0..k
        BY <3>3
      <4>2. QED BY ONLY <2>3, <2>4, <3>1, <4>1, Zenon
    <3>4. QED BY <3>2, <3>3
  <2>7. k + 1 \in Nat
    OBVIOUS
  <2>8. Positions(g, p, events, k + 1)
    BY ONLY <2>3, <2>5, <2>6, <2>7, PositionsStep
  <2>9. QED BY <2>7, <2>8
<1>3. Nat \subseteq S
  <2> HIDE DEF S
  <2>1. QED BY <1>1, <1>2, Grows
<1>4. QED BY <1>3

\* The recursive function is the last of any such history.
LEMMA PositionsEnd ==
  ASSUME NEW p, NEW events, Len(events) \in Nat, NEW h, Positions(h, p, events, Len(events))
  PROVE  Contract!AfterAll(p, events) = h[Len(events)]
<1> DEFINE f == CHOOSE g : Positions(g, p, events, Len(events))
<1>1. Positions(f, p, events, Len(events))
  BY Zenon
<1>2. Contract!AfterAll(p, events) = f[Len(events)]
  BY DEF Contract!AfterAll, Positions
<1> HIDE DEF f
<1>3. f = h
  <2>1. PICK n \in Nat : n = Len(events)
    OBVIOUS
  <2>2. Positions(f, p, events, n) /\ Positions(h, p, events, n)
    BY <1>1, <2>1, Zenon
  <2>3. /\ Reaches(f, n) /\ f[0] = p
        /\ \A i \in 1..n : f[i] = Contract!After(f[i - 1], events[i])
    BY ONLY n \in Nat, <2>2, PositionsStep
  <2>4. /\ Reaches(h, n) /\ h[0] = p
        /\ \A i \in 1..n : h[i] = Contract!After(h[i - 1], events[i])
    BY ONLY n \in Nat, <2>2, PositionsStep
  <2>5. \A i \in 1..n : f[i - 1] = h[i - 1] => f[i] = h[i]
    BY <2>3, <2>4, Zenon
  <2>6. f[0] = h[0]
    BY <2>3, <2>4, Zenon
  <2>7. QED BY ONLY n \in Nat, <2>3, <2>4, <2>5, <2>6, OneHistory
<1>4. QED BY <1>2, <1>3, Zenon

\* No event, and one event more.
LEMMA PositionsGrow ==
  ASSUME NEW p, NEW E, NEW events \in Seq(E), NEW e \in E
  PROVE  /\ Contract!AfterAll(p, <<>>) = p
         /\ Contract!AfterAll(p, Append(events, e)) = Contract!After(Contract!AfterAll(p, events), e)
<1>1. Contract!AfterAll(p, <<>>) = p
  <2>1. PICK none : none = <<>>
    OBVIOUS
  <2>2. PICK m \in Nat : m = Len(none) /\ m = 0
    BY <2>1
  <2>3. PICK h : Positions(h, p, none, m)
    BY PositionsExist
  <2>4. Contract!AfterAll(p, none) = h[m]
    BY ONLY <2>2, <2>3, PositionsEnd
  <2>5. h[0] = p
    BY ONLY m \in Nat, <2>3, PositionsStep
  <2>6. QED BY <2>1, <2>2, <2>4, <2>5
<1>2. PICK n \in Nat : n = Len(events)
  OBVIOUS
<1>3. PICK more : more = Append(events, e)
  OBVIOUS
<1>4. Len(more) = n + 1 /\ more[n + 1] = e /\ \A i \in 1..n : more[i] = events[i]
  BY <1>2, <1>3
<1>5. n + 1 \in Nat
  OBVIOUS
<1>6. PICK m \in Nat : m = n + 1
  BY <1>5
<1>7. PICK h : Positions(h, p, more, m)
  BY PositionsExist
<1>8. h[0] = p /\ \A i \in 1..(n + 1) : h[i] = Contract!After(h[i - 1], more[i])
  <2>1. h[0] = p /\ \A i \in 1..m : h[i] = Contract!After(h[i - 1], more[i])
    BY ONLY m \in Nat, <1>7, PositionsStep
  <2>2. QED BY <1>6, <2>1
<1>9. PICK g : Reaches(g, n) /\ \A i \in 0..n : g[i] = h[i]
  BY CutHistory
<1>10. ASSUME NEW i \in 1..n PROVE g[i] = Contract!After(g[i - 1], events[i])
  <2>1. i \in 0..n /\ i - 1 \in 0..n /\ i \in 1..(n + 1)
    OBVIOUS
  <2>2. QED BY ONLY <1>4, <1>8, <1>9, <1>10, <2>1, Zenon
<1>11. 0 \in 0..n /\ n \in 0..n /\ n + 1 \in 1..(n + 1) /\ (n + 1) - 1 = n
  OBVIOUS
<1>12. g[0] = p /\ g[n] = h[n]
  BY ONLY <1>8, <1>9, <1>11, Zenon
<1>13. Positions(g, p, events, n)
  BY ONLY n \in Nat, <1>9, <1>10, <1>12, PositionsStep
<1>14. Contract!AfterAll(p, events) = g[n]
  BY <1>2, <1>13, PositionsEnd, Zenon
<1>15. Contract!AfterAll(p, more) = h[n + 1]
  BY ONLY <1>4, <1>6, <1>7, PositionsEnd
<1>16. h[n + 1] = Contract!After(h[n], e)
  BY ONLY <1>4, <1>8, <1>11, Zenon
<1>17. Contract!AfterAll(p, more) = Contract!After(Contract!AfterAll(p, events), e)
  BY <1>12, <1>14, <1>15, <1>16, Zenon
<1>18. QED BY <1>1, <1>3, <1>17, Zenon

-----------------------------------------------------------------------------
(* The book of the replay. *)

Books(h, p, events, n) ==
  h = [i \in 0..n |-> IF i = 0 THEN p ELSE Executed(h[i - 1], events[i])]

\* The same of the replay's book: it starts at p and executes every event in
\* turn.
LEMMA BooksStep ==
  ASSUME NEW p, NEW events, NEW n \in Nat, NEW h
  PROVE  Books(h, p, events, n) <=>
           /\ Reaches(h, n) /\ h[0] = p
           /\ \A i \in 1..n : h[i] = Executed(h[i - 1], events[i])
<1>1. ASSUME \A i \in 0..n : h[i] = IF i = 0 THEN p ELSE Executed(h[i - 1], events[i])
      PROVE  [i \in 0..n |-> h[i]]
               = [i \in 0..n |-> IF i = 0 THEN p ELSE Executed(h[i - 1], events[i])]
  BY <1>1, Zenon
<1>2. (\A i \in 0..n : h[i] = IF i = 0 THEN p ELSE Executed(h[i - 1], events[i]))
        <=> (h[0] = p /\ \A i \in 1..n : h[i] = Executed(h[i - 1], events[i]))
  <2>1. 0 \in 0..n /\ (\A i \in 1..n : i \in 0..n /\ i # 0) /\ \A i \in 0..n : i # 0 => i \in 1..n
    OBVIOUS
  <2>2. QED BY <2>1, Zenon
<1>3. ASSUME Books(h, p, events, n)
      PROVE  \A i \in 0..n : h[i] = IF i = 0 THEN p ELSE Executed(h[i - 1], events[i])
  BY <1>3, Zenon DEF Books
<1>4. QED BY <1>1, <1>2, <1>3, Zenon DEF Books, Reaches

\* Every number of events has a history of books.
LEMMA BooksExist ==
  ASSUME NEW p, NEW events, NEW n \in Nat
  PROVE  \E h : Books(h, p, events, n)
<1> DEFINE S == {k \in Nat : \E h : Books(h, p, events, k)}
<1>1. 0 \in S
  <2>1. \E f : f = [i \in 0..0 |-> p]
    OBVIOUS
  <2>2. PICK f : f = [i \in 0..0 |-> p]
    BY <2>1
  <2>3. PICK h : Reaches(h, 0) /\ \A i \in 0..0 : h[i] = f[i]
    BY CutHistory
  <2>4. h[0] = p
    <3>1. 0 \in 0..0
      OBVIOUS
    <3>2. QED BY <2>2, <2>3, <3>1
  <2>5. \A i \in 1..0 : h[i] = Executed(h[i - 1], events[i])
    OBVIOUS
  <2>6. 0 \in Nat
    OBVIOUS
  <2>7. Books(h, p, events, 0)
    BY ONLY <2>3, <2>4, <2>5, <2>6, BooksStep
  <2>8. QED BY <2>7
<1>2. ASSUME NEW k \in Nat, k \in S PROVE k + 1 \in S
  <2>1. PICK h : Books(h, p, events, k)
    BY <1>2
  <2>2. PICK x : x = Executed(h[k], events[k + 1])
    OBVIOUS
  <2>3. PICK g : Reaches(g, k + 1) /\ g[k + 1] = x /\ \A i \in 0..k : g[i] = h[i]
    <3>1. \E g : Longer(g, h, k, x)
      BY LongerHistory
    <3>2. QED BY <3>1, Zenon DEF Longer
  <2>4. h[0] = p /\ \A i \in 1..k : h[i] = Executed(h[i - 1], events[i])
    BY ONLY k \in Nat, <2>1, BooksStep
  <2>5. g[0] = p
    <3>1. 0 \in 0..k
      OBVIOUS
    <3>2. QED BY ONLY <2>3, <2>4, <3>1, Zenon
  <2>6. ASSUME NEW i \in 1..(k + 1) PROVE g[i] = Executed(g[i - 1], events[i])
    <3>1. i - 1 \in 0..k
      OBVIOUS
    <3>2. CASE i = k + 1
      <4>1. i - 1 = k
        BY <3>2
      <4>2. QED BY ONLY <2>2, <2>3, <3>1, <3>2, <4>1, Zenon
    <3>3. CASE i # k + 1
      <4>1. i \in 1..k /\ i \in 0..k
        BY <3>3
      <4>2. QED BY ONLY <2>3, <2>4, <3>1, <4>1, Zenon
    <3>4. QED BY <3>2, <3>3
  <2>7. k + 1 \in Nat
    OBVIOUS
  <2>8. Books(g, p, events, k + 1)
    BY ONLY <2>3, <2>5, <2>6, <2>7, BooksStep
  <2>9. QED BY <2>7, <2>8
<1>3. Nat \subseteq S
  <2> HIDE DEF S
  <2>1. QED BY <1>1, <1>2, Grows
<1>4. QED BY <1>3

\* The recursive function is the last of any such history.
LEMMA BooksEnd ==
  ASSUME NEW p, NEW events, Len(events) \in Nat, NEW h, Books(h, p, events, Len(events))
  PROVE  ExecutedAll(p, events) = h[Len(events)]
<1> DEFINE f == CHOOSE g : Books(g, p, events, Len(events))
<1>1. Books(f, p, events, Len(events))
  BY Zenon
<1>2. ExecutedAll(p, events) = f[Len(events)]
  BY DEF ExecutedAll, Books
<1> HIDE DEF f
<1>3. f = h
  <2>1. PICK n \in Nat : n = Len(events)
    OBVIOUS
  <2>2. Books(f, p, events, n) /\ Books(h, p, events, n)
    BY <1>1, <2>1, Zenon
  <2>3. /\ Reaches(f, n) /\ f[0] = p
        /\ \A i \in 1..n : f[i] = Executed(f[i - 1], events[i])
    BY ONLY n \in Nat, <2>2, BooksStep
  <2>4. /\ Reaches(h, n) /\ h[0] = p
        /\ \A i \in 1..n : h[i] = Executed(h[i - 1], events[i])
    BY ONLY n \in Nat, <2>2, BooksStep
  <2>5. \A i \in 1..n : f[i - 1] = h[i - 1] => f[i] = h[i]
    BY <2>3, <2>4, Zenon
  <2>6. f[0] = h[0]
    BY <2>3, <2>4, Zenon
  <2>7. QED BY ONLY n \in Nat, <2>3, <2>4, <2>5, <2>6, OneHistory
<1>4. QED BY <1>2, <1>3, Zenon

\* No event, and one event more.
LEMMA BooksGrow ==
  ASSUME NEW p, NEW E, NEW events \in Seq(E), NEW e \in E
  PROVE  /\ ExecutedAll(p, <<>>) = p
         /\ ExecutedAll(p, Append(events, e)) = Executed(ExecutedAll(p, events), e)
<1>1. ExecutedAll(p, <<>>) = p
  <2>1. PICK none : none = <<>>
    OBVIOUS
  <2>2. PICK m \in Nat : m = Len(none) /\ m = 0
    BY <2>1
  <2>3. PICK h : Books(h, p, none, m)
    BY BooksExist
  <2>4. ExecutedAll(p, none) = h[m]
    BY ONLY <2>2, <2>3, BooksEnd
  <2>5. h[0] = p
    BY ONLY m \in Nat, <2>3, BooksStep
  <2>6. QED BY <2>1, <2>2, <2>4, <2>5
<1>2. PICK n \in Nat : n = Len(events)
  OBVIOUS
<1>3. PICK more : more = Append(events, e)
  OBVIOUS
<1>4. Len(more) = n + 1 /\ more[n + 1] = e /\ \A i \in 1..n : more[i] = events[i]
  BY <1>2, <1>3
<1>5. n + 1 \in Nat
  OBVIOUS
<1>6. PICK m \in Nat : m = n + 1
  BY <1>5
<1>7. PICK h : Books(h, p, more, m)
  BY BooksExist
<1>8. h[0] = p /\ \A i \in 1..(n + 1) : h[i] = Executed(h[i - 1], more[i])
  <2>1. h[0] = p /\ \A i \in 1..m : h[i] = Executed(h[i - 1], more[i])
    BY ONLY m \in Nat, <1>7, BooksStep
  <2>2. QED BY <1>6, <2>1
<1>9. PICK g : Reaches(g, n) /\ \A i \in 0..n : g[i] = h[i]
  BY CutHistory
<1>10. ASSUME NEW i \in 1..n PROVE g[i] = Executed(g[i - 1], events[i])
  <2>1. i \in 0..n /\ i - 1 \in 0..n /\ i \in 1..(n + 1)
    OBVIOUS
  <2>2. QED BY ONLY <1>4, <1>8, <1>9, <1>10, <2>1, Zenon
<1>11. 0 \in 0..n /\ n \in 0..n /\ n + 1 \in 1..(n + 1) /\ (n + 1) - 1 = n
  OBVIOUS
<1>12. g[0] = p /\ g[n] = h[n]
  BY ONLY <1>8, <1>9, <1>11, Zenon
<1>13. Books(g, p, events, n)
  BY ONLY n \in Nat, <1>9, <1>10, <1>12, BooksStep
<1>14. ExecutedAll(p, events) = g[n]
  BY <1>2, <1>13, BooksEnd, Zenon
<1>15. ExecutedAll(p, more) = h[n + 1]
  BY ONLY <1>4, <1>6, <1>7, BooksEnd
<1>16. h[n + 1] = Executed(h[n], e)
  BY ONLY <1>4, <1>8, <1>11, Zenon
<1>17. ExecutedAll(p, more) = Executed(ExecutedAll(p, events), e)
  BY <1>12, <1>14, <1>15, <1>16, Zenon
<1>18. QED BY <1>1, <1>3, <1>17, Zenon

-----------------------------------------------------------------------------
(* Events *)

Reasons == {"stop", "TP3", "Reversal", "rule", "Square-off", "flip", "timeout"}

EntryEvents == [kind : {"Entry"}, dir : Int]
PartialEvents == [kind : {"Partial"}, dir : Int, level : Levels, lots : Nat]
ExitEvents == [kind : {"Exit"}, dir : Int, lots : Nat, gain : Int, reason : Reasons]
Events == EntryEvents \cup PartialEvents \cup ExitEvents

Partials(events) == \A i \in DOMAIN events : events[i].kind = "Partial"
NoEntry(events) == \A i \in DOMAIN events : events[i].kind # "Entry"
EntryLast(events) == \A i \in DOMAIN events : events[i].kind = "Entry" => i = Len(events)

\* What one more event makes of a sequence that has partials only, or no entry.
LEMMA OneMore ==
  ASSUME NEW events \in Seq(Events), NEW e \in Events
  PROVE  /\ Append(events, e) \in Seq(Events)
         /\ Partials(Append(events, e)) <=> Partials(events) /\ e.kind = "Partial"
         /\ NoEntry(Append(events, e)) <=> NoEntry(events) /\ e.kind # "Entry"
         /\ NoEntry(events) => EntryLast(Append(events, e))
<1>1. PICK n \in Nat : n = Len(events)
  OBVIOUS
<1>2. PICK more \in Seq(Events) : more = Append(events, e)
  <2>1. Append(events, e) \in Seq(Events)
    OBVIOUS
  <2>2. QED BY <2>1
<1>3. /\ DOMAIN events = 1..n /\ DOMAIN more = 1..(n + 1) /\ Len(more) = n + 1
      /\ more[n + 1] = e /\ \A i \in 1..n : more[i] = events[i]
  BY <1>1, <1>2
<1>4. n + 1 \in 1..(n + 1) /\ (\A i \in 1..n : i \in 1..(n + 1))
        /\ \A i \in 1..(n + 1) : i \in 1..n \/ i = n + 1
  OBVIOUS
<1>5. Partials(more) <=> Partials(events) /\ e.kind = "Partial"
  BY ONLY <1>3, <1>4, Zenon DEF Partials
<1>6. NoEntry(more) <=> NoEntry(events) /\ e.kind # "Entry"
  BY ONLY <1>3, <1>4, Zenon DEF NoEntry
<1>7. NoEntry(events) => EntryLast(more)
  BY ONLY <1>3, <1>4, Zenon DEF NoEntry, EntryLast
<1>8. QED BY <1>2, <1>5, <1>6, <1>7, Zenon

\* No event is a sequence of events that has everything.
LEMMA Nothing ==
  <<>> \in Seq(Events) /\ Partials(<<>>) /\ NoEntry(<<>>) /\ EntryLast(<<>>)
BY DEF Partials, NoEntry, EntryLast

\* An entry is an event.
LEMMA EntryTold ==
  ASSUME NEW dir \in {-1, 1}
  PROVE  EntryOf(dir) \in Events /\ EntryOf(dir).kind = "Entry" /\ EntryOf(dir).dir = dir
<1>1. EntryOf(dir) \in EntryEvents
  BY DEF EntryOf, EntryEvents
<1>2. QED BY <1>1 DEF Events, EntryOf

\* Of the position p the events make q, and of its book the book of q.
BookOf(p) == [dir |-> p.dir, lots |-> p.left]
Told(p, events, q) ==
  /\ events \in Seq(Events)
  /\ Contract!AfterAll(p, events) = q
  /\ kind # "sats" => ExecutedAll(BookOf(p), events) = BookOf(q)

\* No event changes nothing.
LEMMA ToldNothing == ASSUME NEW p PROVE Told(p, <<>>, p)
<1>1. <<>> \in Seq(Events) /\ \E e : e \in Events
  <2>1. EntryOf(1) \in Events
    BY EntryTold
  <2>2. QED BY <2>1
<1>2. PICK e \in Events : TRUE
  BY <1>1
<1>3. Contract!AfterAll(p, <<>>) = p
  BY <1>1, <1>2, PositionsGrow
<1>4. ExecutedAll(BookOf(p), <<>>) = BookOf(p)
  BY <1>1, <1>2, BooksGrow
<1>5. QED BY <1>1, <1>3, <1>4 DEF Told

\* One event more, and what it makes of position and book.
LEMMA ToldMore ==
  ASSUME NEW p, NEW events, NEW q, Told(p, events, q), NEW e \in Events, NEW after,
         Contract!After(q, e) = after,
         kind # "sats" => Executed(BookOf(q), e) = BookOf(after)
  PROVE  Told(p, Append(events, e), after)
<1>1. events \in Seq(Events) /\ Contract!AfterAll(p, events) = q
  BY DEF Told
<1>2. Contract!AfterAll(p, Append(events, e)) = after
  <2>1. Contract!AfterAll(p, Append(events, e)) = Contract!After(Contract!AfterAll(p, events), e)
    BY ONLY e \in Events, <1>1, PositionsGrow
  <2>2. QED BY <1>1, <2>1, Zenon
<1>3. ASSUME kind # "sats" PROVE ExecutedAll(BookOf(p), Append(events, e)) = BookOf(after)
  <2>1. ExecutedAll(BookOf(p), events) = BookOf(q)
    BY <1>3 DEF Told
  <2>2. ExecutedAll(BookOf(p), Append(events, e)) = Executed(ExecutedAll(BookOf(p), events), e)
    BY ONLY e \in Events, <1>1, BooksGrow
  <2>3. QED BY <1>3, <2>1, <2>2, Zenon
<1>4. Append(events, e) \in Seq(Events)
  BY <1>1
<1>5. QED BY <1>2, <1>3, <1>4, Zenon DEF Told

\* The size of an entry, a whole number of lots.
LEMMA SizeType == Size \in Nat \ {0} /\ Lots \in Nat \ {0}
BY TradeAssumption DEF Size, Thirds

FlatPosition == [dir |-> 0, left |-> 0, closed |-> {}]

\* An entry where nothing is open opens a position of full size.
LEMMA ToldEntry ==
  ASSUME NEW p, NEW events, Told(p, events, FlatPosition), NEW dir \in {-1, 1}
  PROVE  Told(p, Append(events, EntryOf(dir)), [dir |-> dir, left |-> Size, closed |-> {}])
<1>1. PICK e : e = EntryOf(dir)
  OBVIOUS
<1>2. e \in Events /\ e.kind = "Entry" /\ e.dir = dir
  BY <1>1, EntryTold
<1>3. Contract!After(FlatPosition, e) = [dir |-> dir, left |-> Size, closed |-> {}]
  BY <1>2 DEF Contract!After, Contract!Lawful, Contract!Flat, FlatPosition, Size
<1>4. kind # "sats" => Executed(BookOf(FlatPosition), e)
                         = BookOf([dir |-> dir, left |-> Size, closed |-> {}])
  BY <1>2 DEF Executed, BookOf, Size
<1>5. QED BY <1>1, <1>2, <1>3, <1>4, ToldMore, Zenon

\* An exit of all that is left closes the position.
LEMMA ToldExit ==
  ASSUME NEW p, NEW events, NEW q, Told(p, events, q), q.left \in Nat \ {0}, q.dir \in {-1, 1},
         NEW t, t.dir = q.dir, t.left = q.left, NEW gain \in Int, NEW reason \in Reasons
  PROVE  /\ ExitOf(t, gain, reason) \in Events
         /\ ExitOf(t, gain, reason).kind = "Exit"
         /\ Told(p, Append(events, ExitOf(t, gain, reason)), FlatPosition)
<1>1. PICK e : e = ExitOf(t, gain, reason)
  OBVIOUS
<1>2. e \in ExitEvents
  BY <1>1 DEF ExitOf, ExitEvents
<1>3. e \in Events /\ e.kind = "Exit" /\ e.dir = q.dir /\ e.lots = q.left
  BY <1>1, <1>2 DEF Events, ExitOf
<1>4. Contract!After(q, e) = FlatPosition
  BY <1>3 DEF Contract!After, Contract!Lawful, Contract!Flat, FlatPosition
<1>5. kind # "sats" => Executed(BookOf(q), e) = BookOf(FlatPosition)
  BY <1>3 DEF Executed, BookOf, NoBook, FlatPosition
<1>6. QED BY <1>1, <1>3, <1>4, <1>5, ToldMore, Zenon

PartialFits(p, events, dir, left, closed, t, n, level) ==
  /\ dir \in {-1, 1} /\ left \in Nat /\ closed \in SUBSET Levels
  /\ Told(p, events, [dir |-> dir, left |-> left, closed |-> closed])
  /\ t.dir = dir /\ n \in Nat /\ 0 < n /\ n < left
  /\ level \in Levels /\ \A k \in closed : k < level
PartialIsTold(p, events, dir, left, closed, t, n, level) ==
  /\ PartialOf(t, level, n) \in Events
  /\ PartialOf(t, level, n).kind = "Partial"
  /\ Told(p, Append(events, PartialOf(t, level, n)),
          [dir |-> dir, left |-> left - n, closed |-> closed \cup {level}])

\* A partial at a higher target that leaves some lots takes its lots off.
LEMMA ToldPartial ==
  ASSUME NEW p, NEW events, NEW dir, NEW left, NEW closed, NEW t, NEW n, NEW level,
         PartialFits(p, events, dir, left, closed, t, n, level)
  PROVE  PartialIsTold(p, events, dir, left, closed, t, n, level)
<1>0. /\ dir \in {-1, 1} /\ left \in Nat /\ closed \in SUBSET Levels
      /\ Told(p, events, [dir |-> dir, left |-> left, closed |-> closed])
      /\ t.dir = dir /\ n \in Nat /\ 0 < n /\ n < left
      /\ level \in Levels /\ \A k \in closed : k < level
  BY Zenon DEF PartialFits
<1>1. PICK e : e = PartialOf(t, level, n)
  OBVIOUS
<1>2. e \in PartialEvents
  <2>1. t.dir \in Int
    BY <1>0
  <2>2. QED BY <1>0, <1>1, <2>1 DEF PartialOf, PartialEvents
<1>3. /\ e \in Events /\ e.kind = "Partial" /\ e.dir = dir
      /\ e.lots = n /\ e.level = level
  BY <1>0, <1>1, <1>2 DEF Events, PartialOf
<1>4. PICK q : q = [dir |-> dir, left |-> left, closed |-> closed]
  OBVIOUS
<1>5. PICK after : after = [dir |-> dir, left |-> left - n, closed |-> closed \cup {level}]
  OBVIOUS
<1>6. q.dir = dir /\ q.left = left /\ q.closed = closed /\ q # Contract!Flat
  BY <1>0, <1>4 DEF Contract!Flat
<1>7. Contract!Lawful(q, e)
  BY <1>0, <1>3, <1>6, Zenon DEF Contract!Lawful
<1>8. Contract!After(q, e) = after
  <2>1. Contract!After(q, e) = [q EXCEPT !.left = @ - e.lots, !.closed = @ \cup {e.level}]
    BY <1>3, <1>7 DEF Contract!After
  <2>2. QED BY <1>3, <1>4, <1>5, <2>1
<1>9. kind # "sats" => Executed(BookOf(q), e) = BookOf(after)
  <2>1. BookOf(q) = [dir |-> dir, lots |-> left] /\ BookOf(after) = [dir |-> dir, lots |-> left - n]
    BY <1>4, <1>5 DEF BookOf
  <2>2. Tranche(n, left) = n
    BY <1>0 DEF Tranche, Smaller
  <2>3. Executed([dir |-> dir, lots |-> left], e) = [dir |-> dir, lots |-> left - n]
    BY <1>0, <1>3, <2>2 DEF Executed
  <2>4. QED BY <2>1, <2>3
<1>10. Told(p, events, q)
  BY <1>0, <1>4
<1>11. Told(p, Append(events, e), after)
  BY <1>3, <1>8, <1>9, <1>10, ToldMore, Zenon
<1>12. QED BY <1>1, <1>3, <1>5, <1>11, Zenon DEF PartialIsTold

-----------------------------------------------------------------------------
(* Trades *)

\* Targets are reached in their order.
Marks == {{}, {1}, {1, 2}, {1, 2, 3}}
Reached(hits) == IF 3 \in hits THEN 3 ELSE IF 2 \in hits THEN 2 ELSE IF 1 \in hits THEN 1 ELSE 0
TakenAt(hits) == (IF 1 \in hits THEN Tp1Lots ELSE 0) + (IF 2 \in hits THEN Tp2Lots ELSE 0)

\* As many targets are marked as the highest of them says.
LEMMA ReachedIs ==
  ASSUME NEW hits \in Marks
  PROVE  Cardinality(hits) = Reached(hits)
<1>1. Cardinality({}) = 0
  BY FS_EmptySet
<1>2. Cardinality({1}) = 1
  BY FS_Singleton
<1>3. IsFiniteSet({1}) /\ {1, 2} = {1} \cup {2} /\ 2 \notin {1}
  <2>1. IsFiniteSet({1})
    BY FS_Singleton
  <2>2. {1, 2} = {1} \cup {2} /\ 2 \notin {1}
    OBVIOUS
  <2>3. QED BY <2>1, <2>2
<1>4. IsFiniteSet({1, 2}) /\ Cardinality({1, 2}) = 2
  BY <1>2, <1>3, FS_AddElement
<1>5. {1, 2, 3} = {1, 2} \cup {3} /\ 3 \notin {1, 2}
  OBVIOUS
<1>6. Cardinality({1, 2, 3}) = 3
  BY <1>4, <1>5, FS_AddElement
<1>7. CASE hits = {}
  BY <1>1, <1>7 DEF Reached
<1>8. CASE hits = {1}
  BY <1>2, <1>8 DEF Reached
<1>9. CASE hits = {1, 2}
  BY <1>4, <1>9 DEF Reached
<1>10. CASE hits = {1, 2, 3}
  BY <1>6, <1>10 DEF Reached
<1>11. QED BY <1>7, <1>8, <1>9, <1>10 DEF Marks

\* An open trade has what its targets left of it, and its stop is behind them.
TradeAt(dir, stop, hits) ==
  [dir |-> dir, stop |-> stop, hits |-> hits, left |-> Lots - TakenAt(hits)]
Trades == {TradeAt(dir, stop, hits) : dir \in {-1, 1}, stop \in -1..2, hits \in Marks}
Sound(t) == t \in Trades /\ t.stop < Reached(t.hits)

\* A trade is known from its direction, its stop and its targets.
LEMMA TradeIs ==
  ASSUME NEW t \in Trades
  PROVE  /\ t.dir \in {-1, 1} /\ t.stop \in -1..2 /\ t.hits \in Marks
         /\ t = TradeAt(t.dir, t.stop, t.hits)
         /\ t.left = Lots - TakenAt(t.hits)
<1>1. PICK dir \in {-1, 1}, stop \in -1..2, hits \in Marks : t = TradeAt(dir, stop, hits)
  BY DEF Trades
<1>2. t.dir = dir /\ t.stop = stop /\ t.hits = hits /\ t.left = Lots - TakenAt(hits)
  BY <1>1 DEF TradeAt
<1>3. QED BY <1>1, <1>2

\* The fields of a trade that is put together.
LEMMA TradeMade ==
  ASSUME NEW dir \in {-1, 1}, NEW stop \in -1..2, NEW hits \in Marks
  PROVE  /\ TradeAt(dir, stop, hits) \in Trades
         /\ TradeAt(dir, stop, hits).dir = dir
         /\ TradeAt(dir, stop, hits).stop = stop
         /\ TradeAt(dir, stop, hits).hits = hits
         /\ TradeAt(dir, stop, hits).left = Lots - TakenAt(hits)
         /\ TradeAt(dir, stop, hits) # NoTrade
<1>1. TradeAt(dir, stop, hits) \in Trades
  BY DEF Trades
<1>2. TradeAt(dir, stop, hits).dir # NoTrade.dir
  BY DEF TradeAt, NoTrade
<1>3. QED BY <1>1, <1>2 DEF TradeAt

\* The targets never take all the lots: one is left for the third.
LEMMA LeftOver ==
  ASSUME NEW hits \in Marks
  PROVE  TakenAt(hits) \in Nat /\ TakenAt(hits) < Lots /\ Lots - TakenAt(hits) \in Nat \ {0}
BY TradeAssumption DEF TakenAt, Marks

\* The targets that closed some of the lots.
Paid(hits) == {k \in hits : LotsAt(k) > 0}

\* The position that is a trade, where kind is not SATS.
PositionOf(t) ==
  IF t = NoTrade THEN FlatPosition
  ELSE [dir |-> t.dir, left |-> t.left, closed |-> Paid(t.hits)]
PositionAt(dir, hits) == [dir |-> dir, left |-> Lots - TakenAt(hits), closed |-> Paid(hits)]

\* The position of a trade depends on its direction and its targets.
LEMMA PositionOfTrade ==
  ASSUME NEW dir \in {-1, 1}, NEW stop \in -1..2, NEW hits \in Marks
  PROVE  PositionOf(TradeAt(dir, stop, hits)) = PositionAt(dir, hits)
<1>1. PICK t : t = TradeAt(dir, stop, hits)
  OBVIOUS
<1>2. t # NoTrade /\ t.dir = dir /\ t.hits = hits /\ t.left = Lots - TakenAt(hits)
  BY <1>1, TradeMade
<1>3. QED BY <1>1, <1>2, Zenon DEF PositionOf, PositionAt

\* r has reached the targets in hits, and told them.
HasReached(p, dir, stop, hits, r) ==
  /\ r.trade = TradeAt(dir, stop, hits)
  /\ Told(p, r.events, PositionAt(dir, hits))
  /\ Partials(r.events) /\ NoEntry(r.events)

\* The result that holds such a trade and such events.
LEMMA ReachedBy ==
  ASSUME NEW p, NEW dir, NEW stop, NEW hits, NEW t, NEW events, t = TradeAt(dir, stop, hits),
         Told(p, events, PositionAt(dir, hits)), Partials(events), NoEntry(events)
  PROVE  HasReached(p, dir, stop, hits, Result(t, events))
<1>1. PICK r : r = Result(t, events)
  OBVIOUS
<1>2. r.trade = t /\ r.events = events
  BY <1>1 DEF Result
<1>3. QED BY <1>1, <1>2, Zenon DEF HasReached

\* The event of a target that closes some of the lots.
PartialAt(dir, k) == [kind |-> "Partial", dir |-> dir, level |-> k, lots |-> LotsAt(k)]

\* A target is marked, and told if it is new and some of the lots are closed at it.
HitMarks(dir, stop, hits, k, r) ==
  /\ LotsAt(k) \in Nat
  /\ k \in hits \/ LotsAt(k) = 0
       => Hit(r, k) = Result(TradeAt(dir, stop, hits \cup {k}), r.events)
  /\ k \notin hits /\ LotsAt(k) > 0
       => /\ Hit(r, k) = Result(TradeAt(dir, stop, hits \cup {k}), Append(r.events, PartialAt(dir, k)))
          /\ LotsAt(k) < Lots - TakenAt(hits)
          /\ Lots - TakenAt(hits \cup {k}) = Lots - TakenAt(hits) - LotsAt(k)

\* `Trade::hit` on a trade whose targets are reached in their order.
LEMMA HitIs ==
  ASSUME NEW dir \in {-1, 1}, NEW stop \in -1..2, NEW hits \in Marks, NEW k \in Levels,
         hits \cup {k} \in Marks, NEW r, r.trade = TradeAt(dir, stop, hits)
  PROVE  HitMarks(dir, stop, hits, k, r)
<1> USE DEF HitMarks
<1>1. PICK t, events : t = r.trade /\ events = r.events
  OBVIOUS
<1>2. /\ t = [dir |-> dir, stop |-> stop, hits |-> hits, left |-> Lots - TakenAt(hits)]
      /\ t.hits = hits /\ t.left = Lots - TakenAt(hits) /\ t.dir = dir
  BY <1>1 DEF TradeAt
<1>3. LotsAt(k) \in Nat /\ TakenAt(hits) \in Nat
  BY TradeAssumption, LeftOver DEF LotsAt, Levels
<1>4. PICK u : u = TradeAt(dir, stop, hits \cup {k})
  OBVIOUS
<1>5. CASE k \in hits
  <2>1. hits \cup {k} = hits
    BY <1>5
  <2>2. [t EXCEPT !.hits = @ \cup {k}, !.left = @ - 0] = t
    <3>1. t.hits \cup {k} = hits /\ t.left - 0 = Lots - TakenAt(hits)
      BY <1>2, <1>3, <2>1, TradeAssumption
    <3>2. [t EXCEPT !.hits = hits, !.left = Lots - TakenAt(hits)] = t
      BY ONLY <1>2
    <3>3. QED BY <3>1, <3>2, Zenon
  <2>3. Hit(r, k) = Result(t, events)
    <3>1. (IF k \in r.trade.hits THEN 0 ELSE Smaller(LotsAt(k), r.trade.left)) = 0
      BY <1>1, <1>2, <1>5, Zenon
    <3>2. Hit(r, k) = LET v == [t EXCEPT !.hits = @ \cup {k}, !.left = @ - 0] IN
                      IF 0 > 0 THEN Result(v, Append(events, PartialOf(v, k, 0))) ELSE Result(v, events)
      BY <1>1, <3>1, Zenon DEF Hit
    <3>3. QED BY <2>2, <3>2
  <2>4. t = u
    BY <1>1, <1>4, <2>1
  <2>5. QED BY <1>1, <1>3, <1>4, <1>5, <2>3, <2>4
<1>6. CASE k \notin hits
  <2>1. TakenAt(hits \cup {k}) = TakenAt(hits) + LotsAt(k)
    BY <1>6, TradeAssumption DEF TakenAt, LotsAt, Levels, Marks
  <2>2. TakenAt(hits \cup {k}) \in Nat /\ TakenAt(hits \cup {k}) < Lots
    BY LeftOver
  <2>3. PICK n \in Nat : n = LotsAt(k)
    BY <1>3
  <2>4. PICK left \in Nat : left = Lots - TakenAt(hits)
    BY LeftOver
  <2>5. n < left /\ left - n = Lots - TakenAt(hits \cup {k})
    BY <1>3, <2>1, <2>2, <2>3, <2>4, TradeAssumption
  <2>6. Smaller(n, left) = n
    BY <2>5 DEF Smaller
  <2>7. [t EXCEPT !.hits = @ \cup {k}, !.left = @ - n] = u
    <3>1. PICK h, l : h = hits \cup {k} /\ l = Lots - TakenAt(hits \cup {k})
      OBVIOUS
    <3>2. t.hits \cup {k} = h /\ t.left - n = l
      BY <1>2, <2>4, <2>5, <3>1
    <3>3. [t EXCEPT !.hits = h, !.left = l] = [dir |-> dir, stop |-> stop, hits |-> h, left |-> l]
      <4>1. PICK before : t = [dir |-> dir, stop |-> stop, hits |-> hits, left |-> before]
        BY <1>2
      <4>2. PICK m : m = [t EXCEPT !.hits = h]
        OBVIOUS
      <4>3. m = [dir |-> dir, stop |-> stop, hits |-> h, left |-> before]
        BY ONLY <4>1, <4>2
      <4>4. [m EXCEPT !.left = l] = [dir |-> dir, stop |-> stop, hits |-> h, left |-> l]
        BY ONLY <4>3
      <4>5. [t EXCEPT !.hits = h, !.left = l] = [m EXCEPT !.left = l]
        BY ONLY <4>2, Zenon
      <4>6. QED BY ONLY <4>4, <4>5
    <3>4. u = [dir |-> dir, stop |-> stop, hits |-> h, left |-> l]
      BY <1>4, <3>1, Zenon DEF TradeAt
    <3>5. QED BY <3>2, <3>3, <3>4, Zenon
  <2>8. Hit(r, k) = LET v == [t EXCEPT !.hits = @ \cup {k}, !.left = @ - n] IN
                    IF n > 0 THEN Result(v, Append(events, PartialOf(v, k, n))) ELSE Result(v, events)
    <3>1. (IF k \in r.trade.hits THEN 0 ELSE Smaller(LotsAt(k), r.trade.left)) = n
      BY <1>1, <1>2, <1>6, <2>3, <2>4, <2>6, Zenon
    <3>2. QED BY <1>1, <3>1, Zenon DEF Hit
  <2>9. CASE n > 0
    <3>1. Hit(r, k) = Result(u, Append(events, PartialOf(u, k, n)))
      BY <2>7, <2>8, <2>9, Zenon
    <3>2. u.dir = dir
      BY <1>4 DEF TradeAt
    <3>3. PartialOf(u, k, n) = PartialAt(dir, k)
      BY <2>3, <3>2, Zenon DEF PartialOf, PartialAt
    <3>4. ~(LotsAt(k) = 0) /\ LotsAt(k) < Lots - TakenAt(hits)
          /\ Lots - TakenAt(hits \cup {k}) = Lots - TakenAt(hits) - LotsAt(k)
      BY <2>3, <2>4, <2>5, <2>9
    <3>5. QED BY <1>1, <1>3, <1>4, <1>6, <3>1, <3>3, <3>4, Zenon
  <2>10. CASE n = 0
    <3>1. ~(n > 0) /\ ~(LotsAt(k) > 0)
      BY <2>3, <2>10
    <3>2. Hit(r, k) = Result(u, events)
      BY <2>7, <2>8, <3>1, Zenon
    <3>3. QED BY <1>1, <1>3, <1>4, <3>1, <3>2, Zenon
  <2>11. QED BY <2>9, <2>10
<1>7. QED BY <1>5, <1>6

\* The next target, where kind is not SATS.
LEMMA HitKeeps ==
  ASSUME kind # "sats", NEW p, NEW dir \in {-1, 1}, NEW stop \in -1..2,
         NEW hits \in Marks, NEW k \in Levels, hits \cup {k} \in Marks,
         NEW r, HasReached(p, dir, stop, hits, r)
  PROVE  HasReached(p, dir, stop, hits \cup {k}, Hit(r, k))
<1>1. PICK events \in Seq(Events) : events = r.events
  BY DEF HasReached, Told
<1>2. /\ r.trade = TradeAt(dir, stop, hits) /\ Told(p, events, PositionAt(dir, hits))
      /\ Partials(events) /\ NoEntry(events)
  BY <1>1, Zenon DEF HasReached
<1>3. PICK u : u = TradeAt(dir, stop, hits \cup {k})
  OBVIOUS
<1>8. HitMarks(dir, stop, hits, k, r)
  BY <1>2, HitIs
<1> USE DEF HitMarks
<1>4. PICK n \in Nat : n = LotsAt(k)
  BY <1>8
<1>5. CASE k \in hits \/ n = 0
  <2>1. Hit(r, k) = Result(u, events)
    BY <1>1, <1>3, <1>4, <1>5, <1>8, Zenon
  <2>2. PositionAt(dir, hits \cup {k}) = PositionAt(dir, hits)
    <3>1. CASE k \in hits
      <4>1. hits \cup {k} = hits
        BY <3>1
      <4>2. QED BY <4>1, Zenon
    <3>2. CASE k \notin hits /\ n = 0
      <4>1. ~(LotsAt(k) > 0) /\ TakenAt(hits \cup {k}) = TakenAt(hits)
        BY <1>4, <3>2, TradeAssumption DEF TakenAt, LotsAt, Levels, Marks
      <4>2. Paid(hits \cup {k}) = Paid(hits)
        BY <4>1, Zenon DEF Paid
      <4>3. QED BY <4>1, <4>2, Zenon DEF PositionAt
    <3>3. QED BY <1>5, <3>1, <3>2
  <2>3. QED BY <1>2, <1>3, <2>1, <2>2, ReachedBy, Zenon
<1>6. CASE k \notin hits /\ n # 0
  <2>1. n > 0
    BY <1>6
  <2>2. PICK e : e = PartialAt(dir, k)
    OBVIOUS
  <2>3. /\ Hit(r, k) = Result(u, Append(events, e))
        /\ LotsAt(k) < Lots - TakenAt(hits)
        /\ Lots - TakenAt(hits \cup {k}) = Lots - TakenAt(hits) - LotsAt(k)
    BY <1>1, <1>3, <1>4, <1>6, <1>8, <2>1, <2>2, Zenon
  <2>4. PICK left \in Nat : left = Lots - TakenAt(hits)
    BY LeftOver
  <2>5. n < left /\ left - n = Lots - TakenAt(hits \cup {k})
    BY <1>4, <2>3, <2>4
  <2>6. Paid(hits) \in SUBSET Levels /\ \A j \in Paid(hits) : j < k
    BY <1>6 DEF Paid, Marks, Levels
  <2>7. Paid(hits \cup {k}) = Paid(hits) \cup {k}
    BY <1>4, <2>1 DEF Paid
  <2>8. PICK c : c = Paid(hits)
    OBVIOUS
  <2>9. Told(p, events, [dir |-> dir, left |-> left, closed |-> c])
    BY <1>2, <2>4, <2>8 DEF PositionAt
  <2>10. u.dir = dir
    BY <1>3 DEF TradeAt
  <2>11. PartialFits(p, events, dir, left, c, u, n, k)
    BY <2>1, <2>5, <2>6, <2>8, <2>9, <2>10 DEF PartialFits
  <2>12. PartialIsTold(p, events, dir, left, c, u, n, k)
    BY <2>11, ToldPartial, Zenon
  <2>13. PartialOf(u, k, n) = e
    BY <1>4, <2>2, <2>10, Zenon DEF PartialOf, PartialAt
  <2>14. /\ e \in Events /\ e.kind = "Partial"
         /\ Told(p, Append(events, e), [dir |-> dir, left |-> left - n, closed |-> Paid(hits) \cup {k}])
    BY <2>8, <2>12, <2>13, Zenon DEF PartialIsTold
  <2>15. Told(p, Append(events, e), PositionAt(dir, hits \cup {k}))
    BY <2>5, <2>7, <2>14, Zenon DEF PositionAt
  <2>16. Partials(Append(events, e)) /\ NoEntry(Append(events, e))
    BY <1>2, <2>14, OneMore
  <2>17. QED BY <1>3, <2>3, <2>15, <2>16, ReachedBy, Zenon
<1>7. QED BY <1>5, <1>6

\* All the targets that a bar or a tick reached.
LEMMA HitAllKeeps ==
  ASSUME kind # "sats", NEW dir \in {-1, 1}, NEW stop \in -1..2,
         NEW hits \in Marks, NEW levels \in SUBSET Levels, hits \cup levels \in Marks
  PROVE  HasReached(PositionAt(dir, hits), dir, stop, hits \cup levels,
                    HitAll(TradeAt(dir, stop, hits), levels))
<1> DEFINE at(r, k) == IF k \in levels THEN Hit(r, k) ELSE r
<1> DEFINE p == PositionAt(dir, hits)
<1> DEFINE upTo(k) == hits \cup (levels \cap 1..k)
<1>1. PICK r : r = Result(TradeAt(dir, stop, hits), <<>>)
  OBVIOUS
<1>2. HasReached(p, dir, stop, hits, r)
  BY <1>1, ToldNothing, Nothing, ReachedBy, Zenon
<1>3. upTo(1) \in Marks /\ upTo(2) \in Marks /\ upTo(3) = hits \cup levels
  BY DEF Marks, Levels
<1>4. /\ 1 \in levels => upTo(1) = hits \cup {1}
      /\ 1 \notin levels => upTo(1) = hits
  BY DEF Levels
<1>5. /\ 2 \in levels => upTo(2) = upTo(1) \cup {2}
      /\ 2 \notin levels => upTo(2) = upTo(1)
  BY DEF Levels
<1>6. /\ 3 \in levels => upTo(3) = upTo(2) \cup {3}
      /\ 3 \notin levels => upTo(3) = upTo(2)
  BY DEF Levels
<1>7. 1 \in Levels /\ 2 \in Levels /\ 3 \in Levels
  BY DEF Levels
<1> HIDE DEF p, upTo
<1>8. PICK r1 : r1 = at(r, 1)
  OBVIOUS
<1>9. HasReached(p, dir, stop, upTo(1), r1)
  <2>1. CASE 1 \in levels
    <3>1. PICK before \in Marks : before = hits
      BY <1>3
    <3>2. before \cup {1} = upTo(1) /\ before \cup {1} \in Marks
      BY <1>3, <1>4, <2>1, <3>1
    <3>3. HasReached(p, dir, stop, before, r) /\ Hit(r, 1) = r1
      BY <1>2, <1>8, <2>1, <3>1
    <3>4. HasReached(p, dir, stop, before \cup {1}, Hit(r, 1))
      BY <1>7, <3>2, <3>3, HitKeeps
    <3>5. QED BY <3>2, <3>3, <3>4, Zenon
  <2>2. CASE 1 \notin levels
    BY <1>2, <1>4, <1>8, <2>2, Zenon
  <2>3. QED BY <2>1, <2>2
<1>10. PICK r2 : r2 = at(r1, 2)
  OBVIOUS
<1>11. HasReached(p, dir, stop, upTo(2), r2)
  <2>1. CASE 2 \in levels
    <3>1. PICK before \in Marks : before = upTo(1)
      BY <1>3
    <3>2. before \cup {2} = upTo(2) /\ before \cup {2} \in Marks
      BY <1>3, <1>5, <2>1, <3>1
    <3>3. HasReached(p, dir, stop, before, r1) /\ Hit(r1, 2) = r2
      BY <1>9, <1>10, <2>1, <3>1
    <3>4. HasReached(p, dir, stop, before \cup {2}, Hit(r1, 2))
      BY <1>7, <3>2, <3>3, HitKeeps
    <3>5. QED BY <3>2, <3>3, <3>4, Zenon
  <2>2. CASE 2 \notin levels
    BY <1>5, <1>9, <1>10, <2>2, Zenon
  <2>3. QED BY <2>1, <2>2
<1>12. PICK r3 : r3 = at(r2, 3)
  OBVIOUS
<1>13. HasReached(p, dir, stop, upTo(3), r3)
  <2>1. CASE 3 \in levels
    <3>1. PICK before \in Marks : before = upTo(2)
      BY <1>3
    <3>2. before \cup {3} = upTo(3) /\ before \cup {3} \in Marks
      BY <1>3, <1>6, <2>1, <3>1
    <3>3. HasReached(p, dir, stop, before, r2) /\ Hit(r2, 3) = r3
      BY <1>11, <1>12, <2>1, <3>1
    <3>4. HasReached(p, dir, stop, before \cup {3}, Hit(r2, 3))
      BY <1>7, <3>2, <3>3, HitKeeps
    <3>5. QED BY <3>2, <3>3, <3>4, Zenon
  <2>2. CASE 3 \notin levels
    BY <1>6, <1>11, <1>12, <2>2, Zenon
  <2>3. QED BY <2>1, <2>2
<1>14. HitAll(TradeAt(dir, stop, hits), levels) = r3
  BY <1>1, <1>8, <1>10, <1>12, Zenon DEF HitAll
<1>15. QED BY <1>3, <1>13, <1>14, Zenon DEF p

-----------------------------------------------------------------------------
(* How a call settles an open trade *)

Settles(t, s) ==
  /\ Told(PositionOf(t), s.events, PositionOf(s.trade))
  /\ NoEntry(s.events)
  /\ \/ s.trade = NoTrade /\ ~Partials(s.events)
     \/ Sound(s.trade) /\ t.stop <= s.trade.stop /\ t.hits \subseteq s.trade.hits

\* `Trade::finish` after some targets settles the trade: one exit of all the
\* rest.
LEMMA FinishedSettles ==
  ASSUME NEW dir \in {-1, 1}, NEW stop \in -1..2, NEW hits \in Marks, NEW after \in Marks,
         NEW h, HasReached(PositionAt(dir, hits), dir, stop, after, h),
         NEW gain \in Int, NEW reason \in Reasons
  PROVE  Settles(TradeAt(dir, stop, hits), Finished(h.trade, h.events, gain, reason))
<1>1. PICK p, q, t, events :
        /\ p = PositionAt(dir, hits) /\ q = PositionAt(dir, after)
        /\ t = h.trade /\ events = h.events
  OBVIOUS
<1>2. t = TradeAt(dir, stop, after) /\ Told(p, events, q) /\ NoEntry(events)
  BY <1>1, Zenon DEF HasReached
<1>3. events \in Seq(Events)
  BY <1>2 DEF Told
<1>4. q.left \in Nat \ {0} /\ q.dir \in {-1, 1} /\ t.dir = q.dir /\ t.left = q.left
  BY <1>1, <1>2, LeftOver, TradeMade DEF PositionAt
<1>5. PICK e : e = ExitOf(t, gain, reason)
  OBVIOUS
<1>6. e \in Events /\ e.kind = "Exit" /\ Told(p, Append(events, e), FlatPosition)
  BY <1>2, <1>4, <1>5, ToldExit
<1>7. NoEntry(Append(events, e)) /\ ~Partials(Append(events, e))
  BY <1>2, <1>3, <1>6, OneMore
<1>8. PICK s : s = Finished(h.trade, h.events, gain, reason)
  OBVIOUS
<1>9. s.trade = NoTrade /\ s.events = Append(events, e)
  BY <1>1, <1>5, <1>8 DEF Finished, Result
<1>10. PositionOf(s.trade) = FlatPosition
  BY <1>9, Zenon DEF PositionOf
<1>11. PositionOf(TradeAt(dir, stop, hits)) = p
  BY <1>1, PositionOfTrade
<1>12. QED BY <1>6, <1>7, <1>8, <1>9, <1>10, <1>11, Zenon DEF Settles

\* No target is reached, nothing is told.
LEMMA ReachedNothing ==
  ASSUME NEW dir \in {-1, 1}, NEW stop \in -1..2, NEW hits \in Marks
  PROVE  HasReached(PositionAt(dir, hits), dir, stop, hits, Result(TradeAt(dir, stop, hits), <<>>))
BY ToldNothing, Nothing, ReachedBy, Zenon

\* The stop follows the targets; where it stays it is the same trade.
LEMMA GoesOn ==
  ASSUME NEW dir \in {-1, 1}, NEW stop \in -1..2, NEW hits \in Marks, NEW after \in Marks,
         hits \subseteq after, NEW h, HasReached(PositionAt(dir, hits), dir, stop, after, h),
         NEW to \in -1..2, stop <= to, to < Reached(after),
         NEW t, t = TradeAt(dir, to, after)
  PROVE  Settles(TradeAt(dir, stop, hits), Result(t, h.events))
<1>1. PICK p, q, events :
        p = PositionAt(dir, hits) /\ q = PositionAt(dir, after) /\ events = h.events
  OBVIOUS
<1>2. Told(p, events, q) /\ NoEntry(events)
  BY <1>1, Zenon DEF HasReached
<1>3. PICK s : s = Result(t, h.events)
  OBVIOUS
<1>4. s.trade = t /\ s.events = events
  BY <1>1, <1>3 DEF Result
<1>5. PositionOf(t) = q /\ PositionOf(TradeAt(dir, stop, hits)) = p
  BY <1>1, PositionOfTrade
<1>6. Sound(t) /\ t.stop = to /\ t.hits = after
  BY TradeMade DEF Sound
<1>7. TradeAt(dir, stop, hits).stop = stop /\ TradeAt(dir, stop, hits).hits = hits
  BY TradeMade
<1>8. QED BY <1>2, <1>3, <1>4, <1>5, <1>6, <1>7, Zenon DEF Settles

\* The step stop moves up to a level behind the targets, or stays.
LEMMA RaisedIs ==
  ASSUME NEW dir \in {-1, 1}, NEW stop \in -1..2, NEW hits \in Marks, stop < Reached(hits),
         NEW level \in -1..2, level < Reached(hits)
  PROVE  \E to \in -1..2 : /\ stop <= to /\ to < Reached(hits)
                           /\ Raised(TradeAt(dir, stop, hits), level) = TradeAt(dir, to, hits)
<1>1. PICK t : t = TradeAt(dir, stop, hits)
  OBVIOUS
<1>2. t = [dir |-> dir, stop |-> stop, hits |-> hits, left |-> Lots - TakenAt(hits)] /\ t.stop = stop
  BY <1>1 DEF TradeAt
<1>3. PICK to \in -1..2 : to = IF StepStop /\ level > stop THEN level ELSE stop
  OBVIOUS
<1>4. stop <= to /\ to < Reached(hits)
  BY <1>3 DEF Reached
<1>5. [t EXCEPT !.stop = to] = TradeAt(dir, to, hits)
  BY <1>2 DEF TradeAt
<1>6. Raised(t, level) = [t EXCEPT !.stop = to]
  <2>1. (IF StepStop /\ level > t.stop THEN level ELSE t.stop) = to
    BY <1>2, <1>3, Zenon
  <2>2. QED BY <2>1, Zenon DEF Raised
<1>7. QED BY <1>1, <1>4, <1>5, <1>6

-----------------------------------------------------------------------------
(* Bars *)

\* Prices of bars are integers.
LEMMA BarType ==
  ASSUME NEW b \in Bars
  PROVE  b.open \in Int /\ b.high \in Int /\ b.low \in Int /\ b.close \in Int
BY TradeAssumption DEF Bars

\* So are gains.
LEMMA GainType ==
  ASSUME NEW t, t.dir \in {-1, 1}, NEW price \in Int
  PROVE  Gain(t, price) \in Int
BY DEF Gain

\* A bar that touches a target touches all those before it.
LEMMA TouchedIs ==
  ASSUME NEW dir \in {-1, 1}, NEW stop \in -1..2, NEW hits \in Marks, NEW b \in Bars
  PROVE  /\ Touched(TradeAt(dir, stop, hits), b) \in SUBSET Levels
         /\ hits \cup Touched(TradeAt(dir, stop, hits), b) \in Marks
<1>1. PICK t : t = TradeAt(dir, stop, hits)
  OBVIOUS
<1>2. t.dir = dir /\ t.hits = hits
  BY <1>1, TradeMade
<1>3. PICK best \in Int : best = Best(t, b)
  BY <1>2, BarType DEF Best, Gain
<1>4. Touched(t, b) = {k \in Levels \ hits : best >= k}
  BY <1>2, <1>3, Zenon DEF Touched
<1>5. {k \in Levels \ hits : best >= k} \in SUBSET Levels
  OBVIOUS
<1>6. hits \cup {k \in Levels \ hits : best >= k} \in Marks
  <2>1. CASE best < 1
    BY <2>1 DEF Marks, Levels
  <2>2. CASE best = 1
    BY <2>2 DEF Marks, Levels
  <2>3. CASE best = 2
    BY <2>3 DEF Marks, Levels
  <2>4. CASE best > 2
    BY <2>4 DEF Marks, Levels
  <2>5. QED BY <2>1, <2>2, <2>3, <2>4
<1>7. QED BY <1>1, <1>4, <1>5, <1>6

\* A trade whose stop the bar reached.
LEMMA StoppedSettles ==
  ASSUME NEW dir \in {-1, 1}, NEW stop \in -1..2, NEW hits \in Marks, NEW b \in Bars
  PROVE  Settles(TradeAt(dir, stop, hits), StoppedOut(TradeAt(dir, stop, hits), b))
<1>1. PICK t : t = TradeAt(dir, stop, hits)
  OBVIOUS
<1>2. t.dir = dir /\ t.stop = stop
  BY <1>1, TradeMade
<1>3. PICK gain \in Int : gain = Smaller(Gain(t, b.open), t.stop)
  BY <1>2, BarType DEF Smaller, Gain
<1>4. PICK h : h = Result(t, <<>>)
  OBVIOUS
<1>5. h.trade = t /\ h.events = <<>>
  BY <1>4 DEF Result
<1>6. HasReached(PositionAt(dir, hits), dir, stop, hits, h)
  BY <1>1, <1>4, ReachedNothing
<1>7. Settles(t, Finished(h.trade, h.events, gain, "stop"))
  <2>1. PICK reason \in Reasons : reason = "stop"
    BY DEF Reasons
  <2>2. Settles(t, Finished(h.trade, h.events, gain, reason))
    BY <1>1, <1>6, FinishedSettles
  <2>3. QED BY <2>1, <2>2, Zenon
<1>8. QED BY <1>1, <1>3, <1>5, <1>7, Zenon DEF StoppedOut

\* A trade that is closed whatever its targets.
LEMMA ClosedSettles ==
  ASSUME NEW t \in Trades, NEW gain \in Int, NEW reason \in Reasons
  PROVE  Settles(t, Finished(t, <<>>, gain, reason))
<1>1. PICK dir \in {-1, 1}, stop \in -1..2, hits \in Marks : t = TradeAt(dir, stop, hits)
  BY DEF Trades
<1>2. PICK h : h = Result(t, <<>>)
  OBVIOUS
<1>3. h.trade = t /\ h.events = <<>>
  BY <1>2 DEF Result
<1>4. HasReached(PositionAt(dir, hits), dir, stop, hits, h)
  BY <1>1, <1>2, ReachedNothing
<1>5. Settles(t, Finished(h.trade, h.events, gain, reason))
  BY <1>1, <1>4, FinishedSettles
<1>6. QED BY <1>3, <1>5, Zenon

-----------------------------------------------------------------------------
(* The calls of the engines *)

\* A call on a bar: the trade before and after it, and its events.
Calls(t, after, events) ==
  /\ Told(PositionOf(t), events, PositionOf(after))
  /\ after = NoTrade \/ Sound(after)
  /\ EntryLast(events)
  /\ Partials(events) =>
       \/ t = NoTrade /\ after = NoTrade
       \/ t # NoTrade /\ after # NoTrade /\ t.stop <= after.stop /\ t.hits \subseteq after.hits

\* What was open is settled first, then the signal may open a trade.
Before(t, s) ==
  \/ t = NoTrade /\ s = Result(NoTrade, <<>>)
  \/ Sound(t) /\ Settles(t, s)

\* A sound trade is open.
LEMMA SoundIsOpen ==
  ASSUME NEW t, Sound(t)
  PROVE  t # NoTrade /\ t.dir \in {-1, 1}
<1>1. t \in Trades
  BY DEF Sound
<1>2. t.dir \in {-1, 1}
  BY <1>1, TradeIs
<1>3. NoTrade.dir = 0
  BY DEF NoTrade
<1>4. QED BY <1>2, <1>3

\* A trade that was just opened is sound, and its position is the whole size.
LEMMA OpenedIs ==
  ASSUME kind # "sats", NEW dir \in {-1, 1}
  PROVE  /\ Sound(Opened(dir))
         /\ PositionOf(Opened(dir)) = [dir |-> dir, left |-> Size, closed |-> {}]
<1>1. {} \in Marks /\ -1 \in -1..2 /\ -1 < Reached({})
  BY DEF Marks, Reached
<1>2. TakenAt({}) = 0 /\ Lots - 0 = Lots /\ Size = Lots
  BY SizeType DEF TakenAt, Size
<1>3. Opened(dir) = TradeAt(dir, -1, {})
  BY <1>2, Zenon DEF Opened, TradeAt
<1>4. Sound(Opened(dir))
  BY <1>1, <1>3, TradeMade DEF Sound
<1>5. Paid({}) = {}
  BY DEF Paid
<1>6. PositionOf(Opened(dir)) = PositionAt(dir, {})
  BY <1>1, <1>3, PositionOfTrade
<1>7. QED BY <1>2, <1>4, <1>5, <1>6, Zenon DEF PositionAt

\* After what was open is settled a signal may open a trade: one entry, the
\* last event.
LEMMA EntersOrNot ==
  ASSUME kind # "sats", NEW t, NEW s, Before(t, s), NEW signal \in {-1, 0, 1}
  PROVE  /\ signal # 0 /\ s.trade = NoTrade
              => Calls(t, Opened(signal), Append(s.events, EntryOf(signal)))
         /\ Calls(t, s.trade, s.events) /\ NoEntry(s.events)
<1>1. ASSUME t = NoTrade, s = Result(NoTrade, <<>>)
      PROVE  /\ Told(PositionOf(t), s.events, PositionOf(s.trade)) /\ NoEntry(s.events)
             /\ s.trade = NoTrade
  <2>1. s.trade = NoTrade /\ s.events = <<>>
    BY <1>1 DEF Result
  <2>2. QED BY <1>1, <2>1, ToldNothing, Nothing, Zenon
<1>2. /\ Told(PositionOf(t), s.events, PositionOf(s.trade)) /\ NoEntry(s.events)
      /\ s.trade = NoTrade \/ Sound(s.trade)
  BY <1>1, Zenon DEF Before, Settles
<1>3. s.events \in Seq(Events)
  BY <1>2 DEF Told
<1>4. EntryLast(s.events)
  BY <1>2, Zenon DEF NoEntry, EntryLast
<1>5. ASSUME Partials(s.events)
      PROVE  \/ t = NoTrade /\ s.trade = NoTrade
             \/ /\ t # NoTrade /\ s.trade # NoTrade
                /\ t.stop <= s.trade.stop /\ t.hits \subseteq s.trade.hits
  BY <1>1, <1>5, SoundIsOpen, Zenon DEF Before, Settles
<1>6. Calls(t, s.trade, s.events)
  BY <1>2, <1>4, <1>5, Zenon DEF Calls
<1>7. ASSUME signal # 0, s.trade = NoTrade
      PROVE  Calls(t, Opened(signal), Append(s.events, EntryOf(signal)))
  <2>1. signal \in {-1, 1}
    BY <1>7
  <2>2. PICK events \in Seq(Events) : events = s.events
    BY <1>3
  <2>3. Told(PositionOf(t), events, FlatPosition)
    BY <1>2, <1>7, <2>2, Zenon DEF PositionOf
  <2>4. Told(PositionOf(t), Append(events, EntryOf(signal)), PositionOf(Opened(signal)))
    BY <2>1, <2>3, ToldEntry, OpenedIs
  <2>5. PICK e \in Events : e = EntryOf(signal) /\ e.kind = "Entry"
    BY <2>1, EntryTold
  <2>6. NoEntry(events)
    BY <1>2, <2>2
  <2>7. EntryLast(Append(events, e)) /\ ~Partials(Append(events, e))
    BY <2>5, <2>6, OneMore
  <2>8. Sound(Opened(signal))
    BY <2>1, OpenedIs
  <2>9. QED BY <2>2, <2>4, <2>5, <2>7, <2>8, Zenon DEF Calls
<1>8. QED BY <1>2, <1>6, <1>7

-----------------------------------------------------------------------------
(* WVAD *)

\* WVAD settles a trade on a bar: stop, third target, reversal, or the stop's
\* move.
LEMMA WvadSettles ==
  ASSUME kind # "sats", NEW t, Sound(t), NEW b \in Bars, NEW signal \in {-1, 0, 1}
  PROVE  Settles(t, WvadSettled(t, b, signal))
<1>1. PICK dir \in {-1, 1}, stop \in -1..2, hits \in Marks :
        t = TradeAt(dir, stop, hits) /\ stop < Reached(hits)
  BY TradeIs DEF Sound
<1>2. PICK touched \in SUBSET Levels : touched = Touched(t, b) /\ hits \cup touched \in Marks
  BY <1>1, TouchedIs
<1>3. PICK after \in Marks : after = hits \cup touched
  BY <1>2
<1>4. PICK h : h = HitAll(t, touched)
  OBVIOUS
<1>5. HasReached(PositionAt(dir, hits), dir, stop, after, h)
  BY <1>1, <1>3, <1>4, HitAllKeeps
<1>6. PICK u : u = h.trade /\ u = TradeAt(dir, stop, after)
  BY <1>5 DEF HasReached
<1>7. t.dir = dir /\ u.hits = after /\ u.stop = stop
  BY <1>1, <1>6, TradeMade
<1>8. CASE Stopped(t, b)
  <2>1. WvadSettled(t, b, signal) = StoppedOut(t, b)
    BY <1>8, Zenon DEF WvadSettled
  <2>2. QED BY <1>1, <2>1, StoppedSettles
<1>9. CASE ~Stopped(t, b) /\ 3 \in touched
  <2>1. WvadSettled(t, b, signal) = Finished(h.trade, h.events, 3, "TP3")
    BY <1>2, <1>4, <1>9, Zenon DEF WvadSettled
  <2>2. PICK reason \in Reasons, gain \in Int : reason = "TP3" /\ gain = 3
    BY DEF Reasons
  <2>3. Settles(t, Finished(h.trade, h.events, gain, reason))
    BY <1>1, <1>5, FinishedSettles
  <2>4. QED BY <2>1, <2>2, <2>3, Zenon
<1>10. CASE ~Stopped(t, b) /\ 3 \notin touched /\ signal = -t.dir
  <2>1. WvadSettled(t, b, signal) = Finished(h.trade, h.events, Gain(t, b.close), "Reversal")
    BY <1>2, <1>4, <1>10, Zenon DEF WvadSettled
  <2>2. PICK gain \in Int : gain = Gain(t, b.close)
    BY <1>7, BarType, GainType
  <2>3. PICK reason \in Reasons : reason = "Reversal"
    BY DEF Reasons
  <2>4. Settles(t, Finished(h.trade, h.events, gain, reason))
    BY <1>1, <1>5, FinishedSettles
  <2>5. QED BY <2>1, <2>2, <2>3, <2>4, Zenon
<1>11. CASE ~Stopped(t, b) /\ 3 \notin touched /\ signal # -t.dir
  <2>1. PICK level : level = WvadLevelStop(u)
    OBVIOUS
  <2>2. WvadSettled(t, b, signal) = Result(Raised(u, level), h.events)
    BY <1>2, <1>4, <1>6, <1>11, <2>1, Zenon DEF WvadSettled
  <2>3. stop < Reached(after)
    BY <1>1, <1>3 DEF Reached
  <2>4. level \in -1..2 /\ level < Reached(after)
    BY <1>7, <2>1, <2>3 DEF WvadLevelStop, Reached, Marks
  <2>5. PICK to \in -1..2 : /\ stop <= to /\ to < Reached(after)
                            /\ Raised(u, level) = TradeAt(dir, to, after)
    BY <1>6, <2>3, <2>4, RaisedIs
  <2>6. hits \subseteq after
    BY <1>3
  <2>7. Settles(t, Result(Raised(u, level), h.events))
    BY <1>1, <1>5, <2>5, <2>6, GoesOn
  <2>8. QED BY <2>2, <2>7
<1>12. QED BY <1>8, <1>9, <1>10, <1>11

WvadEngines == [trade : Trades \cup {NoTrade}]

\* `on_bar` of WVAD is a call that its runner can follow, and enters only if it
\* may.
LEMMA WvadBar ==
  ASSUME kind # "sats", NEW e \in WvadEngines, e.trade = NoTrade \/ Sound(e.trade),
         NEW b \in Bars, NEW i \in WvadInputs, NEW allowed \in BOOLEAN,
         NEW r, r = WvadOnBar(e, b, i, allowed)
  PROVE  /\ r.trade \in WvadEngines
         /\ Calls(e.trade, r.trade.trade, r.events)
         /\ ~allowed => NoEntry(r.events)
<1>1. PICK signal \in {-1, 0, 1} : signal = WvadSignal(i, allowed) /\ (~allowed => signal = 0)
  BY DEF WvadSignal, WvadInputs
<1>2. PICK t : t = e.trade
  OBVIOUS
<1>3. PICK s : s = IF t = NoTrade THEN Result(NoTrade, <<>>) ELSE WvadSettled(t, b, signal)
  OBVIOUS
<1>4. Before(t, s)
  <2>1. CASE t = NoTrade
    BY <1>3, <2>1, Zenon DEF Before
  <2>2. CASE t # NoTrade
    BY <1>2, <1>3, <2>2, WvadSettles DEF Before
  <2>3. QED BY <2>1, <2>2
<1>5. /\ signal # 0 /\ s.trade = NoTrade
              => Calls(t, Opened(signal), Append(s.events, EntryOf(signal)))
      /\ Calls(t, s.trade, s.events) /\ NoEntry(s.events)
  BY <1>4, EntersOrNot
<1>6. CASE signal # 0 /\ s.trade = NoTrade
  <2>1. r = Result([e EXCEPT !.trade = Opened(signal)], Append(s.events, EntryOf(signal)))
    BY <1>1, <1>2, <1>3, <1>6, Zenon DEF WvadOnBar
  <2>2. PICK u \in Trades : u = Opened(signal)
    BY <1>6, OpenedIs DEF Sound
  <2>3. PICK f : f = [e EXCEPT !.trade = u]
    OBVIOUS
  <2>4. f \in WvadEngines /\ f.trade = u
    BY <2>3 DEF WvadEngines
  <2>5. r.trade = f /\ r.events = Append(s.events, EntryOf(signal))
    BY <2>1, <2>2, <2>3 DEF Result
  <2>6. QED BY <1>1, <1>2, <1>5, <1>6, <2>2, <2>4, <2>5
<1>7. CASE ~(signal # 0 /\ s.trade = NoTrade)
  <2>1. r = Result([e EXCEPT !.trade = s.trade], s.events)
    BY <1>1, <1>2, <1>3, <1>7, Zenon DEF WvadOnBar
  <2>2. PICK u \in Trades \cup {NoTrade} : u = s.trade
    BY <1>5 DEF Calls, Sound
  <2>3. PICK f : f = [e EXCEPT !.trade = u]
    OBVIOUS
  <2>4. f \in WvadEngines /\ f.trade = u
    BY <2>3 DEF WvadEngines
  <2>5. r.trade = f /\ r.events = s.events
    BY <2>1, <2>2, <2>3 DEF Result
  <2>6. QED BY <1>2, <1>5, <2>2, <2>4, <2>5
<1>8. QED BY <1>6, <1>7

\* A trade that a tick or the schedule closes.
LEMMA ClosedCalls ==
  ASSUME kind # "sats", NEW t, Sound(t), NEW price \in Int, NEW reason \in Reasons,
         NEW s, s = Finished(t, <<>>, Gain(t, price), reason)
  PROVE  /\ s.trade = NoTrade /\ Calls(t, NoTrade, s.events) /\ NoEntry(s.events)
         /\ \E x \in Events : s.events = <<x>> /\ x.kind = "Exit"
<1>1. t \in Trades /\ t.dir \in {-1, 1} /\ t.left \in Nat
  BY TradeIs, LeftOver DEF Sound
<1>2. PICK gain \in Int : gain = Gain(t, price)
  BY <1>1, GainType
<1>3. Settles(t, s)
  BY <1>1, <1>2, ClosedSettles
<1>4. s.trade = NoTrade /\ s.events = Append(<<>>, ExitOf(t, gain, reason))
  BY <1>2 DEF Finished, Result
<1>5. 0 \in {-1, 0, 1} /\ Before(t, s)
  BY <1>3, Zenon DEF Before
<1>6. Calls(t, s.trade, s.events) /\ NoEntry(s.events)
  BY <1>5, EntersOrNot
<1>7. PICK x : x = ExitOf(t, gain, reason)
  OBVIOUS
<1>8. x \in Events /\ x.kind = "Exit"
  BY <1>1, <1>7 DEF Events, ExitEvents, ExitOf
<1>9. s.events = <<x>>
  BY <1>4, <1>7
<1>10. QED BY <1>4, <1>6, <1>8, <1>9, Zenon

\* Targets that a tick reached, and the last one closes the trade if `full`.
LEMMA MarkedSettles ==
  ASSUME kind # "sats", NEW t, Sound(t), NEW level \in Levels, NEW full \in BOOLEAN,
         NEW h, h = HitAll(t, 1..level),
         NEW s, s = IF full THEN Finished(h.trade, h.events, 3, "TP3") ELSE h
  PROVE  Settles(t, s)
<1>1. PICK dir \in {-1, 1}, stop \in -1..2, hits \in Marks :
        t = TradeAt(dir, stop, hits) /\ stop < Reached(hits)
  BY TradeIs DEF Sound
<1>2. 1..level \in SUBSET Levels
  BY DEF Levels
<1>3. hits \cup (1..level) \in Marks
  <2>1. level = 1 \/ level = 2 \/ level = 3
    BY DEF Levels
  <2>2. 1..1 = {1} /\ 1..2 = {1, 2} /\ 1..3 = {1, 2, 3}
    OBVIOUS
  <2>3. CASE level = 1
    BY <2>2, <2>3 DEF Marks
  <2>4. CASE level = 2
    BY <2>2, <2>4 DEF Marks
  <2>5. CASE level = 3
    BY <2>2, <2>5 DEF Marks
  <2>6. QED BY <2>1, <2>3, <2>4, <2>5
<1>4. PICK levels \in SUBSET Levels, after \in Marks : levels = 1..level /\ after = hits \cup levels
  BY <1>2, <1>3
<1>5. HasReached(PositionAt(dir, hits), dir, stop, after, h)
  BY <1>1, <1>4, HitAllKeeps
<1>6. CASE full
  <2>1. PICK reason \in Reasons, gain \in Int : reason = "TP3" /\ gain = 3
    BY DEF Reasons
  <2>2. Settles(t, Finished(h.trade, h.events, gain, reason))
    BY <1>1, <1>5, FinishedSettles
  <2>3. QED BY <1>6, <2>1, <2>2, Zenon
<1>7. CASE ~full
  <2>1. PICK u : u = h.trade /\ u = TradeAt(dir, stop, after)
    BY <1>5 DEF HasReached
  <2>2. stop < Reached(after) /\ hits \subseteq after
    BY <1>1, <1>4 DEF Reached
  <2>3. Settles(t, Result(u, h.events))
    BY <1>1, <1>5, <2>1, <2>2, GoesOn
  <2>4. PICK v : v = Result(u, h.events)
    OBVIOUS
  <2>5. v.trade = h.trade /\ v.events = h.events
    BY <2>1, <2>4 DEF Result
  <2>6. Settles(t, h)
    BY <2>3, <2>4, <2>5, Zenon DEF Settles
  <2>7. QED BY <1>7, <2>6
<1>8. QED BY <1>6, <1>7

\* `force_close` of WVAD tells exactly one exit.
LEMMA WvadCloses ==
  ASSUME kind # "sats", NEW e \in WvadEngines, Sound(e.trade),
         NEW price \in Int, NEW reason \in Reasons, NEW r, r = WvadForceClosed(e, price, reason)
  PROVE  /\ r.trade \in WvadEngines /\ r.trade.trade = NoTrade
         /\ Calls(e.trade, NoTrade, r.events) /\ NoEntry(r.events)
         /\ \E x \in Events : r.events = <<x>> /\ x.kind = "Exit"
<1>1. PICK s : s = Finished(e.trade, <<>>, Gain(e.trade, price), reason)
  OBVIOUS
<1>2. /\ s.trade = NoTrade /\ Calls(e.trade, NoTrade, s.events) /\ NoEntry(s.events)
      /\ \E x \in Events : s.events = <<x>> /\ x.kind = "Exit"
  BY <1>1, ClosedCalls
<1>3. PICK f : f = [e EXCEPT !.trade = s.trade]
  OBVIOUS
<1>4. f \in WvadEngines /\ f.trade = NoTrade
  BY <1>2, <1>3 DEF WvadEngines
<1>5. r = Result(f, s.events)
  BY <1>1, <1>3, Zenon DEF WvadForceClosed
<1>6. r.trade = f /\ r.events = s.events
  BY <1>5 DEF Result
<1>7. QED BY <1>2, <1>4, <1>6

\* `mark_target` of WVAD is a call that its runner can follow.
LEMMA WvadMarks ==
  ASSUME kind # "sats", NEW e \in WvadEngines, Sound(e.trade), NEW level \in Levels,
         NEW r, r = WvadMarked(e, level)
  PROVE  r.trade \in WvadEngines /\ Calls(e.trade, r.trade.trade, r.events)
<1>1. PICK h : h = HitAll(e.trade, 1..level)
  OBVIOUS
<1>2. PICK s : s = IF level = 3 THEN Finished(h.trade, h.events, 3, "TP3") ELSE h
  OBVIOUS
<1>3. (level = 3) \in BOOLEAN
  OBVIOUS
<1>4. Settles(e.trade, s)
  BY <1>1, <1>2, <1>3, MarkedSettles
<1>5. 0 \in {-1, 0, 1} /\ Before(e.trade, s)
  BY <1>4, Zenon DEF Before
<1>6. Calls(e.trade, s.trade, s.events)
  BY <1>5, EntersOrNot
<1>7. PICK u \in Trades \cup {NoTrade} : u = s.trade
  BY <1>6 DEF Calls, Sound
<1>8. PICK f : f = [e EXCEPT !.trade = u]
  OBVIOUS
<1>9. f \in WvadEngines /\ f.trade = u
  BY <1>8 DEF WvadEngines
<1>10. r = Result(f, s.events)
  BY <1>1, <1>2, <1>7, <1>8, Zenon DEF WvadMarked
<1>11. r.trade = f /\ r.events = s.events
  BY <1>10 DEF Result
<1>12. QED BY <1>6, <1>7, <1>9, <1>11

-----------------------------------------------------------------------------
(* Sniper *)

\* Sniper settles a trade on a bar.
LEMMA SniperSettles ==
  ASSUME kind # "sats", NEW e, NEW t, t = e.trade, Sound(t), e.fullTp3 \in BOOLEAN,
         NEW b \in Bars, NEW signal \in {-1, 0, 1}
  PROVE  Settles(t, SniperSettled(e, b, signal))
<1>1. PICK dir \in {-1, 1}, stop \in -1..2, hits \in Marks :
        t = TradeAt(dir, stop, hits) /\ stop < Reached(hits)
  BY TradeIs DEF Sound
<1>2. PICK touched \in SUBSET Levels : touched = Touched(t, b) /\ hits \cup touched \in Marks
  BY <1>1, TouchedIs
<1>3. PICK after \in Marks : after = hits \cup touched
  BY <1>2
<1>4. PICK h : h = HitAll(t, touched)
  OBVIOUS
<1>5. HasReached(PositionAt(dir, hits), dir, stop, after, h)
  BY <1>1, <1>3, <1>4, HitAllKeeps
<1>6. PICK u : u = h.trade /\ u = TradeAt(dir, stop, after)
  BY <1>5 DEF HasReached
<1>7. t.dir = dir /\ u.hits = after /\ u.stop = stop
  BY <1>1, <1>6, TradeMade
<1>8. CASE Stopped(t, b)
  <2>1. SniperSettled(e, b, signal) = StoppedOut(t, b)
    BY <1>8, Zenon DEF SniperSettled
  <2>2. QED BY <1>1, <2>1, StoppedSettles
<1>9. CASE ~Stopped(t, b) /\ (3 \in touched /\ e.fullTp3)
  <2>1. SniperSettled(e, b, signal) = Finished(h.trade, h.events, 3, "TP3")
    BY <1>2, <1>4, <1>9, Zenon DEF SniperSettled
  <2>2. PICK reason \in Reasons, gain \in Int : reason = "TP3" /\ gain = 3
    BY DEF Reasons
  <2>3. Settles(t, Finished(h.trade, h.events, gain, reason))
    BY <1>1, <1>5, FinishedSettles
  <2>4. QED BY <2>1, <2>2, <2>3, Zenon
<1>10. CASE ~Stopped(t, b) /\ ~(3 \in touched /\ e.fullTp3) /\ signal = -t.dir
  <2>1. SniperSettled(e, b, signal) = Finished(h.trade, h.events, Gain(t, b.close), "Reversal")
    BY <1>2, <1>4, <1>10, Zenon DEF SniperSettled
  <2>2. PICK gain \in Int : gain = Gain(t, b.close)
    BY <1>7, BarType, GainType
  <2>3. PICK reason \in Reasons : reason = "Reversal"
    BY DEF Reasons
  <2>4. Settles(t, Finished(h.trade, h.events, gain, reason))
    BY <1>1, <1>5, FinishedSettles
  <2>5. QED BY <2>1, <2>2, <2>3, <2>4, Zenon
<1>11. CASE ~Stopped(t, b) /\ ~(3 \in touched /\ e.fullTp3) /\ signal # -t.dir
  <2>1. PICK level : level = SniperLevelStop(u)
    OBVIOUS
  <2>2. SniperSettled(e, b, signal) = Result(Raised(u, level), h.events)
    BY <1>2, <1>4, <1>6, <1>11, <2>1, Zenon DEF SniperSettled
  <2>3. stop < Reached(after)
    BY <1>1, <1>3 DEF Reached
  <2>4. level \in -1..2 /\ level < Reached(after)
    BY <1>7, <2>1, <2>3 DEF SniperLevelStop, Reached, Marks
  <2>5. PICK to \in -1..2 : /\ stop <= to /\ to < Reached(after)
                            /\ Raised(u, level) = TradeAt(dir, to, after)
    BY <1>6, <2>3, <2>4, RaisedIs
  <2>6. hits \subseteq after
    BY <1>3
  <2>7. Settles(t, Result(Raised(u, level), h.events))
    BY <1>1, <1>5, <2>5, <2>6, GoesOn
  <2>8. QED BY <2>2, <2>7
<1>12. QED BY <1>8, <1>9, <1>10, <1>11

SniperEngines ==
  [trade : Trades \cup {NoTrade}, candidate : [dir : {-1, 0, 1}, age : Nat], fullTp3 : BOOLEAN]

\* `on_bar` of Sniper is a call that its runner can follow, and enters only if
\* it may.
LEMMA SniperBar ==
  ASSUME kind # "sats", NEW e \in SniperEngines, e.trade = NoTrade \/ Sound(e.trade),
         NEW b \in Bars, NEW i \in SniperInputs, NEW allowed \in BOOLEAN,
         NEW r, r = SniperOnBar(e, b, i, allowed)
  PROVE  /\ r.trade \in SniperEngines
         /\ Calls(e.trade, r.trade.trade, r.events)
         /\ ~allowed => NoEntry(r.events)
<1>0. e.fullTp3 \in BOOLEAN /\ e.candidate \in [dir : {-1, 0, 1}, age : Nat]
  BY DEF SniperEngines
<1>1. PICK c \in [dir : {-1, 0, 1}, age : Nat] : c = Candidate(e, i)
  <2>1. i.cross \in {-1, 0, 1}
    BY DEF SniperInputs
  <2>2. CASE i.cross # 0
    BY <2>1, <2>2 DEF Candidate
  <2>3. CASE i.cross = 0 /\ e.candidate.dir = 0
    BY <2>3 DEF Candidate, NoCandidate
  <2>4. CASE i.cross = 0 /\ e.candidate.dir # 0
    <3>1. PICK age \in Nat : age = e.candidate.age + 1
      BY <1>0
    <3>2. [e.candidate EXCEPT !.age = age] \in [dir : {-1, 0, 1}, age : Nat]
      BY <1>0, Zenon
    <3>3. Candidate(e, i) = [e.candidate EXCEPT !.age = age]
      BY <2>4, <3>1, Zenon DEF Candidate
    <3>4. QED BY <3>2, <3>3
  <2>5. QED BY <2>2, <2>3, <2>4
<1>2. PICK taken \in BOOLEAN : taken = Taken(e, c, i, allowed) /\ (~allowed => ~taken)
  BY Zenon DEF Taken
<1>3. PICK signal \in {-1, 0, 1} : signal = (IF taken THEN c.dir ELSE 0) /\ (~allowed => signal = 0)
  BY <1>2
<1>4. PICK kept \in [dir : {-1, 0, 1}, age : Nat] :
        kept = IF taken \/ Dies(e, c, i, allowed) THEN NoCandidate ELSE c
  <2>1. NoCandidate \in [dir : {-1, 0, 1}, age : Nat]
    BY DEF NoCandidate
  <2>2. QED BY <2>1
<1>5. PICK t : t = e.trade
  OBVIOUS
<1>6. PICK s : s = IF t = NoTrade THEN Result(NoTrade, <<>>) ELSE SniperSettled(e, b, signal)
  OBVIOUS
<1>7. Before(t, s)
  <2>1. CASE t = NoTrade
    BY <1>6, <2>1, Zenon DEF Before
  <2>2. CASE t # NoTrade
    BY <1>0, <1>5, <1>6, <2>2, SniperSettles DEF Before
  <2>3. QED BY <2>1, <2>2
<1>8. /\ signal # 0 /\ s.trade = NoTrade
              => Calls(t, Opened(signal), Append(s.events, EntryOf(signal)))
      /\ Calls(t, s.trade, s.events) /\ NoEntry(s.events)
  BY <1>7, EntersOrNot
<1>9. r = IF signal # 0 /\ s.trade = NoTrade
           THEN Result([e EXCEPT !.trade = Opened(signal), !.candidate = kept],
                       Append(s.events, EntryOf(signal)))
           ELSE Result([e EXCEPT !.trade = s.trade, !.candidate = kept], s.events)
  BY <1>1, <1>2, <1>3, <1>4, <1>5, <1>6, Zenon DEF SniperOnBar
<1>10. CASE signal # 0 /\ s.trade = NoTrade
  <2>1. PICK u \in Trades \cup {NoTrade} : u = Opened(signal)
    BY <1>10, OpenedIs DEF Sound
  <2>2. PICK f : f = [e EXCEPT !.trade = u, !.candidate = kept]
    OBVIOUS
  <2>3. f \in SniperEngines /\ f.trade = u
    BY <2>2, Zenon DEF SniperEngines
  <2>4. r = Result(f, Append(s.events, EntryOf(signal)))
    BY <1>9, <1>10, <2>1, <2>2, Zenon
  <2>5. r.trade = f /\ r.events = Append(s.events, EntryOf(signal))
    BY <2>4 DEF Result
  <2>6. QED BY <1>3, <1>5, <1>8, <1>10, <2>1, <2>3, <2>5
<1>11. CASE ~(signal # 0 /\ s.trade = NoTrade)
  <2>1. PICK u \in Trades \cup {NoTrade} : u = s.trade
    BY <1>8 DEF Calls, Sound
  <2>2. PICK f : f = [e EXCEPT !.trade = u, !.candidate = kept]
    OBVIOUS
  <2>3. f \in SniperEngines /\ f.trade = u
    BY <2>2, Zenon DEF SniperEngines
  <2>4. r = Result(f, s.events)
    BY <1>9, <1>11, <2>1, <2>2, Zenon
  <2>5. r.trade = f /\ r.events = s.events
    BY <2>4 DEF Result
  <2>6. QED BY <1>5, <1>8, <2>1, <2>3, <2>5
<1>12. QED BY <1>10, <1>11

\* `force_close` of Sniper tells exactly one exit.
LEMMA SniperCloses ==
  ASSUME kind # "sats", NEW e \in SniperEngines, Sound(e.trade),
         NEW price \in Int, NEW reason \in Reasons, NEW r, r = SniperForceClosed(e, price, reason)
  PROVE  /\ r.trade \in SniperEngines /\ r.trade.trade = NoTrade
         /\ Calls(e.trade, NoTrade, r.events) /\ NoEntry(r.events)
         /\ \E x \in Events : r.events = <<x>> /\ x.kind = "Exit"
<1>1. PICK s : s = Finished(e.trade, <<>>, Gain(e.trade, price), reason)
  OBVIOUS
<1>2. /\ s.trade = NoTrade /\ Calls(e.trade, NoTrade, s.events) /\ NoEntry(s.events)
      /\ \E x \in Events : s.events = <<x>> /\ x.kind = "Exit"
  BY <1>1, ClosedCalls
<1>3. PICK f : f = [e EXCEPT !.trade = s.trade]
  OBVIOUS
<1>4. f \in SniperEngines /\ f.trade = NoTrade
  BY <1>2, <1>3 DEF SniperEngines
<1>5. r = Result(f, s.events)
  BY <1>1, <1>3, Zenon DEF SniperForceClosed
<1>6. r.trade = f /\ r.events = s.events
  BY <1>5 DEF Result
<1>7. QED BY <1>2, <1>4, <1>6

\* `mark_target` of Sniper is a call that its runner can follow.
LEMMA SniperMarks ==
  ASSUME kind # "sats", NEW e \in SniperEngines, Sound(e.trade), NEW level \in Levels,
         NEW r, r = SniperMarked(e, level)
  PROVE  r.trade \in SniperEngines /\ Calls(e.trade, r.trade.trade, r.events)
<1>1. PICK h : h = HitAll(e.trade, 1..level)
  OBVIOUS
<1>2. PICK s : s = IF level = 3 /\ e.fullTp3 THEN Finished(h.trade, h.events, 3, "TP3") ELSE h
  OBVIOUS
<1>3. (level = 3 /\ e.fullTp3) \in BOOLEAN
  BY Zenon DEF SniperEngines
<1>4. Settles(e.trade, s)
  BY <1>1, <1>2, <1>3, MarkedSettles
<1>5. 0 \in {-1, 0, 1} /\ Before(e.trade, s)
  BY <1>4, Zenon DEF Before
<1>6. Calls(e.trade, s.trade, s.events)
  BY <1>5, EntersOrNot
<1>7. PICK u \in Trades \cup {NoTrade} : u = s.trade
  BY <1>6 DEF Calls, Sound
<1>8. PICK f : f = [e EXCEPT !.trade = u]
  OBVIOUS
<1>9. f \in SniperEngines /\ f.trade = u
  BY <1>8 DEF SniperEngines
<1>10. r = Result(f, s.events)
  BY <1>1, <1>2, <1>7, <1>8, Zenon DEF SniperMarked
<1>11. r.trade = f /\ r.events = s.events
  BY <1>10 DEF Result
<1>12. QED BY <1>6, <1>7, <1>9, <1>11

-----------------------------------------------------------------------------
(* Lorentzian *)

\* Lorentzian settles a trade on a bar.
LEMMA LorentzianSettles ==
  ASSUME kind # "sats", NEW e, NEW t, t = e.trade, Sound(t),
         NEW b \in Bars, NEW i, NEW signal
  PROVE  Settles(t, LorentzianSettled(e, b, i, signal))
<1>1. PICK dir \in {-1, 1}, stop \in -1..2, hits \in Marks :
        t = TradeAt(dir, stop, hits) /\ stop < Reached(hits)
  BY TradeIs DEF Sound
<1>2. t \in Trades /\ t.dir = dir
  BY <1>1, TradeMade
<1>3. CASE Stopped(t, b)
  <2>1. LorentzianSettled(e, b, i, signal) = StoppedOut(t, b)
    BY <1>3, Zenon DEF LorentzianSettled
  <2>2. QED BY <1>1, <2>1, StoppedSettles
<1>4. CASE ~Stopped(t, b) /\ Ends(e, i, signal)
  <2>1. LorentzianSettled(e, b, i, signal)
          = Finished(t, <<>>, Gain(t, b.close), Because(t, signal))
    BY <1>4, Zenon DEF LorentzianSettled
  <2>2. PICK gain \in Int : gain = Gain(t, b.close)
    BY <1>2, BarType, GainType
  <2>3. PICK reason \in Reasons : reason = Because(t, signal)
    BY DEF Reasons, Because
  <2>4. Settles(t, Finished(t, <<>>, gain, reason))
    BY <1>2, ClosedSettles
  <2>5. QED BY <2>1, <2>2, <2>3, <2>4, Zenon
<1>5. CASE ~Stopped(t, b) /\ ~Ends(e, i, signal)
  <2>1. LorentzianSettled(e, b, i, signal) = Result(t, <<>>)
    BY <1>5, Zenon DEF LorentzianSettled
  <2>2. PICK h : h = Result(t, <<>>)
    OBVIOUS
  <2>3. h.events = <<>>
    BY <2>2 DEF Result
  <2>4. HasReached(PositionAt(dir, hits), dir, stop, hits, h)
    BY <1>1, <2>2, ReachedNothing
  <2>5. hits \subseteq hits /\ stop <= stop
    OBVIOUS
  <2>6. Settles(t, Result(t, h.events))
    BY <1>1, <2>4, <2>5, GoesOn
  <2>7. QED BY <2>1, <2>3, <2>6
<1>6. QED BY <1>3, <1>4, <1>5

LorentzianEngines ==
  [trade : Trades \cup {NoTrade}, signal : {-1, 0, 1}, age : Nat, mode : ExitModes]

\* `on_bar` of Lorentzian is a call that its runner can follow, and enters only
\* if it may.
LEMMA LorentzianBar ==
  ASSUME kind # "sats", NEW e \in LorentzianEngines, e.trade = NoTrade \/ Sound(e.trade),
         NEW b \in Bars, NEW i \in LorentzianInputs, NEW allowed \in BOOLEAN,
         NEW r, r = LorentzianOnBar(e, b, i, allowed)
  PROVE  /\ r.trade \in LorentzianEngines
         /\ Calls(e.trade, r.trade.trade, r.events)
         /\ ~allowed => NoEntry(r.events)
<1>1. PICK now \in {-1, 0, 1} : now = Signalled(e, i)
  BY DEF Signalled, LorentzianInputs, LorentzianEngines
<1>2. PICK signal \in {-1, 0, 1} :
        signal = LorentzianSignal(e, i, allowed) /\ (~allowed => signal = 0)
  BY <1>1 DEF LorentzianSignal
<1>3. PICK t : t = e.trade
  OBVIOUS
<1>4. PICK s : s = IF t = NoTrade THEN Result(NoTrade, <<>>) ELSE LorentzianSettled(e, b, i, signal)
  OBVIOUS
<1>5. Before(t, s)
  <2>1. CASE t = NoTrade
    BY <1>4, <2>1, Zenon DEF Before
  <2>2. CASE t # NoTrade
    BY <1>3, <1>4, <2>2, LorentzianSettles DEF Before
  <2>3. QED BY <2>1, <2>2
<1>6. /\ signal # 0 /\ s.trade = NoTrade
              => Calls(t, Opened(signal), Append(s.events, EntryOf(signal)))
      /\ Calls(t, s.trade, s.events) /\ NoEntry(s.events)
  BY <1>5, EntersOrNot
<1>7. PICK u \in Trades \cup {NoTrade} : u = s.trade
  BY <1>6 DEF Calls, Sound
<1>8. PICK age \in Nat : age = IF s.trade = NoTrade THEN 0 ELSE Smaller(e.age + 1, HoldBars)
  BY LorentzianAssumption DEF Smaller, LorentzianEngines
<1>9. PICK kept : kept = [e EXCEPT !.trade = u, !.signal = now, !.age = age]
  OBVIOUS
<1>10. kept \in LorentzianEngines /\ kept.trade = u
  BY <1>9, Zenon DEF LorentzianEngines
<1>11. r = IF signal # 0 /\ s.trade = NoTrade
           THEN Result([kept EXCEPT !.trade = Opened(signal)], Append(s.events, EntryOf(signal)))
           ELSE Result(kept, s.events)
  <2>1. kept = [e EXCEPT !.trade = s.trade, !.signal = Signalled(e, i),
                         !.age = IF s.trade = NoTrade THEN 0 ELSE Smaller(@ + 1, HoldBars)]
    BY <1>1, <1>7, <1>8, <1>9, Zenon
  <2>2. QED BY <1>2, <1>3, <1>4, <2>1, Zenon DEF LorentzianOnBar
<1>12. CASE signal # 0 /\ s.trade = NoTrade
  <2>1. PICK v \in Trades \cup {NoTrade} : v = Opened(signal)
    BY <1>12, OpenedIs DEF Sound
  <2>2. PICK f : f = [kept EXCEPT !.trade = v]
    OBVIOUS
  <2>3. f \in LorentzianEngines /\ f.trade = v
    BY <1>10, <2>2 DEF LorentzianEngines
  <2>4. r = Result(f, Append(s.events, EntryOf(signal)))
    BY <1>11, <1>12, <2>1, <2>2, Zenon
  <2>5. r.trade = f /\ r.events = Append(s.events, EntryOf(signal))
    BY <2>4 DEF Result
  <2>6. QED BY <1>2, <1>3, <1>6, <1>12, <2>1, <2>3, <2>5
<1>13. CASE ~(signal # 0 /\ s.trade = NoTrade)
  <2>1. r = Result(kept, s.events)
    BY <1>11, <1>13, Zenon
  <2>2. r.trade = kept /\ r.events = s.events
    BY <2>1 DEF Result
  <2>3. QED BY <1>3, <1>6, <1>7, <1>10, <2>2
<1>14. QED BY <1>12, <1>13

\* `force_close` of Lorentzian tells exactly one exit.
LEMMA LorentzianCloses ==
  ASSUME kind # "sats", NEW e \in LorentzianEngines, Sound(e.trade),
         NEW price \in Int, NEW reason \in Reasons, NEW r, r = LorentzianForceClosed(e, price, reason)
  PROVE  /\ r.trade \in LorentzianEngines /\ r.trade.trade = NoTrade
         /\ Calls(e.trade, NoTrade, r.events) /\ NoEntry(r.events)
         /\ \E x \in Events : r.events = <<x>> /\ x.kind = "Exit"
<1>1. PICK s : s = Finished(e.trade, <<>>, Gain(e.trade, price), reason)
  OBVIOUS
<1>2. /\ s.trade = NoTrade /\ Calls(e.trade, NoTrade, s.events) /\ NoEntry(s.events)
      /\ \E x \in Events : s.events = <<x>> /\ x.kind = "Exit"
  BY <1>1, ClosedCalls
<1>3. PICK u \in Trades \cup {NoTrade}, age \in Nat : u = s.trade /\ age = 0
  BY <1>2
<1>4. PICK f : f = [e EXCEPT !.trade = u, !.age = age]
  OBVIOUS
<1>5. f \in LorentzianEngines /\ f.trade = u
  BY <1>4, Zenon DEF LorentzianEngines
<1>6. r = Result(f, s.events)
  BY <1>1, <1>3, <1>4, Zenon DEF LorentzianForceClosed
<1>7. r.trade = f /\ r.events = s.events
  BY <1>6 DEF Result
<1>8. QED BY <1>2, <1>3, <1>5, <1>7

-----------------------------------------------------------------------------
(* SATS: the trade *)

\* A third is closed at each of the first two targets; the third ends the trade.
SatsMarks == {{}, {1}, {1, 2}}
SatsTradeAt(dir, hits, age, taken, epoch, q) ==
  [dir |-> dir, stop |-> -1, hits |-> hits, left |-> Thirds - Reached(hits), age |-> age,
   taken |-> taken, epoch |-> epoch, q |-> q]
SatsTrades ==
  {SatsTradeAt(dir, hits, age, taken, epoch, q) :
     dir \in {-1, 1}, hits \in SatsMarks, age \in Nat, taken \in Int, epoch \in Nat, q \in Int}

OpenSats(t, dir, hits, age, taken, epoch, q) ==
  /\ dir \in {-1, 1} /\ hits \in SatsMarks /\ age \in Nat /\ taken \in Int /\ epoch \in Nat /\ q \in Int
  /\ t = SatsTradeAt(dir, hits, age, taken, epoch, q)

\* What can be read off such a trade.
OpenedSats(t, dir, hits, age, taken, epoch, q) ==
  /\ t \in SatsTrades /\ t # NoTrade
  /\ t.dir = dir /\ t.stop = -1 /\ t.hits = hits /\ t.left = Thirds - Reached(hits)
  /\ t.age = age /\ t.taken = taken /\ t.epoch = epoch /\ t.q = q

\* The fields of a trade of SATS that is put together.
LEMMA SatsTradeMade ==
  ASSUME NEW t, NEW dir, NEW hits, NEW age, NEW taken, NEW epoch, NEW q,
         OpenSats(t, dir, hits, age, taken, epoch, q)
  PROVE  OpenedSats(t, dir, hits, age, taken, epoch, q)
<1>1. t \in SatsTrades
  BY DEF OpenSats, SatsTrades
<1>2. /\ t.dir = dir /\ t.stop = -1 /\ t.hits = hits /\ t.left = Thirds - Reached(hits)
      /\ t.age = age /\ t.taken = taken /\ t.epoch = epoch /\ t.q = q
  BY DEF OpenSats, SatsTradeAt
<1>3. NoTrade.dir = 0 /\ t.dir # 0
  BY <1>2 DEF NoTrade, OpenSats
<1>4. QED BY <1>1, <1>2, <1>3, Zenon DEF OpenedSats

\* The targets before the last leave a third of the position.
LEMMA SatsLeftOver ==
  ASSUME NEW hits \in SatsMarks
  PROVE  /\ Reached(hits) \in 0..2 /\ Thirds - Reached(hits) \in 1..3
         /\ hits \in Marks /\ hits \in SUBSET Levels
BY DEF SatsMarks, Marks, Reached, Thirds, Levels

SatsPositionAt(dir, hits) == [dir |-> dir, left |-> Thirds - Reached(hits), closed |-> hits]
SatsPositionOf(t) ==
  IF t = NoTrade THEN FlatPosition ELSE [dir |-> t.dir, left |-> t.left, closed |-> t.hits]

SatsHasReached(p, dir, hits, age, epoch, q, r) ==
  /\ \E taken : OpenSats(r.trade, dir, hits, age, taken, epoch, q)
  /\ Told(p, r.events, SatsPositionAt(dir, hits))
  /\ Partials(r.events) /\ NoEntry(r.events)

\* Another third.
LEMMA ThirdKeeps ==
  ASSUME NEW p, NEW dir \in {-1, 1}, NEW hits \in SatsMarks, NEW age \in Nat, NEW epoch \in Nat,
         NEW q \in Int, NEW k \in {1, 2}, k \notin hits, hits \cup {k} \in SatsMarks,
         NEW r, SatsHasReached(p, dir, hits, age, epoch, q, r)
  PROVE  SatsHasReached(p, dir, hits \cup {k}, age, epoch, q, TookThird(r, k))
<1>1. PICK taken \in Int : r.trade = SatsTradeAt(dir, hits, age, taken, epoch, q)
  BY Zenon DEF SatsHasReached, OpenSats
<1>2. PICK t : t = r.trade
  OBVIOUS
<1>3. PICK events \in Seq(Events) : events = r.events
  BY DEF SatsHasReached, Told
<1>4. /\ t = [dir |-> dir, stop |-> -1, hits |-> hits, left |-> Thirds - Reached(hits),
              age |-> age, taken |-> taken, epoch |-> epoch, q |-> q]
      /\ t.dir = dir /\ t.hits = hits /\ t.left = Thirds - Reached(hits) /\ t.taken = taken
  BY <1>1, <1>2 DEF SatsTradeAt
<1>5. PICK left \in Nat : left = Thirds - Reached(hits) /\ 1 < left
  BY DEF SatsMarks, Reached, Thirds
<1>6. left - 1 = Thirds - Reached(hits \cup {k}) /\ \A j \in hits : j < k
  BY <1>5 DEF SatsMarks, Reached, Thirds
<1>7. PICK e : e = PartialOf(t, k, 1)
  OBVIOUS
<1>8. /\ e \in Events /\ e.kind = "Partial"
      /\ Told(p, Append(events, e), [dir |-> dir, left |-> left - 1, closed |-> hits \cup {k}])
  <2>1. PICK n \in Nat, level \in Levels : n = 1 /\ level = k
    BY DEF Levels
  <2>2. Told(p, events, [dir |-> dir, left |-> left, closed |-> hits])
    BY <1>3, <1>5, Zenon DEF SatsHasReached, SatsPositionAt
  <2>3. 0 < n /\ n < left /\ hits \in SUBSET Levels /\ \A j \in hits : j < level
    BY <1>5, <1>6, <2>1, SatsLeftOver
  <2>4. PartialFits(p, events, dir, left, hits, t, n, level)
    BY <1>4, <2>2, <2>3, Zenon DEF PartialFits
  <2>5. PartialIsTold(p, events, dir, left, hits, t, n, level)
    BY <2>4, ToldPartial, Zenon
  <2>6. QED BY <1>7, <2>1, <2>5, Zenon DEF PartialIsTold
<1>9. PICK u : u = [t EXCEPT !.hits = @ \cup {k}, !.left = @ - 1, !.taken = @ + k]
  OBVIOUS
<1>10. PICK sum \in Int : sum = taken + k
  OBVIOUS
<1>11. u = SatsTradeAt(dir, hits \cup {k}, age, sum, epoch, q)
  <2>1. PICK h, l : h = hits \cup {k} /\ l = left - 1
    OBVIOUS
  <2>2. t.hits \cup {k} = h /\ t.left - 1 = l /\ t.taken + k = sum
    BY <1>4, <1>5, <1>10, <2>1
  <2>3. u = [t EXCEPT !.hits = h, !.left = l, !.taken = sum]
    BY <1>9, <2>2, Zenon
  <2>4. PICK first : first = [t EXCEPT !.hits = h]
    OBVIOUS
  <2>5. PICK before : before = Thirds - Reached(hits)
    OBVIOUS
  <2>6. first = [dir |-> dir, stop |-> -1, hits |-> h, left |-> before, age |-> age,
                 taken |-> taken, epoch |-> epoch, q |-> q]
    BY ONLY <1>4, <2>4, <2>5
  <2>7. PICK second : second = [first EXCEPT !.left = l]
    OBVIOUS
  <2>8. second = [dir |-> dir, stop |-> -1, hits |-> h, left |-> l, age |-> age,
                  taken |-> taken, epoch |-> epoch, q |-> q]
    BY ONLY <2>6, <2>7
  <2>9. [second EXCEPT !.taken = sum] =
           [dir |-> dir, stop |-> -1, hits |-> h, left |-> l, age |-> age,
            taken |-> sum, epoch |-> epoch, q |-> q]
    BY ONLY <2>8
  <2>10. u = [second EXCEPT !.taken = sum]
    BY ONLY <2>3, <2>4, <2>7, Zenon
  <2>11. l = Thirds - Reached(hits \cup {k})
    BY <1>6, <2>1
  <2>12. QED BY <2>1, <2>9, <2>10, <2>11, Zenon DEF SatsTradeAt
<1>12. PICK s : s = TookThird(r, k)
  OBVIOUS
<1>13. s.trade = u /\ s.events = Append(events, e)
  BY <1>2, <1>3, <1>7, <1>9, <1>12 DEF TookThird
<1>14. Told(p, s.events, SatsPositionAt(dir, hits \cup {k}))
  BY <1>6, <1>8, <1>13, Zenon DEF SatsPositionAt
<1>15. Partials(events) /\ NoEntry(events)
  BY <1>3 DEF SatsHasReached
<1>16. Partials(s.events) /\ NoEntry(s.events)
  BY <1>8, <1>13, <1>15, OneMore
<1>17. OpenSats(u, dir, hits \cup {k}, age, sum, epoch, q)
  BY <1>11, Zenon DEF OpenSats
<1>18. QED BY <1>12, <1>13, <1>14, <1>16, <1>17, Zenon DEF SatsHasReached

\* No target is reached, nothing is told.
LEMMA SatsReachedNothing ==
  ASSUME NEW t, NEW dir, NEW hits, NEW age, NEW taken, NEW epoch, NEW q,
         OpenSats(t, dir, hits, age, taken, epoch, q), NEW r, r = Result(t, <<>>)
  PROVE  SatsHasReached(SatsPositionAt(dir, hits), dir, hits, age, epoch, q, r)
<1>1. r.trade = t /\ r.events = <<>>
  BY DEF Result
<1>2. Told(SatsPositionAt(dir, hits), <<>>, SatsPositionAt(dir, hits))
  BY ToldNothing
<1>3. QED BY <1>1, <1>2, Nothing, Zenon DEF SatsHasReached

\* The targets that a bar touched.
Touches(t, touched, first, h) ==
  /\ first = IF 1 \in touched THEN TookThird(Result(t, <<>>), 1) ELSE Result(t, <<>>)
  /\ h = IF 2 \in touched THEN TookThird(first, 2) ELSE first

\* All the targets that a bar reached, each a third of the position.
LEMMA ThirdsKeep ==
  ASSUME NEW t, NEW dir, NEW hits, NEW age, NEW taken, NEW epoch, NEW q,
         OpenSats(t, dir, hits, age, taken, epoch, q),
         NEW touched \in SUBSET (Levels \ hits), hits \cup touched \in Marks,
         NEW first, NEW h, Touches(t, touched, first, h)
  PROVE  \E after \in SatsMarks :
           /\ after = hits \cup (touched \cap {1, 2})
           /\ SatsHasReached(SatsPositionAt(dir, hits), dir, after, age, epoch, q, h)
<1>0. dir \in {-1, 1} /\ hits \in SatsMarks /\ age \in Nat /\ epoch \in Nat /\ q \in Int
  BY Zenon DEF OpenSats
<1> USE <1>0 DEF Touches
<1> DEFINE p == SatsPositionAt(dir, hits)
<1>1. PICK r : r = Result(t, <<>>)
  OBVIOUS
<1>2. SatsHasReached(p, dir, hits, age, epoch, q, r)
  BY <1>1, SatsReachedNothing
<1> HIDE DEF p
<1>3. PICK one \in SatsMarks : one = hits \cup (touched \cap {1})
  BY DEF SatsMarks, Marks, Levels
<1>4. PICK two \in SatsMarks : two = hits \cup (touched \cap {1, 2})
  BY DEF SatsMarks, Marks, Levels
<1>5. SatsHasReached(p, dir, one, age, epoch, q, first)
  <2>1. CASE 1 \in touched
    <3>1. one = hits \cup {1} /\ 1 \notin hits
      BY <1>3, <2>1
    <3>2. PICK k \in {1, 2} : k = 1
      OBVIOUS
    <3>3. SatsHasReached(p, dir, hits \cup {k}, age, epoch, q, TookThird(r, k))
      BY <1>2, <3>1, <3>2, ThirdKeeps
    <3>4. QED BY <1>1, <2>1, <3>1, <3>2, <3>3, Zenon
  <2>2. CASE 1 \notin touched
    <3>1. one = hits /\ first = r
      BY <1>1, <1>3, <2>2
    <3>2. QED BY <1>2, <3>1
  <2>3. QED BY <2>1, <2>2
<1>6. SatsHasReached(p, dir, two, age, epoch, q, h)
  <2>1. CASE 2 \in touched
    <3>1. two = one \cup {2} /\ 2 \notin one
      BY <1>3, <1>4, <2>1
    <3>2. PICK k \in {1, 2} : k = 2
      OBVIOUS
    <3>3. SatsHasReached(p, dir, one \cup {k}, age, epoch, q, TookThird(first, k))
      BY <1>5, <3>1, <3>2, ThirdKeeps
    <3>4. QED BY <2>1, <3>1, <3>2, <3>3, Zenon
  <2>2. CASE 2 \notin touched
    <3>1. two = one /\ h = first
      BY <1>3, <1>4, <2>2
    <3>2. QED BY <1>5, <3>1
  <2>3. QED BY <2>1, <2>2
<1>7. QED BY <1>4, <1>6 DEF p

-----------------------------------------------------------------------------
(* SATS: how a bar settles the trade *)

SatsSettles(t, s) ==
  /\ Told(SatsPositionOf(t), s.events, SatsPositionOf(s.trade))
  /\ NoEntry(s.events)
  /\ \/ s.trade = NoTrade /\ ~Partials(s.events) /\ \E net \in Int : s.net = {net}
     \/ /\ s.trade \in SatsTrades /\ s.net = {}
        /\ s.trade.epoch = t.epoch /\ s.trade.q = t.q
        /\ t.stop <= s.trade.stop /\ t.hits \subseteq s.trade.hits

\* A trade of SATS that is over tells one exit of all the rest.
LEMMA OverSettles ==
  ASSUME NEW t, NEW dir, NEW hits, NEW age, NEW taken, NEW epoch, NEW q,
         OpenSats(t, dir, hits, age, taken, epoch, q), NEW after \in SatsMarks,
         NEW h, SatsHasReached(SatsPositionAt(dir, hits), dir, after, age, epoch, q, h),
         NEW gain \in Int, NEW reason \in Reasons, NEW s, s = Over(h, gain, reason)
  PROVE  SatsSettles(t, s)
<1>0. dir \in {-1, 1} /\ hits \in SatsMarks
  BY Zenon DEF OpenSats
<1>1. PICK p, left, events :
        p = SatsPositionAt(dir, hits) /\ left = SatsPositionAt(dir, after) /\ events = h.events
  OBVIOUS
<1>2. PICK sum : OpenSats(h.trade, dir, after, age, sum, epoch, q)
  BY Zenon DEF SatsHasReached
<1>3. PICK u : u = h.trade /\ u.dir = dir /\ u.left = Thirds - Reached(after) /\ u.taken = sum
  <2>1. OpenedSats(h.trade, dir, after, age, sum, epoch, q)
    BY ONLY <1>2, SatsTradeMade
  <2>2. QED BY <2>1, Zenon DEF OpenedSats
<1>14. sum \in Int
  BY <1>2, Zenon DEF OpenSats
<1>4. Told(p, events, left) /\ NoEntry(events) /\ events \in Seq(Events)
  BY <1>1, Zenon DEF SatsHasReached, Told
<1>5. left.left \in Nat \ {0} /\ left.dir \in {-1, 1} /\ u.dir = left.dir /\ u.left = left.left
  BY <1>0, <1>1, <1>3, SatsLeftOver DEF SatsPositionAt
<1>6. PICK e : e = ExitOf(u, gain, reason)
  OBVIOUS
<1>7. e \in Events /\ e.kind = "Exit" /\ Told(p, Append(events, e), FlatPosition)
  BY <1>4, <1>5, <1>6, ToldExit
<1>8. NoEntry(Append(events, e)) /\ ~Partials(Append(events, e))
  BY <1>4, <1>7, OneMore
<1>9. PICK net \in Int : net = u.taken + u.left * gain
  BY <1>3, <1>5, <1>14
<1>10. s.trade = NoTrade /\ s.events = Append(events, e) /\ s.net = {net}
  BY <1>1, <1>3, <1>6, <1>9 DEF Over
<1>11. SatsPositionOf(s.trade) = FlatPosition
  BY <1>10, Zenon DEF SatsPositionOf
<1>12. SatsPositionOf(t) = p
  <2>1. t # NoTrade /\ t.dir = dir /\ t.hits = hits /\ t.left = Thirds - Reached(hits)
    BY SatsTradeMade, Zenon DEF OpenedSats
  <2>2. QED BY <1>1, <2>1, Zenon DEF SatsPositionOf, SatsPositionAt
<1>13. QED BY <1>7, <1>8, <1>10, <1>11, <1>12, Zenon DEF SatsSettles

\* SATS settles a trade on a bar.
LEMMA SettleSettles ==
  ASSUME NEW t \in SatsTrades, NEW b \in Bars, NEW trend, NEW s, s = Settle(t, b, trend)
  PROVE  SatsSettles(t, s)
<1>1. PICK dir, hits, age, taken, epoch, q : OpenSats(t, dir, hits, age, taken, epoch, q)
  BY DEF SatsTrades, OpenSats
<1>0. dir \in {-1, 1} /\ hits \in SatsMarks /\ age \in Nat /\ epoch \in Nat /\ q \in Int
  BY <1>1, Zenon DEF OpenSats
<1> USE <1>0
<1>2. /\ t # NoTrade /\ t.dir = dir /\ t.stop = -1 /\ t.hits = hits /\ t.age = age
      /\ t.epoch = epoch /\ t.q = q /\ t.left = Thirds - Reached(hits)
  <2>1. OpenedSats(t, dir, hits, age, taken, epoch, q)
    BY ONLY <1>1, SatsTradeMade
  <2>2. QED BY <2>1, Zenon DEF OpenedSats
<1>3. PICK touched \in SUBSET (Levels \ hits) : touched = Touched(t, b) /\ hits \cup touched \in Marks
  <2>1. PICK best \in Int : best = Best(t, b)
    BY <1>2, BarType DEF Best, Gain
  <2>2. Touched(t, b) = {k \in Levels \ hits : best >= k}
    BY <1>2, <2>1, Zenon DEF Touched
  <2>3. hits \cup {k \in Levels \ hits : best >= k} \in Marks
    <3>1. CASE best < 1
      BY <3>1 DEF Marks, SatsMarks, Levels
    <3>2. CASE best = 1
      BY <3>2 DEF Marks, SatsMarks, Levels
    <3>3. CASE best = 2
      BY <3>3 DEF Marks, SatsMarks, Levels
    <3>4. CASE best > 2
      BY <3>4 DEF Marks, SatsMarks, Levels
    <3>5. QED BY <3>1, <3>2, <3>3, <3>4
  <2>4. QED BY <2>2, <2>3
<1>4. PICK first : first = IF 1 \in touched THEN TookThird(Result(t, <<>>), 1) ELSE Result(t, <<>>)
  OBVIOUS
<1>5. PICK h : h = IF 2 \in touched THEN TookThird(first, 2) ELSE first
  OBVIOUS
<1>6. PICK after \in SatsMarks :
        /\ after = hits \cup (touched \cap {1, 2})
        /\ SatsHasReached(SatsPositionAt(dir, hits), dir, after, age, epoch, q, h)
  <2>1. Touches(t, touched, first, h)
    BY <1>4, <1>5, Zenon DEF Touches
  <2>2. QED BY <1>1, <1>3, <2>1, ThirdsKeep
<1>7. PICK r : r = Result(t, <<>>)
  OBVIOUS
<1>8. SatsHasReached(SatsPositionAt(dir, hits), dir, hits, age, epoch, q, r)
  BY <1>1, <1>7, SatsReachedNothing
<1>9. s = IF Stopped(t, b) THEN Over(r, Smaller(Gain(t, b.open), t.stop), "stop")
          ELSE IF 3 \in touched THEN Over(h, 3, "TP3")
          ELSE IF t.dir # trend THEN Over(h, Gain(t, b.close), "flip")
          ELSE IF t.age + 1 >= TimeoutBars THEN Over(h, Gain(t, b.close), "timeout")
          ELSE [trade |-> [h.trade EXCEPT !.age = @ + 1], events |-> h.events, net |-> {}]
  BY <1>3, <1>4, <1>5, <1>7, Zenon DEF Settle
<1>10. PICK close \in Int : close = Gain(t, b.close)
  BY <1>2, BarType, GainType
<1>11. CASE Stopped(t, b)
  <2>1. PICK gain \in Int : gain = Smaller(Gain(t, b.open), t.stop)
    BY <1>2, BarType DEF Smaller, Gain
  <2>2. PICK reason \in Reasons : reason = "stop"
    BY DEF Reasons
  <2>3. s = Over(r, gain, reason)
    BY <1>9, <1>11, <2>1, <2>2, Zenon
  <2>4. QED BY <1>1, <1>8, <2>3, OverSettles
<1>12. CASE ~Stopped(t, b) /\ 3 \in touched
  <2>1. PICK reason \in Reasons, gain \in Int : reason = "TP3" /\ gain = 3
    BY DEF Reasons
  <2>2. s = Over(h, gain, reason)
    BY <1>9, <1>12, <2>1, Zenon
  <2>3. QED BY <1>1, <1>6, <2>2, OverSettles
<1>13. CASE ~Stopped(t, b) /\ 3 \notin touched /\ t.dir # trend
  <2>1. PICK reason \in Reasons : reason = "flip"
    BY DEF Reasons
  <2>2. s = Over(h, close, reason)
    BY <1>9, <1>10, <1>13, <2>1, Zenon
  <2>3. QED BY <1>1, <1>6, <2>2, OverSettles
<1>14. CASE ~Stopped(t, b) /\ 3 \notin touched /\ t.dir = trend /\ t.age + 1 >= TimeoutBars
  <2>1. PICK reason \in Reasons : reason = "timeout"
    BY DEF Reasons
  <2>2. s = Over(h, close, reason)
    BY <1>9, <1>10, <1>14, <2>1, Zenon
  <2>3. QED BY <1>1, <1>6, <2>2, OverSettles
<1>15. CASE ~Stopped(t, b) /\ 3 \notin touched /\ t.dir = trend /\ ~(t.age + 1 >= TimeoutBars)
  <2>1. s = [trade |-> [h.trade EXCEPT !.age = @ + 1], events |-> h.events, net |-> {}]
    BY <1>9, <1>15, Zenon
  <2>2. PICK u : u = [h.trade EXCEPT !.age = @ + 1]
    OBVIOUS
  <2>3. s.trade = u /\ s.events = h.events /\ s.net = {}
    BY <2>1, <2>2
  <2>4. PICK sum : OpenSats(h.trade, dir, after, age, sum, epoch, q)
    BY <1>6, Zenon DEF SatsHasReached
  <2>5. PICK older \in Nat : older = age + 1
    OBVIOUS
  <2>6. OpenSats(u, dir, after, older, sum, epoch, q)
    <3>1. h.trade = SatsTradeAt(dir, after, age, sum, epoch, q) /\ sum \in Int
      BY <2>4, Zenon DEF OpenSats
    <3>2. u = SatsTradeAt(dir, after, older, sum, epoch, q)
      BY <2>2, <2>5, <3>1 DEF SatsTradeAt
    <3>3. QED BY <3>1, <3>2, Zenon DEF OpenSats
  <2>7. /\ u \in SatsTrades /\ u # NoTrade /\ u.dir = dir /\ u.stop = -1 /\ u.hits = after
        /\ u.left = Thirds - Reached(after) /\ u.epoch = epoch /\ u.q = q
    BY <2>6, SatsTradeMade, Zenon DEF OpenedSats
  <2>8. SatsPositionOf(u) = SatsPositionAt(dir, after) /\ SatsPositionOf(t) = SatsPositionAt(dir, hits)
    BY <1>2, <2>7, Zenon DEF SatsPositionOf, SatsPositionAt
  <2>9. Told(SatsPositionOf(t), s.events, SatsPositionOf(s.trade)) /\ NoEntry(s.events)
    BY <1>6, <2>3, <2>8, Zenon DEF SatsHasReached
  <2>10. t.stop <= u.stop /\ t.hits \subseteq u.hits
    BY <1>2, <1>6, <2>7
  <2>11. QED BY <1>2, <2>3, <2>7, <2>9, <2>10, Zenon DEF SatsSettles
<1>16. QED BY <1>11, <1>12, <1>13, <1>14, <1>15

-----------------------------------------------------------------------------
(* SATS: the calibration and the call on a bar *)

Learns == [on : BOOLEAN, q : Int, epoch : Nat, seen : Nat, sum : Int, shift : Int, mean : SUBSET Int]

\* A closed trade leaves the epoch and its influence alone, or ends the epoch.
LEMMA RecordedIs ==
  ASSUME NEW l \in Learns, NEW net \in Int, NEW epoch \in Nat, NEW m, m = Recorded(l, net, epoch)
  PROVE  /\ m \in Learns
         /\ \/ m.epoch = l.epoch /\ m.q = l.q
            \/ m.epoch = l.epoch + 1
<1>1. PICK sum \in Int : sum = l.sum + net
  BY DEF Learns
<1>2. PICK next : next = [l EXCEPT !.epoch = @ + 1, !.seen = 0, !.sum = 0, !.mean = {sum}]
  OBVIOUS
<1>3. PICK d \in Int : d = Direction(l, sum)
  BY DEF Direction, Learns
<1>4. next \in Learns /\ next.epoch = l.epoch + 1
  <2>1. PICK later, none, zero, mean : later = l.epoch + 1 /\ none = 0 /\ zero = 0 /\ mean = {sum}
    OBVIOUS
  <2>5. later \in Nat /\ none \in Nat /\ zero \in Int /\ mean \in SUBSET Int
    BY <2>1 DEF Learns
  <2>2. next = [l EXCEPT !.epoch = later, !.seen = none, !.sum = zero, !.mean = mean]
    BY <1>2, <2>1, Zenon
  <2>3. next \in Learns /\ next.epoch = later
    BY <2>2, <2>5, Zenon DEF Learns
  <2>4. QED BY <2>1, <2>3
<1>5. m = IF ~l.on \/ epoch # l.epoch THEN l
          ELSE IF ~(l.seen + 1 >= Window) THEN [l EXCEPT !.seen = @ + 1, !.sum = sum]
          ELSE IF sum < BadR * Window THEN [next EXCEPT !.q = @ + d, !.shift = d]
          ELSE IF sum > GoodR * Window THEN [next EXCEPT !.shift = 0]
          ELSE next
  BY <1>1, <1>2, <1>3, Zenon DEF Recorded
<1>6. CASE m = l
  BY <1>6
<1>7. CASE m = [l EXCEPT !.seen = @ + 1, !.sum = sum]
  <2>1. PICK seen \in Nat : seen = l.seen + 1
    BY DEF Learns
  <2>2. m = [l EXCEPT !.seen = seen, !.sum = sum]
    BY <1>7, <2>1, Zenon
  <2>3. m \in Learns /\ m.epoch = l.epoch /\ m.q = l.q
    BY <2>2, Zenon DEF Learns
  <2>4. QED BY <2>3
<1>8. CASE m = [next EXCEPT !.q = @ + d, !.shift = d]
  <2>1. PICK q \in Int : q = next.q + d
    BY <1>4 DEF Learns
  <2>2. m = [next EXCEPT !.q = q, !.shift = d]
    BY <1>8, <2>1, Zenon
  <2>3. m \in Learns /\ m.epoch = next.epoch
    BY <1>4, <2>2, Zenon DEF Learns
  <2>4. QED BY <1>4, <2>3
<1>9. CASE m = [next EXCEPT !.shift = 0]
  <2>1. m \in Learns /\ m.epoch = next.epoch
    BY <1>4, <1>9 DEF Learns
  <2>2. QED BY <1>4, <2>1
<1>10. CASE m = next
  BY <1>4, <1>10
<1>11. QED BY <1>5, <1>6, <1>7, <1>8, <1>9, <1>10, Zenon

SatsEngines == [trade : SatsTrades \cup {NoTrade}, trend : {-1, 0, 1}, learn : Learns]

\* The trade belongs to an epoch that began, with the influence it began with.
Pure(e) ==
  e.trade # NoTrade =>
    /\ e.trade.epoch \in Nat /\ e.trade.epoch <= e.learn.epoch
    /\ e.trade.epoch = e.learn.epoch => e.trade.q = e.learn.q

\* A call on a bar: the trade before and after it, and its events.
SatsCalls(t, after, events) ==
  /\ Told(SatsPositionOf(t), events, SatsPositionOf(after))
  /\ EntryLast(events)
  /\ Partials(events) =>
       \/ t = NoTrade /\ after = NoTrade
       \/ t # NoTrade /\ after # NoTrade /\ t.stop <= after.stop /\ t.hits \subseteq after.hits

\* A trade of SATS is known from its direction, its targets, its age and its
\* epoch.
LEMMA SatsTradeIs ==
  ASSUME NEW t \in SatsTrades
  PROVE  /\ t # NoTrade /\ t.dir \in {-1, 1} /\ t.stop = -1 /\ t.hits \in SatsMarks
         /\ t.left = Thirds - Reached(t.hits) /\ t.epoch \in Nat /\ t.q \in Int
<1>1. PICK dir, hits, age, taken, epoch, q : OpenSats(t, dir, hits, age, taken, epoch, q)
  BY DEF SatsTrades, OpenSats
<1>2. OpenedSats(t, dir, hits, age, taken, epoch, q)
  BY <1>1, SatsTradeMade
<1>3. dir \in {-1, 1} /\ hits \in SatsMarks /\ epoch \in Nat /\ q \in Int
  BY <1>1, Zenon DEF OpenSats
<1>4. QED BY <1>2, <1>3 DEF OpenedSats

\* A trade of SATS that was just opened, and its position.
LEMMA SatsOpenedIs ==
  ASSUME kind = "sats", NEW dir \in {-1, 1}, NEW l \in Learns, NEW u, u = SatsOpened(dir, l)
  PROVE  /\ u \in SatsTrades /\ u.epoch = l.epoch /\ u.q = l.q
         /\ SatsPositionOf(u) = [dir |-> dir, left |-> Size, closed |-> {}]
<1>1. {} \in SatsMarks /\ Thirds - Reached({}) = Thirds /\ Thirds - 0 = Thirds /\ Size = Thirds
  BY DEF SatsMarks, Reached, Thirds, Size
<1>2. PICK none \in Nat, zero \in Int, epoch \in Nat, q \in Int :
        none = 0 /\ zero = 0 /\ epoch = l.epoch /\ q = l.q
  BY DEF Learns
<1>3. u = SatsTradeAt(dir, {}, none, zero, epoch, q)
  BY <1>1, <1>2, Zenon DEF SatsOpened, SatsTradeAt
<1>4. OpenSats(u, dir, {}, none, zero, epoch, q)
  BY <1>1, <1>3, Zenon DEF OpenSats
<1>5. OpenedSats(u, dir, {}, none, zero, epoch, q)
  BY <1>4, SatsTradeMade, Zenon
<1>6. QED BY <1>1, <1>2, <1>5, Zenon DEF OpenedSats, SatsPositionOf

\* `on_bar` of SATS is a call that its runner can follow, and keeps the
\* calibration's epochs pure.
LEMMA SatsBar ==
  ASSUME kind = "sats", NEW e \in SatsEngines, Pure(e),
         NEW b \in Bars, NEW i \in SatsInputs, NEW enabled \in BOOLEAN,
         NEW r, r = SatsOnBar(e, b, i, enabled)
  PROVE  /\ r.trade \in SatsEngines /\ Pure(r.trade)
         /\ SatsCalls(e.trade, r.trade.trade, r.events)
<1>1. PICK trend \in {-1, 1} : trend = TrendAfter(e, i)
  BY DEF TrendAfter, SatsEngines, Long
<1>2. PICK t \in SatsTrades \cup {NoTrade} : t = e.trade
  BY DEF SatsEngines
<1>3. PICK old \in Learns : old = e.learn
  BY DEF SatsEngines
<1>4. PICK s : s = IF t = NoTrade THEN [trade |-> NoTrade, events |-> <<>>, net |-> {}]
                   ELSE Settle(t, b, trend)
  OBVIOUS
<1>5. /\ Told(SatsPositionOf(t), s.events, SatsPositionOf(s.trade))
      /\ NoEntry(s.events) /\ s.trade \in SatsTrades \cup {NoTrade}
      /\ \/ s.trade = NoTrade /\ \E net \in Int : t # NoTrade /\ s.net = {net}
         \/ /\ s.net = {}
            /\ s.trade # NoTrade => t # NoTrade /\ s.trade.epoch = t.epoch /\ s.trade.q = t.q
      /\ Partials(s.events) =>
           \/ t = NoTrade /\ s.trade = NoTrade
           \/ /\ t # NoTrade /\ s.trade # NoTrade
              /\ t.stop <= s.trade.stop /\ t.hits \subseteq s.trade.hits
  <2>1. CASE t = NoTrade
    <3>1. s.trade = NoTrade /\ s.events = <<>> /\ s.net = {}
      BY <1>4, <2>1
    <3>2. QED BY <2>1, <3>1, ToldNothing, Nothing, Zenon
  <2>2. CASE t # NoTrade
    <3>1. SatsSettles(t, s)
      BY <1>2, <1>4, <2>2, SettleSettles
    <3>2. s.trade \in SatsTrades => s.trade # NoTrade
      BY SatsTradeIs
    <3>3. QED BY <2>2, <3>1, <3>2, Zenon DEF SatsSettles
  <2>3. QED BY <2>1, <2>2
<1>6. PICK learn : learn = IF s.net = {} THEN old
                           ELSE Recorded(old, CHOOSE x \in s.net : TRUE, t.epoch)
  OBVIOUS
<1>7. /\ learn \in Learns
      /\ \/ learn.epoch = old.epoch /\ learn.q = old.q
         \/ learn.epoch = old.epoch + 1
      /\ s.trade # NoTrade => learn = old
  <2>1. CASE s.net = {}
    BY <1>6, <2>1
  <2>2. CASE s.net # {}
    <3>1. PICK net \in Int : s.net = {net}
      BY <1>5, <2>2
    <3>2. (CHOOSE x \in s.net : TRUE) = net
      BY <3>1
    <3>3. t # NoTrade /\ s.trade = NoTrade
      BY <1>5, <2>2
    <3>4. PICK epoch \in Nat : epoch = t.epoch
      BY <3>3, SatsTradeIs
    <3>5. learn = Recorded(old, net, epoch)
      BY <1>6, <2>2, <3>2, <3>4, Zenon
    <3>6. QED BY <3>3, <3>5, RecordedIs
  <2>3. QED BY <2>1, <2>2
<1>8. PICK enters \in BOOLEAN :
        enters = (Flips(e, i) /\ i.warmed /\ s.trade = NoTrade /\ enabled /\ i.fits)
  BY Zenon
<1>9. r = IF enters
          THEN Result([trade |-> SatsOpened(trend, old), trend |-> trend, learn |-> learn],
                      Append(s.events, EntryOf(trend)))
          ELSE Result([trade |-> s.trade, trend |-> trend, learn |-> learn], s.events)
  <2>1. s = IF e.trade = NoTrade THEN [trade |-> NoTrade, events |-> <<>>, net |-> {}]
            ELSE Settle(e.trade, b, trend)
    BY <1>2, <1>4, Zenon
  <2>2. learn = IF s.net = {} THEN e.learn
                ELSE Recorded(e.learn, CHOOSE x \in s.net : TRUE, e.trade.epoch)
    BY <1>2, <1>3, <1>6
  <2>3. r = IF Flips(e, i) /\ i.warmed /\ s.trade = NoTrade /\ enabled /\ i.fits
            THEN Result([trade |-> SatsOpened(trend, EpochOfSignal(e.learn, learn)),
                         trend |-> trend, learn |-> learn],
                        Append(s.events, EntryOf(trend)))
            ELSE Result([trade |-> s.trade, trend |-> trend, learn |-> learn], s.events)
    BY <1>1, <2>1, <2>2 DEF SatsOnBar
  <2>4. EpochOfSignal(e.learn, learn) = old
    BY <1>3 DEF EpochOfSignal
  <2>5. QED BY <1>8, <2>3, <2>4, Zenon
<1>10. trend \in {-1, 0, 1} /\ old.epoch \in Nat
  BY DEF Learns
<1>11. CASE enters
  <2>1. s.trade = NoTrade
    BY <1>8, <1>11
  <2>2. PICK u : u = SatsOpened(trend, old)
    OBVIOUS
  <2>3. /\ u \in SatsTrades /\ u.epoch = old.epoch /\ u.q = old.q /\ u # NoTrade
        /\ SatsPositionOf(u) = [dir |-> trend, left |-> Size, closed |-> {}]
    BY <2>2, SatsOpenedIs, SatsTradeIs
  <2>4. PICK events \in Seq(Events) : events = s.events
    BY <1>5 DEF Told
  <2>5. PICK x \in Events : x = EntryOf(trend) /\ x.kind = "Entry"
    BY EntryTold
  <2>6. PICK f : f = [trade |-> u, trend |-> trend, learn |-> learn]
    OBVIOUS
  <2>7. f \in SatsEngines /\ f.trade = u /\ f.learn = learn
    BY <1>7, <1>10, <2>3, <2>6 DEF SatsEngines
  <2>8. r = Result(f, Append(events, x))
    BY <1>9, <1>11, <2>2, <2>4, <2>5, <2>6, Zenon
  <2>9. r.trade = f /\ r.events = Append(events, x)
    BY <2>8 DEF Result
  <2>10. Pure(f)
    BY <1>7, <1>10, <2>3, <2>7 DEF Pure
  <2>11. Told(SatsPositionOf(t), events, FlatPosition)
    BY <1>5, <2>1, <2>4, Zenon DEF SatsPositionOf
  <2>12. Told(SatsPositionOf(t), Append(events, x), SatsPositionOf(u))
    BY <2>3, <2>5, <2>11, ToldEntry
  <2>13. EntryLast(Append(events, x)) /\ ~Partials(Append(events, x))
    BY <1>5, <2>4, <2>5, OneMore
  <2>14. QED BY <1>2, <2>7, <2>9, <2>10, <2>12, <2>13, Zenon DEF SatsCalls
<1>12. CASE ~enters
  <2>1. PICK f : f = [trade |-> s.trade, trend |-> trend, learn |-> learn]
    OBVIOUS
  <2>2. f \in SatsEngines /\ f.trade = s.trade /\ f.learn = learn
    BY <1>5, <1>7, <1>10, <2>1 DEF SatsEngines
  <2>3. r = Result(f, s.events)
    BY <1>9, <1>12, <2>1, Zenon
  <2>4. r.trade = f /\ r.events = s.events
    BY <2>3 DEF Result
  <2>5. Pure(f)
    BY <1>2, <1>3, <1>5, <1>7, <2>2, Zenon DEF Pure
  <2>6. EntryLast(s.events)
    BY <1>5, Zenon DEF NoEntry, EntryLast
  <2>7. QED BY <1>2, <1>5, <2>2, <2>4, <2>5, <2>6, Zenon DEF SatsCalls
<1>13. QED BY <1>11, <1>12

-----------------------------------------------------------------------------
(* The invariant of both runners *)

\* The state of an engine of the kind that runs.
Engine(e) ==
  /\ kind = "wvad" => e \in WvadEngines
  /\ kind = "sniper" => e \in SniperEngines
  /\ kind = "lorentzian" => e \in LorentzianEngines
  /\ kind = "sats" => e \in SatsEngines /\ Pure(e)
  /\ kind # "sats" => e.trade = NoTrade \/ Sound(e.trade)

\* The replay holds nothing between days, and its book has the lots of the model.
Replayed ==
  /\ slot \in Nat
  /\ runner = "replay" /\ kind # "sats" =>
       /\ slot = 0 => engine.trade = NoTrade
       /\ book = BookOf(PositionOf(engine.trade))
       /\ told \in Seq(Events) /\ EntryLast(told)

IInv ==
  /\ kind \in Kinds /\ runner \in {"live", "replay"}
  /\ Engine(engine)
  /\ Replayed

\* What a step of any runner does to the trade, and tells.
Steps(before, after, events) ==
  IF kind = "sats" THEN SatsCalls(before, after, events) ELSE Calls(before, after, events)

\* A new engine of any kind has no trade.
LEMMA NewEngine ==
  ASSUME kind \in Kinds, engine \in NewEngines(kind)
  PROVE  Engine(engine) /\ engine.trade = NoTrade
<1>1. CASE kind = "wvad"
  <2>1. engine = NewWvad
    BY <1>1 DEF NewEngines
  <2>2. QED BY <1>1, <2>1 DEF NewWvad, Engine, WvadEngines
<1>2. CASE kind = "sniper"
  <2>1. PICK full \in BOOLEAN : engine = NewSniper(full)
    BY <1>2 DEF NewEngines
  <2>2. NoCandidate \in [dir : {-1, 0, 1}, age : Nat]
    BY DEF NoCandidate
  <2>3. engine = [trade |-> NoTrade, candidate |-> NoCandidate, fullTp3 |-> full]
    BY <2>1 DEF NewSniper
  <2>4. engine \in SniperEngines /\ engine.trade = NoTrade
    BY <2>2, <2>3, Zenon DEF SniperEngines
  <2>5. QED BY <1>2, <2>4 DEF Engine
<1>3. CASE kind = "lorentzian"
  <2>1. PICK mode \in ExitModes : engine = NewLorentzian(mode)
    BY <1>3 DEF NewEngines
  <2>2. engine \in LorentzianEngines /\ engine.trade = NoTrade
    BY <2>1 DEF NewLorentzian, LorentzianEngines
  <2>3. QED BY <1>3, <2>2 DEF Engine
<1>4. CASE kind = "sats"
  <2>1. PICK on \in BOOLEAN : engine = NewSats(on)
    BY <1>4 DEF NewEngines
  <2>2. PICK l : l = NewLearn(on)
    OBVIOUS
  <2>3. l = [on |-> on, q |-> 0, epoch |-> 0, seen |-> 0, sum |-> 0, shift |-> 0, mean |-> {}]
    BY <2>2 DEF NewLearn
  <2>4. 0 \in Int /\ 0 \in Nat /\ {} \in SUBSET Int /\ 0 \in {-1, 0, 1}
    OBVIOUS
  <2>5. l \in Learns
    BY <2>3, <2>4, Zenon DEF Learns
  <2>6. engine = [trade |-> NoTrade, trend |-> 0, learn |-> l]
    BY <2>1, <2>2 DEF NewSats
  <2>7. engine \in SatsEngines /\ engine.trade = NoTrade
    BY <2>4, <2>5, <2>6, Zenon DEF SatsEngines
  <2>8. QED BY <1>4, <2>7 DEF Engine, Pure
<1>5. QED BY <1>1, <1>2, <1>3, <1>4 DEF Kinds

\* A bar keeps the engine's state, of any kind.
LEMMA OnBarKeeps ==
  ASSUME kind \in Kinds, Engine(engine), NEW b \in Bars, NEW allowed \in BOOLEAN,
         NEW r \in OnBar(b, allowed)
  PROVE  /\ Engine(r.trade) /\ Steps(engine.trade, r.trade.trade, r.events)
         /\ kind # "sats" /\ ~allowed => NoEntry(r.events)
<1>1. CASE kind = "wvad"
  <2>1. PICK i \in WvadInputs : r = WvadOnBar(engine, b, i, allowed)
    BY <1>1 DEF OnBar
  <2>2. engine \in WvadEngines /\ (engine.trade = NoTrade \/ Sound(engine.trade))
    BY <1>1 DEF Engine
  <2>3. /\ r.trade \in WvadEngines
        /\ Calls(engine.trade, r.trade.trade, r.events)
        /\ ~allowed => NoEntry(r.events)
    BY <1>1, <2>1, <2>2, WvadBar
  <2>4. r.trade.trade = NoTrade \/ Sound(r.trade.trade)
    BY <2>3, Zenon DEF Calls
  <2>5. QED BY <1>1, <2>3, <2>4 DEF Engine, Steps
<1>2. CASE kind = "sniper"
  <2>1. PICK i \in SniperInputs : r = SniperOnBar(engine, b, i, allowed)
    BY <1>2 DEF OnBar
  <2>2. engine \in SniperEngines /\ (engine.trade = NoTrade \/ Sound(engine.trade))
    BY <1>2 DEF Engine
  <2>3. /\ r.trade \in SniperEngines
        /\ Calls(engine.trade, r.trade.trade, r.events)
        /\ ~allowed => NoEntry(r.events)
    BY <1>2, <2>1, <2>2, SniperBar
  <2>4. r.trade.trade = NoTrade \/ Sound(r.trade.trade)
    BY <2>3, Zenon DEF Calls
  <2>5. QED BY <1>2, <2>3, <2>4 DEF Engine, Steps
<1>3. CASE kind = "lorentzian"
  <2>1. PICK i \in LorentzianInputs : r = LorentzianOnBar(engine, b, i, allowed)
    BY <1>3 DEF OnBar
  <2>2. engine \in LorentzianEngines /\ (engine.trade = NoTrade \/ Sound(engine.trade))
    BY <1>3 DEF Engine
  <2>3. /\ r.trade \in LorentzianEngines
        /\ Calls(engine.trade, r.trade.trade, r.events)
        /\ ~allowed => NoEntry(r.events)
    BY <1>3, <2>1, <2>2, LorentzianBar
  <2>4. r.trade.trade = NoTrade \/ Sound(r.trade.trade)
    BY <2>3, Zenon DEF Calls
  <2>5. QED BY <1>3, <2>3, <2>4 DEF Engine, Steps
<1>4. CASE kind = "sats"
  <2>1. PICK i \in SatsInputs : r = SatsOnBar(engine, b, i, allowed)
    BY <1>4 DEF OnBar
  <2>2. engine \in SatsEngines /\ Pure(engine)
    BY <1>4 DEF Engine
  <2>3. /\ r.trade \in SatsEngines /\ Pure(r.trade)
        /\ SatsCalls(engine.trade, r.trade.trade, r.events)
    BY <1>4, <2>1, <2>2, SatsBar
  <2>4. QED BY <1>4, <2>3 DEF Engine, Steps
<1>5. QED BY <1>1, <1>2, <1>3, <1>4 DEF Kinds

\* So does a close that is forced, ...
LEMMA ForceClosedKeeps ==
  ASSUME kind \in Kinds, kind # "sats", NEW e, Engine(e), e.trade # NoTrade,
         NEW price \in Int, NEW reason \in Reasons, NEW r, r = ForceClosed(e, price, reason)
  PROVE  /\ Engine(r.trade) /\ r.trade.trade = NoTrade
         /\ Calls(e.trade, NoTrade, r.events)
         /\ \E x \in Events : r.events = <<x>> /\ x.kind = "Exit"
<1>1. Sound(e.trade)
  BY DEF Engine
<1>2. CASE kind = "wvad"
  <2>1. r = WvadForceClosed(e, price, reason) /\ e \in WvadEngines
    BY <1>2 DEF ForceClosed, Engine
  <2>2. /\ r.trade \in WvadEngines /\ r.trade.trade = NoTrade
        /\ Calls(e.trade, NoTrade, r.events)
        /\ \E x \in Events : r.events = <<x>> /\ x.kind = "Exit"
    BY <1>1, <1>2, <2>1, WvadCloses
  <2>3. QED BY <1>2, <2>2 DEF Engine
<1>3. CASE kind = "sniper"
  <2>1. r = SniperForceClosed(e, price, reason) /\ e \in SniperEngines
    BY <1>3 DEF ForceClosed, Engine
  <2>2. /\ r.trade \in SniperEngines /\ r.trade.trade = NoTrade
        /\ Calls(e.trade, NoTrade, r.events)
        /\ \E x \in Events : r.events = <<x>> /\ x.kind = "Exit"
    BY <1>1, <1>3, <2>1, SniperCloses
  <2>3. QED BY <1>3, <2>2 DEF Engine
<1>4. CASE kind = "lorentzian"
  <2>1. r = LorentzianForceClosed(e, price, reason) /\ e \in LorentzianEngines
    BY <1>4 DEF ForceClosed, Engine
  <2>2. /\ r.trade \in LorentzianEngines /\ r.trade.trade = NoTrade
        /\ Calls(e.trade, NoTrade, r.events)
        /\ \E x \in Events : r.events = <<x>> /\ x.kind = "Exit"
    BY <1>1, <1>4, <2>1, LorentzianCloses
  <2>3. QED BY <1>4, <2>2 DEF Engine
<1>5. QED BY <1>2, <1>3, <1>4 DEF Kinds

\* ... and so does a target that a tick marks.
LEMMA MarkedKeeps ==
  ASSUME kind \in {"wvad", "sniper"}, Engine(engine), engine.trade # NoTrade,
         NEW level \in Levels, NEW r, r = Marked(engine, level)
  PROVE  Engine(r.trade) /\ Calls(engine.trade, r.trade.trade, r.events)
<1>1. Sound(engine.trade)
  BY DEF Engine
<1>2. CASE kind = "wvad"
  <2>1. r = WvadMarked(engine, level) /\ engine \in WvadEngines
    BY <1>2 DEF Marked, Engine
  <2>2. r.trade \in WvadEngines /\ Calls(engine.trade, r.trade.trade, r.events)
    BY <1>1, <1>2, <2>1, WvadMarks
  <2>3. QED BY <1>2, <2>2 DEF Engine, Calls
<1>3. CASE kind = "sniper"
  <2>1. r = SniperMarked(engine, level) /\ engine \in SniperEngines
    BY <1>3 DEF Marked, Engine
  <2>2. r.trade \in SniperEngines /\ Calls(engine.trade, r.trade.trade, r.events)
    BY <1>1, <1>3, <2>1, SniperMarks
  <2>3. QED BY <1>3, <2>2 DEF Engine, Calls
<1>4. QED BY <1>2, <1>3

\* A bar of the replay, and what its schedule closes after it.
ScheduledBar(b, s, last, r, closed, events) ==
  /\ b \in Bars /\ s \in Nat /\ last \in BOOLEAN /\ r \in OnBar(b, Allowed(s, last))
  /\ closed = IF Squares(s, last) THEN ForceClosed(r.trade, b.close, "Square-off")
               ELSE Result(r.trade, <<>>)
  /\ events = r.events \o closed.events

\* So does a bar of the replay with the square-off after it; nothing is open
\* after the day's last.
LEMMA SquaredKeeps ==
  ASSUME kind \in Kinds, kind # "sats", Engine(engine), trading \in BOOLEAN,
         NEW b, NEW s, NEW last, NEW r, NEW closed, NEW events,
         ScheduledBar(b, s, last, r, closed, events)
  PROVE  /\ Engine(closed.trade) /\ Calls(engine.trade, closed.trade.trade, events)
         /\ last => closed.trade.trade = NoTrade
<1>0. /\ b \in Bars /\ s \in Nat /\ last \in BOOLEAN /\ r \in OnBar(b, Allowed(s, last))
      /\ closed = IF Squares(s, last) THEN ForceClosed(r.trade, b.close, "Square-off")
                  ELSE Result(r.trade, <<>>)
      /\ events = r.events \o closed.events
  BY Zenon DEF ScheduledBar
<1> USE <1>0
<1>1. PICK allowed \in BOOLEAN : allowed = Allowed(s, last)
  BY Zenon DEF Allowed
<1>2. /\ Engine(r.trade) /\ Calls(engine.trade, r.trade.trade, r.events)
      /\ ~allowed => NoEntry(r.events)
  BY <1>1, OnBarKeeps DEF Steps
<1>3. PICK heard \in Seq(Events) : heard = r.events
  BY <1>2 DEF Calls, Told
<1>4. CASE ~Squares(s, last)
  <2>1. closed.trade = r.trade /\ closed.events = <<>>
    BY <1>4 DEF Result
  <2>2. events = r.events
    BY <1>3, <2>1, ConcatEmptySeq, Zenon
  <2>3. ~last
    BY <1>4 DEF Squares
  <2>4. QED BY <1>2, <2>1, <2>2, <2>3
<1>5. CASE Squares(s, last) /\ r.trade.trade = NoTrade
  <2>1. closed = Result(r.trade, <<>>)
    BY <1>5 DEF ForceClosed
  <2>2. closed.trade = r.trade /\ closed.events = <<>>
    BY <2>1 DEF Result
  <2>3. events = r.events
    BY <1>3, <2>2, ConcatEmptySeq, Zenon
  <2>4. QED BY <1>2, <1>5, <2>2, <2>3
<1>6. CASE Squares(s, last) /\ r.trade.trade # NoTrade
  <2>1. PICK price \in Int, reason \in Reasons : price = b.close /\ reason = "Square-off"
    BY BarType DEF Reasons
  <2>2. closed = ForceClosed(r.trade, price, reason)
    BY <1>6, <2>1
  <2>3. /\ Engine(closed.trade) /\ closed.trade.trade = NoTrade
        /\ Calls(r.trade.trade, NoTrade, closed.events)
        /\ \E x \in Events : closed.events = <<x>> /\ x.kind = "Exit"
    BY <1>2, <1>6, <2>2, ForceClosedKeeps
  <2>4. PICK x \in Events : closed.events = <<x>> /\ x.kind = "Exit"
    BY <2>3
  <2>14. PICK none \in Seq(Events) : none = <<>>
    BY Nothing
  <2>5. events = Append(heard, x) /\ closed.events = Append(none, x)
    <3>1. Append(heard, x) = heard \o <<x>>
      BY AppendIsConcat
    <3>2. <<x>> = Append(none, x)
      BY <2>14
    <3>3. QED BY <1>3, <2>4, <3>1, <3>2, Zenon
  <2>6. PICK p, q : p = PositionOf(engine.trade) /\ q = PositionOf(r.trade.trade)
    OBVIOUS
  <2>7. Told(p, heard, q) /\ Told(q, Append(none, x), FlatPosition)
    BY <1>2, <1>3, <2>3, <2>5, <2>6, Zenon DEF Calls, PositionOf
  <2>8. Contract!After(q, x) = FlatPosition /\ Executed(BookOf(q), x) = BookOf(FlatPosition)
    <3>2. /\ Contract!AfterAll(q, <<>>) = q
          /\ Contract!AfterAll(q, Append(none, x)) = Contract!After(Contract!AfterAll(q, none), x)
      BY ONLY x \in Events, none \in Seq(Events), PositionsGrow
    <3>3. /\ ExecutedAll(BookOf(q), <<>>) = BookOf(q)
          /\ ExecutedAll(BookOf(q), Append(none, x)) = Executed(ExecutedAll(BookOf(q), none), x)
      BY ONLY x \in Events, none \in Seq(Events), BooksGrow
    <3>4. QED BY <2>7, <2>14, <3>2, <3>3, Zenon DEF Told
  <2>9. Told(p, Append(heard, x), FlatPosition)
    BY <2>7, <2>8, ToldMore
  <2>10. ~allowed
    <3>1. ~Allowed(s, last)
      BY <1>6, RulesAssumption DEF Allowed, Squares
    <3>2. QED BY <1>1, <3>1, Zenon
  <2>11. EntryLast(events) /\ ~Partials(events)
    BY <1>2, <1>3, <2>4, <2>5, <2>10, OneMore
  <2>12. Calls(engine.trade, NoTrade, events)
    BY <2>5, <2>6, <2>9, <2>11, Zenon DEF Calls, PositionOf
  <2>13. QED BY <2>3, <2>12
<1>7. QED BY <1>4, <1>5, <1>6

-----------------------------------------------------------------------------
(* The steps *)

\* The invariant holds at the start.
LEMMA InitSound == ASSUME Init PROVE IInv /\ engine.trade = NoTrade
<1>1. kind \in Kinds /\ engine \in NewEngines(kind) /\ runner \in {"live", "replay"}
  BY DEF Init
<1>2. Engine(engine) /\ engine.trade = NoTrade
  BY <1>1, NewEngine
<1>3. slot = 0 /\ told = <<>> /\ (kind # "sats" => book = NoBook)
  BY DEF Init
<1>4. BookOf(PositionOf(NoTrade)) = NoBook
  BY DEF BookOf, PositionOf, FlatPosition, NoBook
<1>5. Replayed
  BY <1>2, <1>3, <1>4, Nothing DEF Replayed
<1>6. QED BY <1>1, <1>2, <1>5 DEF IInv

\* Every step is a call of the model that its runner can follow.
LEMMA StepSound ==
  ASSUME IInv, Next, trading \in BOOLEAN
  PROVE  /\ IInv' /\ kind' = kind /\ trading' \in BOOLEAN
         /\ Steps(engine.trade, engine'.trade, told')
<1>1. kind \in Kinds /\ runner \in {"live", "replay"} /\ Engine(engine) /\ slot \in Nat
  BY DEF IInv, Replayed
<1>2. Prices \subseteq Int
  BY TradeAssumption
\* A call of the live runner.
<1>3. ASSUME runner = "live", NEW r, Called(r), Engine(r.trade),
             Steps(engine.trade, r.trade.trade, r.events)
      PROVE  /\ IInv' /\ kind' = kind /\ trading' \in BOOLEAN
             /\ Steps(engine.trade, engine'.trade, told')
  <2>1. /\ engine' = r.trade /\ told' = r.events /\ kind' = kind /\ runner' = runner
        /\ slot' = slot /\ trading' = trading /\ book' = book
    BY <1>3 DEF Called, UnchangedReplay
  <2>2. Engine(engine)'
    BY <1>3, <2>1 DEF Engine
  <2>3. Replayed'
    BY <1>1, <1>3, <2>1 DEF Replayed
  <2>4. QED BY <1>1, <1>3, <2>1, <2>2, <2>3 DEF IInv
<1>4. CASE LiveBar
  <2>1. runner = "live"
    BY <1>4 DEF LiveBar
  <2>2. PICK b \in Bars, allowed \in BOOLEAN : \E r \in OnBar(b, allowed) : Called(r)
    BY <1>4 DEF LiveBar
  <2>3. PICK r \in OnBar(b, allowed) : Called(r)
    BY <2>2
  <2>4. Engine(r.trade) /\ Steps(engine.trade, r.trade.trade, r.events)
    BY <1>1, OnBarKeeps
  <2>5. QED BY <1>3, <2>1, <2>3, <2>4
<1>5. CASE LiveStop
  <2>1. runner = "live" /\ kind # "sats" /\ engine.trade # NoTrade
    BY <1>5 DEF LiveStop, Open
  <2>2. PICK price \in Prices : Called(ForceClosed(engine, price, "stop"))
    BY <1>5 DEF LiveStop
  <2>3. PICK reason \in Reasons : reason = "stop"
    BY DEF Reasons
  <2>4. PICK r : r = ForceClosed(engine, price, reason)
    OBVIOUS
  <2>5. price \in Int
    BY <1>2
  <2>6. Engine(r.trade) /\ r.trade.trade = NoTrade /\ Calls(engine.trade, NoTrade, r.events)
    BY <1>1, <2>1, <2>4, <2>5, ForceClosedKeeps
  <2>7. Called(r)
    BY <2>2, <2>3, <2>4
  <2>8. QED BY <1>3, <2>1, <2>6, <2>7 DEF Steps
<1>6. CASE LiveTarget
  <2>1. runner = "live" /\ kind \in {"wvad", "sniper"} /\ engine.trade # NoTrade
    BY <1>6 DEF LiveTarget, Open
  <2>2. PICK level \in Levels : Called(Marked(engine, level))
    BY <1>6 DEF LiveTarget
  <2>3. PICK r : r = Marked(engine, level)
    OBVIOUS
  <2>4. Engine(r.trade) /\ Calls(engine.trade, r.trade.trade, r.events)
    BY <1>1, <2>1, <2>3, MarkedKeeps
  <2>5. QED BY <1>3, <2>1, <2>2, <2>3, <2>4 DEF Steps
<1>7. CASE LiveCloses
  <2>1. runner = "live" /\ kind # "sats" /\ engine.trade # NoTrade
    BY <1>7 DEF LiveCloses, Open
  <2>2. PICK price \in Prices : Called(ForceClosed(engine, price, "Square-off"))
    BY <1>7 DEF LiveCloses
  <2>3. PICK reason \in Reasons : reason = "Square-off"
    BY DEF Reasons
  <2>4. PICK r : r = ForceClosed(engine, price, reason)
    OBVIOUS
  <2>5. price \in Int
    BY <1>2
  <2>6. Engine(r.trade) /\ r.trade.trade = NoTrade /\ Calls(engine.trade, NoTrade, r.events)
    BY <1>1, <2>1, <2>4, <2>5, ForceClosedKeeps
  <2>7. Called(r)
    BY <2>2, <2>3, <2>4
  <2>8. QED BY <1>3, <2>1, <2>6, <2>7 DEF Steps
<1>8. CASE ReplayBar
  <2>1. runner = "replay" /\ kind # "sats" /\ kind' = kind /\ runner' = runner
    BY <1>8 DEF ReplayBar
  <2>2. PICK b \in Bars, s \in slot + 1..DayEnd, last \in BOOLEAN :
          /\ \E r \in OnBar(b, Allowed(s, last)) :
               LET closed == IF Squares(s, last) THEN ForceClosed(r.trade, b.close, "Square-off")
                             ELSE Result(r.trade, <<>>)
               IN /\ engine' = closed.trade
                  /\ told' = r.events \o closed.events
                  /\ book' = ExecutedAll(book, told')
          /\ slot' = IF last THEN 0 ELSE s
          /\ trading' \in IF last THEN {trading, TRUE} ELSE {trading}
    BY <1>8, Zenon DEF ReplayBar
  <2>3. s \in Nat /\ s > 0
    BY <1>1, RulesAssumption
  <2>4. PICK r \in OnBar(b, Allowed(s, last)) :
          LET closed == IF Squares(s, last) THEN ForceClosed(r.trade, b.close, "Square-off")
                        ELSE Result(r.trade, <<>>)
          IN /\ engine' = closed.trade
             /\ told' = r.events \o closed.events
             /\ book' = ExecutedAll(book, told')
    BY <2>2
  <2>5. PICK closed : closed = IF Squares(s, last) THEN ForceClosed(r.trade, b.close, "Square-off")
                               ELSE Result(r.trade, <<>>)
    OBVIOUS
  <2>6. PICK events : events = r.events \o closed.events
    OBVIOUS
  <2>7. engine' = closed.trade /\ told' = events /\ book' = ExecutedAll(book, events)
    BY <2>4, <2>5, <2>6, Zenon
  <2>8. /\ Engine(closed.trade) /\ Calls(engine.trade, closed.trade.trade, events)
        /\ last => closed.trade.trade = NoTrade
    <3>1. ScheduledBar(b, s, last, r, closed, events)
      BY <2>3, <2>4, <2>5, <2>6, Zenon DEF ScheduledBar
    <3>2. QED BY <1>1, <2>1, <3>1, SquaredKeeps
  <2>9. Engine(engine)'
    BY <2>1, <2>7, <2>8 DEF Engine
  <2>10. slot' \in Nat /\ (slot' = 0 => last) /\ trading' \in BOOLEAN
    <3>1. CASE last
      BY <2>2, <3>1, Zenon
    <3>2. CASE ~last
      <4>1. slot' = s /\ trading' = trading
        BY <2>2, <3>2
      <4>2. QED BY <2>3, <4>1
    <3>3. QED BY <3>1, <3>2
  <2>11. book' = BookOf(PositionOf(engine'.trade))
    <3>1. book = BookOf(PositionOf(engine.trade))
      BY <2>1 DEF IInv, Replayed
    <3>2. ExecutedAll(BookOf(PositionOf(engine.trade)), events) = BookOf(PositionOf(closed.trade.trade))
      BY <2>1, <2>8, Zenon DEF Calls, Told
    <3>3. QED BY <2>7, <3>1, <3>2, Zenon
  <2>12. Replayed'
    <3>1. told' \in Seq(Events) /\ EntryLast(told')
      BY <2>7, <2>8, Zenon DEF Calls, Told
    <3>2. slot' = 0 => engine'.trade = NoTrade
      BY <2>7, <2>8, <2>10
    <3>3. QED BY <2>10, <2>11, <3>1, <3>2 DEF Replayed
  <2>13. Steps(engine.trade, engine'.trade, told')
    BY <2>1, <2>7, <2>8 DEF Steps
  <2>14. QED BY <1>1, <2>1, <2>9, <2>10, <2>12, <2>13 DEF IInv
<1>9. CASE SatsReplayBar
  <2>1. /\ runner = "replay" /\ kind = "sats" /\ kind' = kind /\ runner' = runner
        /\ slot' = slot /\ trading' = trading
    BY <1>9 DEF SatsReplayBar
  <2>2. PICK b \in Bars, allowed \in BOOLEAN :
          \E r \in OnBar(b, allowed) : engine' = r.trade /\ told' = r.events
    BY <1>9 DEF SatsReplayBar
  <2>3. PICK r \in OnBar(b, allowed) : engine' = r.trade /\ told' = r.events
    BY <2>2
  <2>4. Engine(r.trade) /\ Steps(engine.trade, r.trade.trade, r.events)
    BY <1>1, OnBarKeeps
  <2>5. Engine(engine)'
    BY <2>1, <2>3, <2>4 DEF Engine
  <2>6. Replayed'
    BY <1>1, <2>1 DEF Replayed
  <2>7. QED BY <1>1, <2>1, <2>3, <2>4, <2>5, <2>6 DEF IInv
<1>10. QED BY <1>4, <1>5, <1>6, <1>7, <1>8, <1>9 DEF Next

\* The invariant, with the flag of the days that are traded.
Invariant == IInv /\ trading \in BOOLEAN

\* The invariant holds in every state.
LEMMA Invariance == Spec => []Invariant
<1>1. Init => Invariant
  BY InitSound DEF Invariant, Init
<1>2. Invariant /\ [Next]_vars => Invariant'
  <2>1. SUFFICES ASSUME Invariant, [Next]_vars PROVE Invariant'
    OBVIOUS
  <2>2. CASE Next
    BY <2>1, <2>2, StepSound DEF Invariant
  <2>3. CASE UNCHANGED vars
    <3>1. /\ kind' = kind /\ runner' = runner /\ engine' = engine /\ told' = told
          /\ slot' = slot /\ trading' = trading /\ book' = book
      BY <2>3 DEF vars
    <3>2. Engine(engine)'
      BY <2>1, <3>1 DEF Invariant, IInv, Engine
    <3>3. Replayed'
      BY <2>1, <3>1 DEF Invariant, IInv, Replayed
    <3>4. QED BY <2>1, <3>1, <3>2, <3>3 DEF Invariant, IInv
  <2>4. QED BY <2>1, <2>2, <2>3
<1>3. QED BY <1>1, <1>2, PTL DEF Spec

-----------------------------------------------------------------------------
(* What the invariant says *)

\* The replay holds nothing overnight, and opens no trade on a bar that closes all.
THEOREM FlatOvernightHolds == Spec => []FlatOvernight
<1>1. Invariant => FlatOvernight
  <2>1. SUFFICES ASSUME Invariant, runner = "replay", kind # "sats"
                 PROVE  /\ slot = 0 => ~Open
                        /\ \A i, j \in DOMAIN told :
                             i < j /\ told[i].kind = "Entry" => told[j].kind # "Exit"
    BY DEF FlatOvernight
  <2>2. /\ slot = 0 => engine.trade = NoTrade
        /\ told \in Seq(Events) /\ EntryLast(told)
    BY <2>1 DEF Invariant, IInv, Replayed
  <2>3. ASSUME NEW i \in DOMAIN told, NEW j \in DOMAIN told, i < j, told[i].kind = "Entry"
        PROVE  told[j].kind # "Exit"
    <3>1. i = Len(told)
      BY <2>2, <2>3, Zenon DEF EntryLast
    <3>2. j <= Len(told) /\ j \in Nat /\ i \in Nat
      BY <2>2
    <3>3. QED BY <2>3, <3>1, <3>2
  <2>4. QED BY <2>2, <2>3 DEF Open
<1>2. QED BY <1>1, Invariance, PTL

\* A trade counts in an epoch of the calibration only if it was entered under it.
THEOREM EpochPureHolds == Spec => []EpochPure
<1>1. Invariant => EpochPure
  BY DEF Invariant, IInv, Engine, Pure, EpochPure, Open
<1>2. QED BY <1>1, Invariance, PTL

-----------------------------------------------------------------------------
(* The contract *)

\* The position as the contract sees it.
LEMMA PositionSeen ==
  Position = IF kind = "sats" THEN SatsPositionOf(engine.trade) ELSE PositionOf(engine.trade)
<1>1. CASE engine.trade = NoTrade
  <2>1. Position = FlatPosition
    BY <1>1, Zenon DEF Position, Open, FlatPosition
  <2>2. SatsPositionOf(engine.trade) = FlatPosition /\ PositionOf(engine.trade) = FlatPosition
    BY <1>1, Zenon DEF SatsPositionOf, PositionOf
  <2>3. QED BY <2>1, <2>2
<1>2. CASE engine.trade # NoTrade /\ kind = "sats"
  BY <1>2, Zenon DEF Position, Open, SatsPositionOf
<1>3. CASE engine.trade # NoTrade /\ kind # "sats"
  BY <1>3, Zenon DEF Position, Open, PositionOf, Paid
<1>4. QED BY <1>1, <1>2, <1>3

\* An open trade has lots, and its stop is behind its targets.
LEMMA StopBehind ==
  ASSUME IInv
  PROVE  /\ Position # Contract!Broken
         /\ engine.trade # NoTrade =>
              /\ engine.trade.stop \in Int /\ Cardinality(engine.trade.hits) \in Nat
              /\ engine.trade.stop <= Cardinality(engine.trade.hits) - 1
<1>1. PICK t : t = engine.trade
  OBVIOUS
<1>2. CASE t = NoTrade
  <2>1. Position = FlatPosition
    BY <1>1, <1>2, PositionSeen, Zenon DEF PositionOf, SatsPositionOf
  <2>2. FlatPosition.dir = 0 /\ Contract!Broken.dir = 2
    BY DEF FlatPosition, Contract!Broken
  <2>3. QED BY <1>1, <1>2, <2>1, <2>2
<1>3. CASE t # NoTrade /\ kind # "sats"
  <2>1. Sound(t)
    BY <1>1, <1>3 DEF IInv, Engine
  <2>2. t.dir \in {-1, 1} /\ t.stop \in -1..2 /\ t.hits \in Marks /\ t.stop < Reached(t.hits)
    BY <2>1, TradeIs DEF Sound
  <2>3. Cardinality(t.hits) = Reached(t.hits) /\ Reached(t.hits) \in Nat
    BY <2>2, ReachedIs DEF Reached
  <2>4. Position.dir = t.dir
    <3>1. Position = [dir |-> t.dir, left |-> t.left, closed |-> Paid(t.hits)]
      BY <1>1, <1>3, PositionSeen, Zenon DEF PositionOf
    <3>2. QED BY <3>1
  <2>5. Contract!Broken.dir = 2
    BY DEF Contract!Broken
  <2>6. QED BY <1>1, <2>2, <2>3, <2>4, <2>5
<1>4. CASE t # NoTrade /\ kind = "sats"
  <2>1. t \in SatsTrades
    BY <1>1, <1>4 DEF IInv, Engine, SatsEngines
  <2>2. t.dir \in {-1, 1} /\ t.stop = -1 /\ t.hits \in SatsMarks
    BY <2>1, SatsTradeIs
  <2>3. Cardinality(t.hits) = Reached(t.hits) /\ Reached(t.hits) \in Nat
    BY <2>2, ReachedIs, SatsLeftOver
  <2>4. Position.dir = t.dir
    <3>1. Position = [dir |-> t.dir, left |-> t.left, closed |-> t.hits]
      BY <1>1, <1>4, PositionSeen, Zenon DEF SatsPositionOf
    <3>2. QED BY <3>1
  <2>5. Contract!Broken.dir = 2
    BY DEF Contract!Broken
  <2>6. QED BY <1>1, <2>2, <2>3, <2>4, <2>5
<1>5. QED BY <1>2, <1>3, <1>4

\* The contract counts the targets as this module does.
LEMMA SameCount == ASSUME NEW S PROVE Contract!Cardinality(S) = Cardinality(S)
BY Zenon DEF Contract!Cardinality, Cardinality

\* A new engine starts as the contract does.
LEMMA InitImplements == Init => Contract!Init
<1>1. SUFFICES ASSUME Init PROVE Contract!Init
  OBVIOUS
<1>2. engine.trade = NoTrade /\ told = <<>>
  BY <1>1, InitSound DEF Init
<1>3. Position = Contract!Flat
  BY <1>2, Zenon DEF Position, Open, Contract!Flat
<1>4. (IF kind = "sats" THEN Thirds ELSE Lots) \in Nat \ {0}
  BY TradeAssumption DEF Thirds
<1>5. QED BY <1>2, <1>3, <1>4, Zenon DEF Contract!Init, Open

\* Every step of a runner is a call of the contract.
LEMMA StepImplements == Invariant /\ Next => Contract!Call
<1>1. SUFFICES ASSUME Invariant, Next PROVE Contract!Call
  OBVIOUS
<1>2. /\ IInv /\ IInv' /\ kind' = kind /\ trading \in BOOLEAN
      /\ Steps(engine.trade, engine'.trade, told')
  BY <1>1, StepSound DEF Invariant
<1>3. PICK t, after, events : t = engine.trade /\ after = engine'.trade /\ events = told'
  OBVIOUS
<1>4. /\ EntryLast(events)
      /\ Partials(events) =>
           \/ t = NoTrade /\ after = NoTrade
           \/ t # NoTrade /\ after # NoTrade /\ t.stop <= after.stop /\ t.hits \subseteq after.hits
  BY <1>2, <1>3, Zenon DEF Steps, Calls, SatsCalls
<1>5. Contract!AfterAll(Position, events) = Position'
  <2>1. CASE kind = "sats"
    <3>1. Position = SatsPositionOf(t)
      BY <1>3, <2>1, PositionSeen
    <3>2. Position' = SatsPositionOf(after)
      <4>1. (Position = IF kind = "sats" THEN SatsPositionOf(engine.trade) ELSE PositionOf(engine.trade))'
        BY PositionSeen, PTL
      <4>2. QED BY <1>2, <1>3, <2>1, <4>1
    <3>3. Told(SatsPositionOf(t), events, SatsPositionOf(after))
      BY <1>2, <1>3, <2>1 DEF Steps, SatsCalls
    <3>4. QED BY <3>1, <3>2, <3>3, Zenon DEF Told
  <2>2. CASE kind # "sats"
    <3>1. Position = PositionOf(t)
      BY <1>3, <2>2, PositionSeen
    <3>2. Position' = PositionOf(after)
      <4>1. (Position = IF kind = "sats" THEN SatsPositionOf(engine.trade) ELSE PositionOf(engine.trade))'
        BY PositionSeen, PTL
      <4>2. QED BY <1>2, <1>3, <2>2, <4>1
    <3>3. Told(PositionOf(t), events, PositionOf(after))
      BY <1>2, <1>3, <2>2 DEF Steps, Calls
    <3>4. QED BY <3>1, <3>2, <3>3, Zenon DEF Told
  <2>3. QED BY <2>1, <2>2
<1>6. /\ Position' # Contract!Broken
      /\ after # NoTrade =>
           /\ after.stop \in Int /\ Cardinality(after.hits) \in Nat
           /\ after.stop <= Cardinality(after.hits) - 1
  <2>1. (IInv => /\ Position # Contract!Broken
                 /\ engine.trade # NoTrade =>
                      /\ engine.trade.stop \in Int /\ Cardinality(engine.trade.hits) \in Nat
                      /\ engine.trade.stop <= Cardinality(engine.trade.hits) - 1)'
    BY StopBehind, PTL
  <2>2. QED BY <1>2, <1>3, <2>1
<1>7. PICK stop, stopAfter, hits, hitsAfter :
        /\ stop = (IF t # NoTrade THEN t.stop ELSE -1) /\ hits = (IF t # NoTrade THEN t.hits ELSE {})
        /\ stopAfter = (IF after # NoTrade THEN after.stop ELSE -1)
        /\ hitsAfter = (IF after # NoTrade THEN after.hits ELSE {})
  OBVIOUS
<1>8. stopAfter <= Cardinality(hitsAfter) - 1
  <2>1. CASE after = NoTrade
    <3>1. Cardinality({}) = 0
      BY FS_EmptySet
    <3>2. QED BY <1>7, <2>1, <3>1
  <2>2. CASE after # NoTrade
    BY <1>6, <1>7, <2>2
  <2>3. QED BY <2>1, <2>2
<1>9. Partials(events) => stopAfter >= stop /\ hits \subseteq hitsAfter
  <2>1. SUFFICES ASSUME Partials(events) PROVE stopAfter >= stop /\ hits \subseteq hitsAfter
    OBVIOUS
  <2>2. CASE t = NoTrade /\ after = NoTrade
    BY <1>7, <2>2
  <2>3. CASE t # NoTrade /\ after # NoTrade /\ t.stop <= after.stop /\ t.hits \subseteq after.hits
    BY <1>7, <2>3
  <2>4. QED BY <1>4, <2>1, <2>2, <2>3
<1>10. /\ UNCHANGED (IF kind = "sats" THEN Thirds ELSE Lots)
       /\ (IF Open THEN engine.trade.stop ELSE -1) = stop
       /\ (IF Open THEN engine.trade.hits ELSE {}) = hits
       /\ (IF Open THEN engine.trade.stop ELSE -1)' = stopAfter
       /\ (IF Open THEN engine.trade.hits ELSE {})' = hitsAfter
       /\ told' = events
  BY <1>2, <1>3, <1>7 DEF Open
<1>11. Position' = Contract!AfterAll(Position, told') /\ Position' # Contract!Broken
  BY <1>5, <1>6, <1>10, Zenon
<1>12. (IF Open THEN engine.trade.stop ELSE -1)'
         <= Cardinality((IF Open THEN engine.trade.hits ELSE {})') - 1
  BY <1>8, <1>10, Zenon
<1>13. (\A i \in DOMAIN told' : told'[i].kind = "Partial")
         => /\ (IF Open THEN engine.trade.stop ELSE -1)' >= (IF Open THEN engine.trade.stop ELSE -1)
            /\ (IF Open THEN engine.trade.hits ELSE {}) \subseteq (IF Open THEN engine.trade.hits ELSE {})'
  BY <1>9, <1>10, Zenon DEF Partials
<1>14. QED BY <1>10, <1>11, <1>12, <1>13, SameCount, Zenon DEF Contract!Call

\* Every engine, on bars and on ticks, live and in the replay, keeps the contract.
THEOREM ImplementsBarModelHolds == Spec => ImplementsBarModel
<1>1. Invariant /\ [Next]_vars
        => [Contract!Call]_<<IF kind = "sats" THEN Thirds ELSE Lots, Position,
                             IF Open THEN engine.trade.stop ELSE -1,
                             IF Open THEN engine.trade.hits ELSE {}, told>>
  <2>1. CASE Next
    BY <2>1, StepImplements
  <2>2. CASE UNCHANGED vars
    BY <2>2 DEF vars, Position, Open
  <2>3. QED BY <2>1, <2>2
<1>2. QED BY <1>1, InitImplements, Invariance, PTL DEF Spec, ImplementsBarModel, Contract!Spec

-----------------------------------------------------------------------------
(* Ticks and bars *)

\* The partials of the targets in S, in their order.
PartsAt(dir, S, k) == IF k \in S /\ LotsAt(k) > 0 THEN <<PartialAt(dir, k)>> ELSE <<>>
Parts(dir, S) == (PartsAt(dir, S, 1) \o PartsAt(dir, S, 2)) \o PartsAt(dir, S, 3)

\* Partials are events.
LEMMA PartsType ==
  ASSUME NEW dir \in {-1, 1}, NEW S
  PROVE  /\ \A k \in Levels : PartsAt(dir, S, k) \in Seq(Events)
         /\ Parts(dir, S) \in Seq(Events)
<1>1. ASSUME NEW k \in Levels PROVE PartsAt(dir, S, k) \in Seq(Events)
  <2>1. LotsAt(k) \in Nat
    BY TradeAssumption DEF LotsAt
  <2>2. PICK x : x = PartialAt(dir, k)
    OBVIOUS
  <2>3. x \in Events
    BY <2>1, <2>2 DEF Events, PartialEvents, PartialAt
  <2>4. <<x>> \in Seq(Events)
    BY <2>3
  <2>5. QED BY <2>2, <2>4, Nothing, Zenon DEF PartsAt
<1>2. 1 \in Levels /\ 2 \in Levels /\ 3 \in Levels
  BY DEF Levels
<1>3. PICK a \in Seq(Events), b \in Seq(Events), c \in Seq(Events) :
        a = PartsAt(dir, S, 1) /\ b = PartsAt(dir, S, 2) /\ c = PartsAt(dir, S, 3)
  BY <1>1, <1>2
<1>4. (a \o b) \o c \in Seq(Events)
  BY ConcatProperties
<1>5. QED BY <1>1, <1>3, <1>4, Zenon DEF Parts

\* Sequences of events may be grouped in any way.
LEMMA Regroup ==
  ASSUME NEW a \in Seq(Events), NEW b \in Seq(Events), NEW c \in Seq(Events)
  PROVE  (a \o b) \o c = a \o (b \o c)
BY ConcatAssociative, SMTT(60)

\* Two sequences of events are one.
LEMMA JoinType ==
  ASSUME NEW a \in Seq(Events), NEW b \in Seq(Events)
  PROVE  a \o b \in Seq(Events)
BY ConcatProperties

\* Partials of lower targets come first.
Below(m, S, T) == m \in {1, 2} /\ S \subseteq 1..m /\ T \cap 1..m = {}
Split(dir, S, T) == Parts(dir, S \cup T) = Parts(dir, S) \o Parts(dir, T)

\* The partials of some targets and those of higher ones, one after the other,
\* are those of all.
LEMMA PartsSplit ==
  ASSUME NEW dir \in {-1, 1}, NEW m, NEW S, NEW T, Below(m, S, T)
  PROVE  Split(dir, S, T)
<1>0. m \in {1, 2} /\ S \subseteq 1..m /\ T \cap 1..m = {}
  BY Zenon DEF Below
<1> USE <1>0
<1> DEFINE at(X, k) == PartsAt(dir, X, k)
<1>1. \A k \in Levels : /\ k \in S \cup T <=> (IF k \in 1..m THEN k \in S ELSE k \in T)
                        /\ k \in 1..m => k \notin T
                        /\ k \notin 1..m => k \notin S
  OBVIOUS
<1>2. \A k \in Levels : IF k \in 1..m THEN at(S \cup T, k) = at(S, k) /\ at(T, k) = <<>>
                        ELSE at(S \cup T, k) = at(T, k) /\ at(S, k) = <<>>
  BY <1>1, Zenon DEF PartsAt
<1>3. 1 \in Levels /\ 2 \in Levels /\ 3 \in Levels /\ 1 \in 1..m /\ 3 \notin 1..m
  BY DEF Levels
<1> HIDE DEF at
<1>4. PICK a \in Seq(Events), b \in Seq(Events), c \in Seq(Events) :
        a = at(S \cup T, 1) /\ b = at(S \cup T, 2) /\ c = at(S \cup T, 3)
  BY <1>3, PartsType DEF at
<1>5. PICK none \in Seq(Events) : none = <<>>
  BY Nothing
<1>6. at(S, 1) = a /\ at(T, 1) = none /\ at(S, 3) = none /\ at(T, 3) = c
  BY <1>2, <1>3, <1>4, <1>5, Zenon
<1>7. \A s \in Seq(Events) : s \o none = s /\ none \o s = s
  <2>1. ASSUME NEW s \in Seq(Events) PROVE s \o none = s /\ none \o s = s
    BY <1>5, ConcatEmptySeq, Zenon
  <2>2. QED BY <2>1, Zenon
<1>10. a \o b \in Seq(Events)
  BY JoinType
<1>8. CASE 2 \in 1..m
  <2>1. at(S, 2) = b /\ at(T, 2) = none
    BY <1>2, <1>3, <1>4, <1>5, <1>8, Zenon
  <2>2. (a \o b) \o c = ((a \o b) \o none) \o ((none \o none) \o c)
    BY <1>7, <1>10, Zenon
  <2>3. QED BY <1>4, <1>6, <2>1, <2>2, Zenon DEF Parts, at, Split
<1>9. CASE 2 \notin 1..m
  <2>1. at(S, 2) = none /\ at(T, 2) = b
    BY <1>2, <1>3, <1>4, <1>5, <1>9, Zenon
  <2>2. (a \o b) \o c = ((a \o none) \o none) \o ((none \o b) \o c)
    <3>1. (a \o none) \o none = a /\ none \o b = b
      BY <1>7, Zenon
    <3>2. (a \o b) \o c = a \o (b \o c)
      BY Regroup
    <3>3. QED BY <3>1, <3>2, Zenon
  <2>3. QED BY <1>4, <1>6, <2>1, <2>2, Zenon DEF Parts, at, Split
<1>11. QED BY <1>8, <1>9

HitFits(dir, stop, hits, k, events, r, S) ==
  /\ dir \in {-1, 1} /\ stop \in -1..2 /\ hits \in Marks /\ k \in Levels /\ hits \cup {k} \in Marks
  /\ events \in Seq(Events) /\ r = Result(TradeAt(dir, stop, hits), events)
  /\ k \in S <=> k \notin hits

\* `Trade::hit` adds the target's partial, if it has one, to what was told.
LEMMA HitAdds ==
  ASSUME NEW dir, NEW stop, NEW hits, NEW k, NEW events, NEW r, NEW S,
         HitFits(dir, stop, hits, k, events, r, S)
  PROVE  Hit(r, k) = Result(TradeAt(dir, stop, hits \cup {k}), events \o PartsAt(dir, S, k))
<1>0. /\ dir \in {-1, 1} /\ stop \in -1..2 /\ hits \in Marks /\ k \in Levels /\ hits \cup {k} \in Marks
      /\ events \in Seq(Events) /\ r = Result(TradeAt(dir, stop, hits), events)
      /\ k \in S <=> k \notin hits
  BY Zenon DEF HitFits
<1> USE <1>0
<1>1. r.trade = TradeAt(dir, stop, hits) /\ r.events = events
  BY DEF Result
<1>2. HitMarks(dir, stop, hits, k, r)
  BY <1>1, HitIs
<1>3. PICK n \in Nat : n = LotsAt(k)
  BY <1>2 DEF HitMarks
<1>4. CASE k \in hits \/ n = 0
  <2>1. PartsAt(dir, S, k) = <<>>
    <3>1. ~(n > 0) \/ k \notin S
      BY <1>4
    <3>2. QED BY <1>3, <3>1, Zenon DEF PartsAt
  <2>2. events \o <<>> = events
    BY ConcatEmptySeq
  <2>3. QED BY <1>1, <1>2, <1>3, <1>4, <2>1, <2>2, Zenon DEF HitMarks
<1>5. CASE k \notin hits /\ n > 0
  <2>1. PartsAt(dir, S, k) = <<PartialAt(dir, k)>>
    BY <1>3, <1>5, Zenon DEF PartsAt
  <2>2. PICK x : x = PartialAt(dir, k)
    OBVIOUS
  <2>3. x \in Events
    BY <1>3, <2>2 DEF Events, PartialEvents, PartialAt
  <2>4. Append(events, x) = events \o <<x>>
    BY <2>3, AppendIsConcat
  <2>5. QED BY <1>1, <1>2, <1>3, <1>5, <2>1, <2>2, <2>4, Zenon DEF HitMarks
<1>6. QED BY <1>3, <1>4, <1>5

\* What reaching targets does, and tells.
LEMMA HitAllIs ==
  ASSUME NEW dir \in {-1, 1}, NEW stop \in -1..2, NEW hits \in Marks,
         NEW levels \in SUBSET Levels, hits \cup levels \in Marks
  PROVE  HitAll(TradeAt(dir, stop, hits), levels)
           = Result(TradeAt(dir, stop, hits \cup levels), Parts(dir, levels \ hits))
<1> DEFINE at(r, k) == IF k \in levels THEN Hit(r, k) ELSE r
<1> DEFINE part(k) == PartsAt(dir, levels \ hits, k)
<1>1. PICK one, two, three : /\ one = hits \cup (levels \cap 1..1)
                             /\ two = hits \cup (levels \cap 1..2) /\ three = hits \cup levels
  OBVIOUS
<1>2. one \in Marks /\ two \in Marks /\ three \in Marks
  BY <1>1 DEF Marks, Levels
<1>3. /\ 1 \in levels => one = hits \cup {1}
      /\ 1 \notin levels => one = hits
      /\ 2 \in levels => two = one \cup {2} /\ (2 \in levels \ hits <=> 2 \notin one)
      /\ 2 \notin levels => two = one
  BY <1>1 DEF Levels
<1>4. /\ 3 \in levels => three = two \cup {3} /\ (3 \in levels \ hits <=> 3 \notin two)
      /\ 3 \notin levels => three = two
  <2>1. \A x \in levels : x \in 1..2 \/ x = 3
    BY DEF Levels
  <2>2. 3 \notin 1..2
    OBVIOUS
  <2>3. QED BY <1>1, <2>1, <2>2
<1>5. 1 \in Levels /\ 2 \in Levels /\ 3 \in Levels
  BY DEF Levels
<1>6. PICK none \in Seq(Events) : none = <<>>
  BY Nothing
<1>7. PICK a \in Seq(Events), b \in Seq(Events), c \in Seq(Events) : a = part(1) /\ b = part(2) /\ c = part(3)
  BY <1>5, PartsType
<1>8. /\ a \in Seq(Events) /\ a \o b \in Seq(Events) /\ (a \o b) \o none = a \o b
      /\ none \o a = a /\ a \o none = a /\ none \o none = none
  BY <1>6, ConcatEmptySeq, ConcatProperties
<1>9. \A k \in Levels : k \notin levels => part(k) = none
  BY <1>6, Zenon DEF PartsAt
<1>10. PICK r : r = Result(TradeAt(dir, stop, hits), none)
  OBVIOUS
<1>11. at(r, 1) = Result(TradeAt(dir, stop, one), a)
  <2>1. CASE 1 \in levels
    <3>1. PICK k \in Levels : k = 1
      BY <1>5
    <3>2. hits \cup {k} \in Marks /\ (k \in levels \ hits <=> k \notin hits)
      BY <1>2, <1>3, <2>1, <3>1
    <3>3. Hit(r, k) = Result(TradeAt(dir, stop, hits \cup {k}), none \o PartsAt(dir, levels \ hits, k))
      <4>1. HitFits(dir, stop, hits, k, none, r, levels \ hits)
        BY <1>10, <3>2, Zenon DEF HitFits
      <4>2. QED BY <4>1, HitAdds
    <3>4. QED BY <1>3, <1>7, <1>8, <2>1, <3>1, <3>3, Zenon
  <2>2. CASE 1 \notin levels
    BY <1>3, <1>5, <1>7, <1>9, <1>10, <2>2, Zenon
  <2>3. QED BY <2>1, <2>2
<1>12. PICK r1 : r1 = Result(TradeAt(dir, stop, one), a)
  OBVIOUS
<1>13. at(r1, 2) = Result(TradeAt(dir, stop, two), a \o b)
  <2>1. CASE 2 \in levels
    <3>1. PICK k \in Levels : k = 2
      BY <1>5
    <3>2. one \cup {k} \in Marks /\ (k \in levels \ hits <=> k \notin one)
      BY <1>2, <1>3, <2>1, <3>1
    <3>3. Hit(r1, k) = Result(TradeAt(dir, stop, one \cup {k}), a \o PartsAt(dir, levels \ hits, k))
      <4>1. HitFits(dir, stop, one, k, a, r1, levels \ hits)
        BY <1>2, <1>12, <3>2, Zenon DEF HitFits
      <4>2. QED BY <4>1, HitAdds
    <3>4. QED BY <1>3, <1>7, <2>1, <3>1, <3>3, Zenon
  <2>2. CASE 2 \notin levels
    BY <1>3, <1>5, <1>7, <1>8, <1>9, <1>12, <2>2, Zenon
  <2>3. QED BY <2>1, <2>2
<1>14. PICK ab \in Seq(Events) : ab = a \o b
  BY <1>8
<1>15. PICK r2 : r2 = Result(TradeAt(dir, stop, two), ab)
  OBVIOUS
<1>16. at(r2, 3) = Result(TradeAt(dir, stop, three), ab \o c)
  <2>1. CASE 3 \in levels
    <3>1. PICK k \in Levels : k = 3
      BY <1>5
    <3>2. two \cup {k} \in Marks /\ (k \in levels \ hits <=> k \notin two)
      BY <1>2, <1>4, <2>1, <3>1
    <3>3. Hit(r2, k) = Result(TradeAt(dir, stop, two \cup {k}), ab \o PartsAt(dir, levels \ hits, k))
      <4>1. HitFits(dir, stop, two, k, ab, r2, levels \ hits)
        BY <1>2, <1>15, <3>2, Zenon DEF HitFits
      <4>2. QED BY <4>1, HitAdds
    <3>4. QED BY <1>4, <1>7, <2>1, <3>1, <3>3, Zenon
  <2>2. CASE 3 \notin levels
    <3>1. c = none /\ two = three /\ ab \o none = ab
      BY <1>4, <1>5, <1>7, <1>8, <1>9, <1>14, <2>2, Zenon
    <3>2. QED BY <1>15, <2>2, <3>1, Zenon
  <2>3. QED BY <2>1, <2>2
<1>17. HitAll(TradeAt(dir, stop, hits), levels) = at(at(at(r, 1), 2), 3)
  BY <1>6, <1>10, Zenon DEF HitAll
<1>18. at(at(at(r, 1), 2), 3) = Result(TradeAt(dir, stop, three), ab \o c)
  BY <1>11, <1>12, <1>13, <1>14, <1>15, <1>16, Zenon
<1>19. ab \o c = Parts(dir, levels \ hits)
  BY <1>7, <1>14, Zenon DEF Parts
<1>20. QED BY <1>1, <1>17, <1>18, <1>19, Zenon

\* What a bar does with a trade that is not stopped, once it has reached its
\* targets: it closes at the third or at a reversal, or its stop moves up ...
Ended(dir, stop, after, events, fin, signal, close) ==
  LET u == TradeAt(dir, stop, after)
  IN IF fin THEN Finished(u, events, 3, "TP3")
     ELSE IF signal = -dir THEN Finished(u, events, dir * close, "Reversal")
     ELSE Result(Raised(u, WvadLevelStop(u)), events)
\* ... and then the signal may open a trade.
Entered(s, signal) ==
  IF signal # 0 /\ s.trade = NoTrade
  THEN Result([trade |-> Opened(signal)], Append(s.events, EntryOf(signal)))
  ELSE Result([trade |-> s.trade], s.events)

\* An engine with a trade that is not stopped on a bar.
Unstopped(e, b, dir, stop, hits) ==
  /\ dir \in {-1, 1} /\ stop \in -1..2 /\ hits \in Marks /\ b \in Bars
  /\ e = [trade |-> TradeAt(dir, stop, hits)] /\ ~Stopped(TradeAt(dir, stop, hits), b)

\* The bar of such an engine, its targets and its signal.
BarReaches(e, b, dir, stop, hits, touched, input, signal) ==
  /\ Unstopped(e, b, dir, stop, hits) /\ touched = Touched(TradeAt(dir, stop, hits), b)
  /\ signal = WvadSignal(input, TRUE)
Outcome(e, b, dir, stop, hits, touched, input, signal) ==
  WvadOnBar(e, b, input, TRUE)
    = Entered(Ended(dir, stop, hits \cup touched, Parts(dir, touched), 3 \in touched,
                    signal, b.close), signal)

\* A bar on which the trade is not stopped.
LEMMA OutcomeIs ==
  ASSUME NEW e, NEW b, NEW dir, NEW stop, NEW hits, NEW touched, NEW input, NEW signal,
         BarReaches(e, b, dir, stop, hits, touched, input, signal)
  PROVE  Outcome(e, b, dir, stop, hits, touched, input, signal)
<1>0. /\ Unstopped(e, b, dir, stop, hits) /\ touched = Touched(TradeAt(dir, stop, hits), b)
      /\ signal = WvadSignal(input, TRUE)
  BY Zenon DEF BarReaches
<1>1. /\ dir \in {-1, 1} /\ stop \in -1..2 /\ hits \in Marks /\ b \in Bars
      /\ e = [trade |-> TradeAt(dir, stop, hits)] /\ ~Stopped(TradeAt(dir, stop, hits), b)
  BY <1>0, Zenon DEF Unstopped
<1> USE <1>0, <1>1
<1>2. PICK t : t = TradeAt(dir, stop, hits)
  OBVIOUS
<1>3. e.trade = t /\ t # NoTrade /\ t.dir = dir /\ t.hits = hits /\ e = [trade |-> t]
  BY <1>2, TradeMade
<1>4. touched \in SUBSET Levels /\ hits \cup touched \in Marks /\ touched \ hits = touched
  <2>1. touched \in SUBSET Levels /\ hits \cup touched \in Marks
    BY TouchedIs
  <2>2. \A k \in touched : k \notin hits
    BY <1>2, <1>3 DEF Touched
  <2>3. QED BY <2>1, <2>2
<1>5. PICK u : u = TradeAt(dir, stop, hits \cup touched)
  OBVIOUS
<1>6. PICK events : events = Parts(dir, touched)
  OBVIOUS
<1>7. HitAll(t, touched) = Result(u, events)
  BY <1>2, <1>4, <1>5, <1>6, HitAllIs
<1>8. PICK h : h = HitAll(t, touched)
  OBVIOUS
<1>9. h.trade = u /\ h.events = events
  BY <1>7, <1>8 DEF Result
<1>10. Gain(t, b.close) = dir * b.close
  BY <1>3, Zenon DEF Gain
<1>11. PICK s : s = IF 3 \in touched THEN Finished(u, events, 3, "TP3")
                    ELSE IF signal = -dir THEN Finished(u, events, dir * b.close, "Reversal")
                    ELSE Result(Raised(u, WvadLevelStop(u)), events)
  OBVIOUS
<1>12. WvadSettled(t, b, signal) = s
  BY <1>2, <1>3, <1>8, <1>9, <1>10, <1>11, Zenon DEF WvadSettled
<1>13. \A x : [e EXCEPT !.trade = x] = [trade |-> x]
  BY <1>3
<1>14. WvadOnBar(e, b, input, TRUE) = Entered(s, signal)
  BY <1>3, <1>12, <1>13, Zenon DEF WvadOnBar, Entered
<1>15. QED BY <1>5, <1>6, <1>11, <1>14, Zenon DEF Ended, Outcome

\* More was told before: a sequence of events and what is told after it.
LEMMA AppendJoins ==
  ASSUME NEW a \in Seq(Events), NEW events \in Seq(Events), NEW x \in Events
  PROVE  /\ Append(a \o events, x) = a \o Append(events, x)
         /\ Append(events, x) \in Seq(Events)
<1>1. a \o events \in Seq(Events)
  BY ConcatProperties
<1>2. Append(a \o events, x) = (a \o events) \o <<x>>
  BY <1>1, AppendIsConcat
<1>3. Append(events, x) = events \o <<x>>
  BY AppendIsConcat
<1>4. <<x>> \in Seq(Events) /\ Append(events, x) \in Seq(Events)
  OBVIOUS
<1>5. PICK last \in Seq(Events) : last = <<x>>
  BY <1>4
<1>6. (a \o events) \o last = a \o (events \o last)
  BY <1>5, Regroup
<1>7. QED BY <1>2, <1>3, <1>4, <1>5, <1>6, Zenon

\* s is r with a told before it.
Joined(a, r, s) ==
  /\ a \in Seq(Events) /\ r.events \in Seq(Events)
  /\ s.trade = r.trade /\ s.events = a \o r.events

\* What was told before the bar does not change how it ends.
LEMMA EndedJoins ==
  ASSUME NEW dir \in {-1, 1}, NEW stop \in -1..2, NEW after \in Marks, NEW fin, NEW signal,
         NEW close \in Int, NEW a \in Seq(Events), NEW events \in Seq(Events)
  PROVE  Joined(a, Ended(dir, stop, after, events, fin, signal, close),
                   Ended(dir, stop, after, a \o events, fin, signal, close))
<1>1. PICK u : u = TradeAt(dir, stop, after)
  OBVIOUS
<1>2. u.dir = dir /\ u.left \in Nat
  BY <1>1, TradeMade, LeftOver
<1>3. PICK all \in Seq(Events) : all = a \o events
  <2>1. a \o events \in Seq(Events)
    BY ConcatProperties
  <2>2. QED BY <2>1
<1>4. ASSUME NEW gain \in Int, NEW reason \in Reasons
      PROVE  Joined(a, Finished(u, events, gain, reason), Finished(u, all, gain, reason))
  <2>1. PICK x : x = ExitOf(u, gain, reason)
    OBVIOUS
  <2>2. x \in Events
    BY <1>2, <2>1 DEF ExitOf, ExitEvents, Events
  <2>3. Append(all, x) = a \o Append(events, x) /\ Append(events, x) \in Seq(Events)
    BY <1>3, <2>2, AppendJoins
  <2>4. PICK short, long : short = Append(events, x) /\ long = Append(all, x)
    OBVIOUS
  <2>5. /\ Finished(u, events, gain, reason) = Result(NoTrade, short)
        /\ Finished(u, all, gain, reason) = Result(NoTrade, long)
    BY <2>1, <2>4, Zenon DEF Finished
  <2>6. short \in Seq(Events) /\ long = a \o short
    BY <2>3, <2>4, Zenon
  <2>7. Joined(a, Result(NoTrade, short), Result(NoTrade, long))
    BY <2>6 DEF Joined, Result
  <2>8. QED BY <2>5, <2>7, Zenon
<1>5. ASSUME NEW v PROVE Joined(a, Result(v, events), Result(v, all))
  BY <1>3 DEF Joined, Result
<1>6. PICK price \in Int : price = dir * close
  <2>1. dir * close \in Int
    OBVIOUS
  <2>2. QED BY <2>1
<1>7. 3 \in Int /\ "TP3" \in Reasons /\ "Reversal" \in Reasons
  BY DEF Reasons
<1>8. QED BY <1>1, <1>3, <1>4, <1>5, <1>6, <1>7, Zenon DEF Ended

\* Nor does it change the entry.
LEMMA EnteredJoins ==
  ASSUME NEW a, NEW r, NEW s, Joined(a, r, s), NEW signal \in {-1, 0, 1}
  PROVE  Entered(s, signal) = Result(Entered(r, signal).trade, a \o Entered(r, signal).events)
<1>1. PICK t : t = r.trade
  OBVIOUS
<1>6. PICK events \in Seq(Events) : events = r.events
  BY DEF Joined
<1>2. a \in Seq(Events) /\ s.trade = t /\ s.events = a \o events
  BY <1>1, <1>6, Zenon DEF Joined
<1>3. CASE signal # 0 /\ t = NoTrade
  <2>1. PICK x \in Events : x = EntryOf(signal)
    BY <1>3, EntryTold
  <2>2. Append(a \o events, x) = a \o Append(events, x)
    BY <1>2, AppendJoins
  <2>3. PICK e, longer : e = [trade |-> Opened(signal)] /\ longer = Append(events, x)
    OBVIOUS
  <2>4. /\ Entered(r, signal) = Result(e, longer)
        /\ Entered(s, signal) = Result(e, a \o longer)
    BY <1>1, <1>6, <1>2, <1>3, <2>1, <2>2, <2>3, Zenon DEF Entered
  <2>5. Result(e, longer).trade = e /\ Result(e, longer).events = longer
    BY DEF Result
  <2>6. QED BY <2>4, <2>5, Zenon
<1>4. CASE ~(signal # 0 /\ t = NoTrade)
  <2>1. PICK e : e = [trade |-> t]
    OBVIOUS
  <2>2. /\ Entered(r, signal) = Result(e, events)
        /\ Entered(s, signal) = Result(e, a \o events)
    BY <1>1, <1>6, <1>2, <1>4, <2>1, Zenon DEF Entered
  <2>3. Result(e, events).trade = e /\ Result(e, events).events = events
    BY DEF Result
  <2>4. QED BY <2>2, <2>3, Zenon
<1>5. QED BY <1>3, <1>4

\* A bar after a target was marked on a tick.
TickThenBar(e, b, level, input) ==
  LET tick == WvadMarked(e, level)
      then == WvadOnBar(tick.trade, b, input, TRUE)
  IN Result(then.trade, tick.events \o then.events)

\* A target that the bar of such an engine reaches, marked on a tick before it.
TickFits(e, b, dir, stop, hits, input, signal, level) ==
  /\ Unstopped(e, b, dir, stop, hits) /\ signal = WvadSignal(input, TRUE)
  /\ signal \in {-1, 0, 1} /\ level \in Touched(TradeAt(dir, stop, hits), b)

\* The third target closes the trade on the tick as it would have on the bar.
LEMMA LastTick ==
  ASSUME NEW e, NEW b, NEW dir, NEW stop, NEW hits, NEW input, NEW signal,
         TickFits(e, b, dir, stop, hits, input, signal, 3)
  PROVE  WvadOnBar(e, b, input, TRUE) = TickThenBar(e, b, 3, input)
<1>0. /\ Unstopped(e, b, dir, stop, hits) /\ signal = WvadSignal(input, TRUE)
      /\ signal \in {-1, 0, 1} /\ 3 \in Touched(TradeAt(dir, stop, hits), b)
  BY Zenon DEF TickFits
<1>1. /\ dir \in {-1, 1} /\ stop \in -1..2 /\ hits \in Marks /\ b \in Bars
      /\ e = [trade |-> TradeAt(dir, stop, hits)]
  BY <1>0, Zenon DEF Unstopped
<1> USE <1>0, <1>1
<1>2. PICK t : t = TradeAt(dir, stop, hits)
  OBVIOUS
<1>3. e.trade = t /\ t.dir = dir /\ t.hits = hits /\ e = [trade |-> t] /\ t # NoTrade
  BY <1>2, TradeMade
<1>4. PICK touched : touched = Touched(t, b)
  OBVIOUS
<1>5. touched = 1..3 \ hits /\ hits \cup touched = 1..3 /\ 3 \in touched
  <2>1. PICK best \in Int : best = Best(t, b)
    BY <1>3, BarType DEF Best, Gain
  <2>2. touched = {k \in Levels \ hits : best >= k}
    BY <1>3, <1>4, <2>1, Zenon DEF Touched
  <2>3. best >= 3 /\ 3 \in touched
    BY <1>2, <1>4, <2>2
  <2>4. touched = Levels \ hits
    BY <2>2, <2>3 DEF Levels
  <2>5. QED BY <2>3, <2>4 DEF Levels, Marks
<1>6. PICK a \in Seq(Events) : a = Parts(dir, touched)
  BY PartsType
<1>7. PICK u : u = TradeAt(dir, stop, 1..3)
  OBVIOUS
<1>8. 1..3 \in Marks /\ 1..3 \in SUBSET Levels /\ hits \cup 1..3 = 1..3
  BY <1>5 DEF Marks, Levels
<1>9. u.dir = dir /\ u.left \in Nat
  BY <1>7, <1>8, TradeMade, LeftOver
<1>10. PICK x \in Events : x = ExitOf(u, 3, "TP3")
  <2>1. ExitOf(u, 3, "TP3") \in ExitEvents
    BY <1>9 DEF ExitOf, ExitEvents, Reasons
  <2>2. QED BY <2>1 DEF Events
<1>11. PICK told1 \in Seq(Events) : told1 = Append(a, x)
  BY <1>6, <1>10, AppendJoins
\* On the bar.
<1>12. WvadOnBar(e, b, input, TRUE) = Entered(Result(NoTrade, told1), signal)
  <2>1. WvadOnBar(e, b, input, TRUE)
          = Entered(Ended(dir, stop, hits \cup touched, Parts(dir, touched), 3 \in touched,
                          signal, b.close), signal)
    <3>1. BarReaches(e, b, dir, stop, hits, touched, input, signal)
      BY <1>2, <1>4, Zenon DEF BarReaches
    <3>2. Outcome(e, b, dir, stop, hits, touched, input, signal)
      BY <3>1, OutcomeIs
    <3>3. QED BY <3>2, Zenon DEF Outcome
  <2>2. Ended(dir, stop, 1..3, a, TRUE, signal, b.close) = Finished(u, a, 3, "TP3")
    BY <1>7, Zenon DEF Ended
  <2>3. Finished(u, a, 3, "TP3") = Result(NoTrade, told1)
    BY <1>10, <1>11, Zenon DEF Finished
  <2>4. (3 \in touched) = TRUE
    BY <1>5
  <2>5. QED BY <1>5, <1>6, <2>1, <2>2, <2>3, <2>4, Zenon
\* On the tick.
<1>13. HitAll(t, 1..3) = Result(u, a)
  BY <1>2, <1>5, <1>6, <1>7, <1>8, HitAllIs
<1>14. PICK h : h = HitAll(t, 1..3)
  OBVIOUS
<1>15. h.trade = u /\ h.events = a
  BY <1>13, <1>14 DEF Result
<1>16. PICK s : s = Result(NoTrade, told1)
  OBVIOUS
<1>17. Finished(h.trade, h.events, 3, "TP3") = s
  BY <1>10, <1>11, <1>15, <1>16, Zenon DEF Finished
<1>18. PICK flat : flat = [trade |-> NoTrade]
  OBVIOUS
<1>19. s.trade = NoTrade /\ s.events = told1 /\ [e EXCEPT !.trade = NoTrade] = flat
  BY <1>3, <1>16, <1>18 DEF Result
<1>20. WvadMarked(e, 3) = Result(flat, told1)
  BY <1>3, <1>14, <1>17, <1>19, Zenon DEF WvadMarked
<1>21. Result(flat, told1).trade = flat /\ Result(flat, told1).events = told1
  BY DEF Result
<1>22. PICK none \in Seq(Events) : none = <<>>
  BY Nothing
<1>23. PICK idle : idle = Result(NoTrade, none)
  OBVIOUS
<1>24. WvadOnBar(flat, b, input, TRUE) = Entered(idle, signal)
  <2>1. flat.trade = NoTrade /\ \A y : [flat EXCEPT !.trade = y] = [trade |-> y]
    BY <1>18
  <2>2. QED BY <1>22, <1>23, <2>1, Zenon DEF WvadOnBar, Entered
<1>25. Joined(told1, idle, s)
  <2>1. told1 \o none = told1
    BY <1>22, ConcatEmptySeq, Zenon
  <2>2. idle.trade = NoTrade /\ idle.events = none
    BY <1>23 DEF Result
  <2>3. QED BY <1>19, <2>1, <2>2, Zenon DEF Joined
<1>26. Entered(s, signal) = Result(Entered(idle, signal).trade, told1 \o Entered(idle, signal).events)
  BY <1>25, EnteredJoins
<1>27. QED BY <1>12, <1>16, <1>20, <1>21, <1>24, <1>26, Zenon DEF TickThenBar

\* A lower target changes nothing that the bar would not have done.
LEMMA EarlierTick ==
  ASSUME NEW e, NEW b, NEW dir, NEW stop, NEW hits, NEW input, NEW signal,
         NEW level \in {1, 2}, TickFits(e, b, dir, stop, hits, input, signal, level)
  PROVE  WvadOnBar(e, b, input, TRUE) = TickThenBar(e, b, level, input)
<1>0. /\ Unstopped(e, b, dir, stop, hits) /\ signal = WvadSignal(input, TRUE)
      /\ signal \in {-1, 0, 1} /\ level \in Touched(TradeAt(dir, stop, hits), b)
  BY Zenon DEF TickFits
<1>1. /\ dir \in {-1, 1} /\ stop \in -1..2 /\ hits \in Marks /\ b \in Bars
      /\ e = [trade |-> TradeAt(dir, stop, hits)] /\ ~Stopped(TradeAt(dir, stop, hits), b)
  BY <1>0, Zenon DEF Unstopped
<1> USE <1>0, <1>1
<1>2. PICK t : t = TradeAt(dir, stop, hits)
  OBVIOUS
<1>3. e.trade = t /\ t.dir = dir /\ t.hits = hits /\ t.stop = stop /\ e = [trade |-> t]
  BY <1>2, TradeMade
<1>4. PICK best \in Int : best = Best(t, b)
  BY <1>3, BarType DEF Best, Gain
<1>5. PICK touched : touched = Touched(t, b)
  OBVIOUS
<1>6. touched = {k \in Levels \ hits : best >= k} /\ level \in touched
  BY <1>2, <1>3, <1>4, <1>5, Zenon DEF Touched
\* The targets of the tick and those of the bar after it.
<1>7. PICK first, rest, mid : /\ first = 1..level \ hits /\ rest = touched \ 1..level
                              /\ mid = hits \cup 1..level
  OBVIOUS
<1>8. /\ touched = first \cup rest /\ first \subseteq 1..level /\ rest \cap 1..level = {}
      /\ mid \cup rest = hits \cup touched /\ rest = {k \in Levels \ mid : best >= k}
      /\ (3 \in rest) = (3 \in touched)
  BY <1>6, <1>7 DEF Levels
<1>9. mid \in Marks /\ 1..level \in SUBSET Levels /\ (hits \cup touched) \in Marks
  <2>1. mid \in Marks /\ 1..level \in SUBSET Levels
    BY <1>7 DEF Marks, Levels
  <2>2. (hits \cup touched) \in Marks
    BY <1>2, <1>5, TouchedIs
  <2>3. QED BY <2>1, <2>2
<1>10. PICK after \in Marks : after = hits \cup touched
  BY <1>9
<1>11. PICK a \in Seq(Events), c \in Seq(Events) : a = Parts(dir, first) /\ c = Parts(dir, rest)
  BY PartsType
<1>12. Parts(dir, touched) = a \o c
  <2>1. Below(level, first, rest)
    BY <1>8, Zenon DEF Below
  <2>2. Split(dir, first, rest)
    BY <2>1, PartsSplit
  <2>3. QED BY <1>8, <1>11, <2>2, Zenon DEF Split
\* The tick.
<1>13. PICK u : u = TradeAt(dir, stop, mid)
  OBVIOUS
<1>14. u.dir = dir /\ u.hits = mid /\ u.stop = stop
  BY <1>9, <1>13, TradeMade
<1>15. HitAll(t, 1..level) = Result(u, a)
  <2>1. PICK upTo \in SUBSET Levels : upTo = 1..level
    BY <1>9
  <2>2. hits \cup upTo \in Marks
    BY <1>7, <1>9, <2>1
  <2>3. HitAll(TradeAt(dir, stop, hits), upTo)
          = Result(TradeAt(dir, stop, hits \cup upTo), Parts(dir, upTo \ hits))
    BY <2>2, HitAllIs
  <2>4. QED BY <1>2, <1>7, <1>11, <1>13, <2>1, <2>3, Zenon
<1>16. PICK h : h = HitAll(t, 1..level)
  OBVIOUS
<1>17. h.trade = u /\ h.events = a /\ level # 3
  BY <1>15, <1>16 DEF Result
<1>18. PICK on : on = [trade |-> u]
  OBVIOUS
<1>19. \A y : [e EXCEPT !.trade = y] = [trade |-> y]
  BY <1>3
<1>20. WvadMarked(e, level) = Result(on, a)
  BY <1>3, <1>16, <1>17, <1>18, <1>19, Zenon DEF WvadMarked
<1>21. Result(on, a).trade = on /\ Result(on, a).events = a
  BY DEF Result
\* The bar after the tick.
<1>22. ~Stopped(u, b)
  BY <1>2, <1>3, <1>14, Zenon DEF Stopped, Worst, Gain
<1>23. Unstopped(on, b, dir, stop, mid)
  BY <1>9, <1>13, <1>18, <1>22, Zenon DEF Unstopped
<1>24. Touched(u, b) = rest
  <2>1. Best(u, b) = best
    BY <1>3, <1>4, <1>14, Zenon DEF Best, Gain
  <2>2. QED BY <1>8, <1>14, <2>1, Zenon DEF Touched
<1>25. PICK fin : fin = (3 \in touched)
  OBVIOUS
<1>26. PICK r : r = Ended(dir, stop, after, c, fin, signal, b.close)
  OBVIOUS
<1>27. WvadOnBar(on, b, input, TRUE) = Entered(r, signal)
  <2>1. WvadOnBar(on, b, input, TRUE)
          = Entered(Ended(dir, stop, mid \cup rest, Parts(dir, rest), 3 \in rest, signal, b.close), signal)
    <3>1. BarReaches(on, b, dir, stop, mid, rest, input, signal)
      BY <1>13, <1>23, <1>24, Zenon DEF BarReaches
    <3>2. Outcome(on, b, dir, stop, mid, rest, input, signal)
      BY <3>1, OutcomeIs
    <3>3. QED BY <3>2, Zenon DEF Outcome
  <2>2. QED BY <1>8, <1>10, <1>11, <1>25, <1>26, <2>1, Zenon
\* The bar alone.
<1>28. PICK s : s = Ended(dir, stop, after, a \o c, fin, signal, b.close)
  OBVIOUS
<1>29. WvadOnBar(e, b, input, TRUE) = Entered(s, signal)
  <2>1. WvadOnBar(e, b, input, TRUE)
          = Entered(Ended(dir, stop, hits \cup touched, Parts(dir, touched), 3 \in touched,
                          signal, b.close), signal)
    <3>1. BarReaches(e, b, dir, stop, hits, touched, input, signal)
      BY <1>2, <1>5, Zenon DEF BarReaches
    <3>2. Outcome(e, b, dir, stop, hits, touched, input, signal)
      BY <3>1, OutcomeIs
    <3>3. QED BY <3>2, Zenon DEF Outcome
  <2>2. QED BY <1>10, <1>12, <1>25, <1>28, <2>1, Zenon
<1>30. Joined(a, r, s)
  <2>1. PICK close \in Int : close = b.close
    BY BarType
  <2>2. QED BY <1>26, <1>28, <2>1, EndedJoins
<1>31. Entered(s, signal) = Result(Entered(r, signal).trade, a \o Entered(r, signal).events)
  BY <1>30, EnteredJoins
<1>32. QED BY <1>20, <1>21, <1>27, <1>29, <1>31, Zenon DEF TickThenBar

\* A target that is marked on a tick changes nothing that the bar would not have done.
THEOREM TicksAgreeWithBarsHolds == Spec => []TicksAgreeWithBars
<1>1. Invariant => TicksAgreeWithBars
  <2>1. SUFFICES ASSUME Invariant, kind = "wvad", engine.trade # NoTrade,
                        NEW b \in Bars, ~Stopped(engine.trade, b),
                        NEW level \in Touched(engine.trade, b), NEW cross \in {-1, 0, 1},
                        NEW input, input = [cross |-> cross, ready |-> TRUE, fits |-> TRUE]
                 PROVE  WvadOnBar(engine, b, input, TRUE) = TickThenBar(engine, b, level, input)
    BY Zenon DEF TicksAgreeWithBars, TickThenBar, Open
  <2>2. engine \in WvadEngines /\ Sound(engine.trade)
    BY <2>1 DEF Invariant, IInv, Engine
  <2>3. PICK dir \in {-1, 1}, stop \in -1..2, hits \in Marks : engine.trade = TradeAt(dir, stop, hits)
    BY <2>2, TradeIs DEF Sound
  <2>4. PICK e : e = engine
    OBVIOUS
  <2>5. e = [trade |-> TradeAt(dir, stop, hits)]
    <3>1. \E y : e = [trade |-> y]
      BY <2>2, <2>4, Zenon DEF WvadEngines
    <3>2. QED BY <2>3, <2>4, <3>1
  <2>6. Unstopped(e, b, dir, stop, hits)
    BY <2>1, <2>3, <2>5, Zenon DEF Unstopped
  <2>7. WvadSignal(input, TRUE) = cross
    BY <2>1 DEF WvadSignal
  <2>8. level \in Touched(TradeAt(dir, stop, hits), b) /\ level \in {1, 2, 3}
    BY <2>1, <2>3 DEF Touched, Levels
  <2>12. TickFits(e, b, dir, stop, hits, input, cross, level)
    BY <2>6, <2>7, <2>8, Zenon DEF TickFits
  <2>9. CASE level = 3
    <3>1. WvadOnBar(e, b, input, TRUE) = TickThenBar(e, b, 3, input)
      BY <2>9, <2>12, LastTick
    <3>2. QED BY <2>4, <2>9, <3>1, Zenon
  <2>10. CASE level \in {1, 2}
    <3>1. WvadOnBar(e, b, input, TRUE) = TickThenBar(e, b, level, input)
      BY <2>10, <2>12, EarlierTick
    <3>2. QED BY <2>4, <3>1, Zenon
  <2>11. QED BY <2>8, <2>9, <2>10
<1>2. QED BY <1>1, Invariance, PTL

-----------------------------------------------------------------------------
(* The executed position of SATS' replay *)

\* A history of the executed position over n events.
Executions(h, p, events, n) ==
  h = [i \in 0..n |-> IF i = 0 THEN p ELSE AfterEvent(h[i - 1], events[i])]

\* A history of the executed position starts at p and follows every event in turn.
LEMMA ExecutionsStep ==
  ASSUME NEW p, NEW events, NEW n \in Nat, NEW h
  PROVE  Executions(h, p, events, n) <=>
           /\ Reaches(h, n) /\ h[0] = p
           /\ \A i \in 1..n : h[i] = AfterEvent(h[i - 1], events[i])
<1>1. ASSUME \A i \in 0..n : h[i] = IF i = 0 THEN p ELSE AfterEvent(h[i - 1], events[i])
      PROVE  [i \in 0..n |-> h[i]]
               = [i \in 0..n |-> IF i = 0 THEN p ELSE AfterEvent(h[i - 1], events[i])]
  BY <1>1, Zenon
<1>2. (\A i \in 0..n : h[i] = IF i = 0 THEN p ELSE AfterEvent(h[i - 1], events[i]))
        <=> (h[0] = p /\ \A i \in 1..n : h[i] = AfterEvent(h[i - 1], events[i]))
  <2>1. 0 \in 0..n /\ (\A i \in 1..n : i \in 0..n /\ i # 0) /\ \A i \in 0..n : i # 0 => i \in 1..n
    OBVIOUS
  <2>2. QED BY <2>1, Zenon
<1>3. ASSUME Executions(h, p, events, n)
      PROVE  \A i \in 0..n : h[i] = IF i = 0 THEN p ELSE AfterEvent(h[i - 1], events[i])
  BY <1>3, Zenon DEF Executions
<1>4. QED BY <1>1, <1>2, <1>3, Zenon DEF Executions, Reaches

\* Every number of events has one.
LEMMA ExecutionsExist ==
  ASSUME NEW p, NEW events, NEW n \in Nat
  PROVE  \E h : Executions(h, p, events, n)
<1> DEFINE S == {k \in Nat : \E h : Executions(h, p, events, k)}
<1>1. 0 \in S
  <2>1. \E f : f = [i \in 0..0 |-> p]
    OBVIOUS
  <2>2. PICK f : f = [i \in 0..0 |-> p]
    BY <2>1
  <2>3. PICK h : Reaches(h, 0) /\ \A i \in 0..0 : h[i] = f[i]
    BY CutHistory
  <2>4. h[0] = p
    <3>1. 0 \in 0..0
      OBVIOUS
    <3>2. QED BY <2>2, <2>3, <3>1
  <2>5. \A i \in 1..0 : h[i] = AfterEvent(h[i - 1], events[i])
    OBVIOUS
  <2>6. 0 \in Nat
    OBVIOUS
  <2>7. Executions(h, p, events, 0)
    BY ONLY <2>3, <2>4, <2>5, <2>6, ExecutionsStep
  <2>8. QED BY <2>7
<1>2. ASSUME NEW k \in Nat, k \in S PROVE k + 1 \in S
  <2>1. PICK h : Executions(h, p, events, k)
    BY <1>2
  <2>2. PICK x : x = AfterEvent(h[k], events[k + 1])
    OBVIOUS
  <2>3. PICK g : Reaches(g, k + 1) /\ g[k + 1] = x /\ \A i \in 0..k : g[i] = h[i]
    <3>1. \E g : Longer(g, h, k, x)
      BY LongerHistory
    <3>2. QED BY <3>1, Zenon DEF Longer
  <2>4. h[0] = p /\ \A i \in 1..k : h[i] = AfterEvent(h[i - 1], events[i])
    BY ONLY k \in Nat, <2>1, ExecutionsStep
  <2>5. g[0] = p
    <3>1. 0 \in 0..k
      OBVIOUS
    <3>2. QED BY ONLY <2>3, <2>4, <3>1, Zenon
  <2>6. ASSUME NEW i \in 1..(k + 1) PROVE g[i] = AfterEvent(g[i - 1], events[i])
    <3>1. i - 1 \in 0..k
      OBVIOUS
    <3>2. CASE i = k + 1
      <4>1. i - 1 = k
        BY <3>2
      <4>2. QED BY ONLY <2>2, <2>3, <3>1, <3>2, <4>1, Zenon
    <3>3. CASE i # k + 1
      <4>1. i \in 1..k /\ i \in 0..k
        BY <3>3
      <4>2. QED BY ONLY <2>3, <2>4, <3>1, <4>1, Zenon
    <3>4. QED BY <3>2, <3>3
  <2>7. k + 1 \in Nat
    OBVIOUS
  <2>8. Executions(g, p, events, k + 1)
    BY ONLY <2>3, <2>5, <2>6, <2>7, ExecutionsStep
  <2>9. QED BY <2>7, <2>8
<1>3. Nat \subseteq S
  <2> HIDE DEF S
  <2>1. QED BY <1>1, <1>2, Grows
<1>4. QED BY <1>3

\* The recursive function is the last of any such history.
LEMMA ExecutionsEnd ==
  ASSUME NEW p, NEW events, Len(events) \in Nat, NEW h, Executions(h, p, events, Len(events))
  PROVE  AfterEvents(p, events) = h[Len(events)]
<1> DEFINE f == CHOOSE g : Executions(g, p, events, Len(events))
<1>1. Executions(f, p, events, Len(events))
  BY Zenon
<1>2. AfterEvents(p, events) = f[Len(events)]
  BY DEF AfterEvents, Executions
<1> HIDE DEF f
<1>3. f = h
  <2>1. PICK n \in Nat : n = Len(events)
    OBVIOUS
  <2>2. Executions(f, p, events, n) /\ Executions(h, p, events, n)
    BY <1>1, <2>1, Zenon
  <2>3. /\ Reaches(f, n) /\ f[0] = p
        /\ \A i \in 1..n : f[i] = AfterEvent(f[i - 1], events[i])
    BY ONLY n \in Nat, <2>2, ExecutionsStep
  <2>4. /\ Reaches(h, n) /\ h[0] = p
        /\ \A i \in 1..n : h[i] = AfterEvent(h[i - 1], events[i])
    BY ONLY n \in Nat, <2>2, ExecutionsStep
  <2>5. \A i \in 1..n : f[i - 1] = h[i - 1] => f[i] = h[i]
    BY <2>3, <2>4, Zenon
  <2>6. f[0] = h[0]
    BY <2>3, <2>4, Zenon
  <2>7. QED BY ONLY n \in Nat, <2>3, <2>4, <2>5, <2>6, OneHistory
<1>4. QED BY <1>2, <1>3, Zenon

\* No event, and one event more.
LEMMA ExecutionsGrow ==
  ASSUME NEW p, NEW E, NEW events \in Seq(E), NEW e \in E
  PROVE  /\ AfterEvents(p, <<>>) = p
         /\ AfterEvents(p, Append(events, e)) = AfterEvent(AfterEvents(p, events), e)
<1>1. AfterEvents(p, <<>>) = p
  <2>1. PICK none : none = <<>>
    OBVIOUS
  <2>2. PICK m \in Nat : m = Len(none) /\ m = 0
    BY <2>1
  <2>3. PICK h : Executions(h, p, none, m)
    BY ExecutionsExist
  <2>4. AfterEvents(p, none) = h[m]
    BY ONLY <2>2, <2>3, ExecutionsEnd
  <2>5. h[0] = p
    BY ONLY m \in Nat, <2>3, ExecutionsStep
  <2>6. QED BY <2>1, <2>2, <2>4, <2>5
<1>2. PICK n \in Nat : n = Len(events)
  OBVIOUS
<1>3. PICK more : more = Append(events, e)
  OBVIOUS
<1>4. Len(more) = n + 1 /\ more[n + 1] = e /\ \A i \in 1..n : more[i] = events[i]
  BY <1>2, <1>3
<1>5. n + 1 \in Nat
  OBVIOUS
<1>6. PICK m \in Nat : m = n + 1
  BY <1>5
<1>7. PICK h : Executions(h, p, more, m)
  BY ExecutionsExist
<1>8. h[0] = p /\ \A i \in 1..(n + 1) : h[i] = AfterEvent(h[i - 1], more[i])
  <2>1. h[0] = p /\ \A i \in 1..m : h[i] = AfterEvent(h[i - 1], more[i])
    BY ONLY m \in Nat, <1>7, ExecutionsStep
  <2>2. QED BY <1>6, <2>1
<1>9. PICK g : Reaches(g, n) /\ \A i \in 0..n : g[i] = h[i]
  BY CutHistory
<1>10. ASSUME NEW i \in 1..n PROVE g[i] = AfterEvent(g[i - 1], events[i])
  <2>1. i \in 0..n /\ i - 1 \in 0..n /\ i \in 1..(n + 1)
    OBVIOUS
  <2>2. QED BY ONLY <1>4, <1>8, <1>9, <1>10, <2>1, Zenon
<1>11. 0 \in 0..n /\ n \in 0..n /\ n + 1 \in 1..(n + 1) /\ (n + 1) - 1 = n
  OBVIOUS
<1>12. g[0] = p /\ g[n] = h[n]
  BY ONLY <1>8, <1>9, <1>11, Zenon
<1>13. Executions(g, p, events, n)
  BY ONLY n \in Nat, <1>9, <1>10, <1>12, ExecutionsStep
<1>14. AfterEvents(p, events) = g[n]
  BY <1>2, <1>13, ExecutionsEnd, Zenon
<1>15. AfterEvents(p, more) = h[n + 1]
  BY ONLY <1>4, <1>6, <1>7, ExecutionsEnd
<1>16. h[n + 1] = AfterEvent(h[n], e)
  BY ONLY <1>4, <1>8, <1>11, Zenon
<1>17. AfterEvents(p, more) = AfterEvent(AfterEvents(p, events), e)
  BY <1>12, <1>14, <1>15, <1>16, Zenon
<1>18. QED BY <1>1, <1>3, <1>17, Zenon

-----------------------------------------------------------------------------
(* The position that SATS' replay executes *)

\* Every such position is a record of these fields.
BookAt(mode, dir, left, ended, fresh, at, stop, active) ==
  [mode |-> mode, dir |-> dir, left |-> left, ended |-> ended,
   fresh |-> fresh, at |-> at, stop |-> stop, active |-> active]

\* Its fields, and what a change of one of them makes of it.
BookIs(p, mode, dir, left, ended, fresh, at, stop, active) ==
  /\ p = BookAt(mode, dir, left, ended, fresh, at, stop, active)
  /\ p.mode = mode /\ p.dir = dir /\ p.left = left /\ p.ended = ended
  /\ p.fresh = fresh /\ p.at = at /\ p.stop = stop /\ p.active = active
  /\ \A x : /\ [p EXCEPT !.dir = x] = BookAt(mode, x, left, ended, fresh, at, stop, active)
            /\ [p EXCEPT !.fresh = x] = BookAt(mode, dir, left, ended, x, at, stop, active)
            /\ [p EXCEPT !.at = x] = BookAt(mode, dir, left, ended, fresh, x, stop, active)
            /\ [p EXCEPT !.left = x] = BookAt(mode, dir, x, ended, fresh, at, stop, active)
            /\ [p EXCEPT !.ended = x] = BookAt(mode, dir, left, x, fresh, at, stop, active)
            /\ [p EXCEPT !.stop = x] = BookAt(mode, dir, left, ended, fresh, at, x, active)
            /\ [p EXCEPT !.active = x] = BookAt(mode, dir, left, ended, fresh, at, stop, x)

\* The fields of a position that is put together.
LEMMA BookMade ==
  ASSUME NEW p, NEW mode, NEW dir, NEW left, NEW ended, NEW fresh, NEW at, NEW stop, NEW active,
         p = BookAt(mode, dir, left, ended, fresh, at, stop, active)
  PROVE  BookIs(p, mode, dir, left, ended, fresh, at, stop, active)
<1>1. /\ p.mode = mode /\ p.dir = dir /\ p.left = left /\ p.ended = ended
      /\ p.fresh = fresh /\ p.at = at /\ p.stop = stop /\ p.active = active
  BY DEF BookAt
<1>2. ASSUME NEW x
      PROVE  /\ [p EXCEPT !.dir = x] = BookAt(mode, x, left, ended, fresh, at, stop, active)
             /\ [p EXCEPT !.fresh = x] = BookAt(mode, dir, left, ended, x, at, stop, active)
             /\ [p EXCEPT !.at = x] = BookAt(mode, dir, left, ended, fresh, x, stop, active)
             /\ [p EXCEPT !.left = x] = BookAt(mode, dir, x, ended, fresh, at, stop, active)
             /\ [p EXCEPT !.ended = x] = BookAt(mode, dir, left, x, fresh, at, stop, active)
             /\ [p EXCEPT !.stop = x] = BookAt(mode, dir, left, ended, fresh, at, x, active)
             /\ [p EXCEPT !.active = x] = BookAt(mode, dir, left, ended, fresh, at, stop, x)
  BY DEF BookAt
<1>3. QED BY <1>1, <1>2, Zenon DEF BookIs

\* No position, and one that was just entered.
LEMMA BookBegins ==
  ASSUME NEW mode, NEW dir
  PROVE  /\ NoPosition(mode) = BookAt(mode, 0, 0, FALSE, FALSE, 0, -1, FALSE)
         /\ Positioned(mode, dir) = BookAt(mode, dir, Thirds, FALSE, mode.exits = "trail", 0, -1, FALSE)
<1>1. NoPosition(mode) = BookAt(mode, 0, 0, FALSE, FALSE, 0, -1, FALSE)
  BY Zenon DEF NoPosition, BookAt
<1>2. PICK no, zero, initial : no = FALSE /\ zero = 0 /\ initial = -1
  OBVIOUS
<1>3. PICK p : p = BookAt(mode, zero, zero, no, no, zero, initial, no)
  OBVIOUS
<1>4. BookIs(p, mode, zero, zero, no, no, zero, initial, no)
  BY <1>3, BookMade
<1>5. PICK first : first = [p EXCEPT !.dir = dir]
  OBVIOUS
<1>6. BookIs(first, mode, dir, zero, no, no, zero, initial, no)
  <2>1. first = BookAt(mode, dir, zero, no, no, zero, initial, no)
    BY <1>4, <1>5, Zenon DEF BookIs
  <2>2. QED BY <2>1, BookMade
<1>7. PICK second : second = [first EXCEPT !.left = Thirds]
  OBVIOUS
<1>8. BookIs(second, mode, dir, Thirds, no, no, zero, initial, no)
  <2>1. second = BookAt(mode, dir, Thirds, no, no, zero, initial, no)
    BY <1>6, <1>7, Zenon DEF BookIs
  <2>2. QED BY <2>1, BookMade
<1>9. [second EXCEPT !.fresh = mode.exits = "trail"]
        = BookAt(mode, dir, Thirds, no, mode.exits = "trail", zero, initial, no)
  BY <1>8, Zenon DEF BookIs
<1>10. Positioned(mode, dir) = [second EXCEPT !.fresh = mode.exits = "trail"]
  <2>1. Positioned(mode, dir) = [p EXCEPT !.dir = dir, !.left = Thirds, !.fresh = mode.exits = "trail"]
    BY <1>1, <1>2, <1>3, Zenon DEF Positioned
  <2>2. \A x : [p EXCEPT !.dir = dir, !.left = Thirds, !.fresh = x] = [second EXCEPT !.fresh = x]
    BY <1>5, <1>7, Zenon
  <2>3. QED BY <2>1, <2>2, Zenon
<1>11. QED BY <1>1, <1>2, <1>9, <1>10, Zenon

\* Closing some of the lots.
Rest(left, n, rest) == left - n = rest

\* What is left, and the end of a position whose trade has ended.
LEMMA ClosesIs ==
  ASSUME NEW p, NEW mode, NEW dir, NEW left, NEW ended, NEW fresh, NEW at, NEW stop, NEW active,
         NEW n, NEW rest,
         BookIs(p, mode, dir, left, ended, fresh, at, stop, active), Rest(left, n, rest)
  PROVE  Closes(p, n) = IF rest = 0 /\ ended THEN NoPosition(mode)
                        ELSE BookAt(mode, dir, rest, ended, fresh, at, stop, active)
<1>1. PICK q : q = BookAt(mode, dir, rest, ended, fresh, at, stop, active)
  OBVIOUS
<1>2. p.left = left /\ p.mode = mode
  BY Zenon DEF BookIs
<1>3. [p EXCEPT !.left = @ - n] = q
  <2>1. [p EXCEPT !.left = @ - n] = [p EXCEPT !.left = rest]
    BY <1>2, Zenon DEF Rest
  <2>2. [p EXCEPT !.left = rest] = BookAt(mode, dir, rest, ended, fresh, at, stop, active)
    BY Zenon DEF BookIs
  <2>3. QED BY <1>1, <2>1, <2>2, Zenon
<1>4. q.left = rest /\ q.ended = ended
  BY <1>1 DEF BookAt
<1>5. QED BY <1>1, <1>2, <1>3, <1>4, Zenon DEF Closes

\* Closing all of them, or none, while the trade of the model is open.
LEMMA ClosesOpen ==
  ASSUME NEW p, NEW mode, NEW dir, NEW left \in Int, NEW ended, ~ended,
         NEW fresh, NEW at, NEW stop, NEW active,
         BookIs(p, mode, dir, left, ended, fresh, at, stop, active)
  PROVE  /\ Closes(p, left) = BookAt(mode, dir, 0, ended, fresh, at, stop, active)
         /\ Closes(p, 0) = p
<1>0. BookIs(p, mode, dir, left, ended, fresh, at, stop, active)
  OBVIOUS
<1>1. Rest(left, left, 0) /\ Rest(left, 0, left)
  BY DEF Rest
<1>2. /\ Closes(p, left) = IF 0 = 0 /\ ended THEN NoPosition(mode)
                           ELSE BookAt(mode, dir, 0, ended, fresh, at, stop, active)
      /\ Closes(p, 0) = IF left = 0 /\ ended THEN NoPosition(mode)
                        ELSE BookAt(mode, dir, left, ended, fresh, at, stop, active)
  BY ONLY <1>0, <1>1, ClosesIs
<1>3. p = BookAt(mode, dir, left, ended, fresh, at, stop, active)
  BY Zenon DEF BookIs
<1>4. QED BY <1>2, <1>3, Zenon

\* The same once it is closed: the position is gone with its last lot.
LEMMA ClosesEnded ==
  ASSUME NEW p, NEW mode, NEW dir, NEW left \in Int, NEW ended, ended,
         NEW fresh, NEW at, NEW stop, NEW active,
         BookIs(p, mode, dir, left, ended, fresh, at, stop, active)
  PROVE  /\ Closes(p, left) = NoPosition(mode)
         /\ Closes(p, 0) = IF left = 0 THEN NoPosition(mode) ELSE p
<1>0. BookIs(p, mode, dir, left, ended, fresh, at, stop, active)
  OBVIOUS
<1>1. Rest(left, left, 0) /\ Rest(left, 0, left)
  BY DEF Rest
<1>2. /\ Closes(p, left) = IF 0 = 0 /\ ended THEN NoPosition(mode)
                           ELSE BookAt(mode, dir, 0, ended, fresh, at, stop, active)
      /\ Closes(p, 0) = IF left = 0 /\ ended THEN NoPosition(mode)
                        ELSE BookAt(mode, dir, left, ended, fresh, at, stop, active)
  BY ONLY <1>0, <1>1, ClosesIs
<1>3. p = BookAt(mode, dir, left, ended, fresh, at, stop, active)
  BY Zenon DEF BookIs
<1>4. QED BY <1>2, <1>3, Zenon

\* A mode is one of three, at one target.
LEMMA ModeType ==
  ASSUME NEW mode \in Modes
  PROVE  mode.exits \in {"thirds", "single", "trail"} /\ mode.at \in Levels /\ mode.intrabar \in BOOLEAN
BY SatsReplayAssumption

\* What a bar is worth to a direction, at its worst and at its best.
WorstOf(dir, b) == IF dir = Long THEN dir * b.low ELSE dir * b.high
BestOf(dir, b) == IF dir = Long THEN dir * b.high ELSE dir * b.low

\* The extremes of a bar depend on the direction alone.
LEMMA Extremes ==
  ASSUME NEW dir \in {-1, 1}, NEW b \in Bars, NEW t, t.dir = dir
  PROVE  /\ Worst(t, b) = WorstOf(dir, b) /\ WorstOf(dir, b) \in Int
         /\ Best(t, b) = BestOf(dir, b) /\ BestOf(dir, b) \in Int
<1>1. Worst(t, b) = WorstOf(dir, b) /\ Best(t, b) = BestOf(dir, b)
  BY Zenon DEF Worst, WorstOf, Best, BestOf, Gain
<1>2. WorstOf(dir, b) \in Int /\ BestOf(dir, b) \in Int
  BY BarType DEF WorstOf, BestOf
<1>3. QED BY <1>1, <1>2

\* The entry fills at the bar's open.
Fills(p, b, mode, dir, left, ended, fresh, at, stop, active) ==
  \E filled \in Int :
    /\ Filled(p, b) = BookAt(mode, dir, left, ended, FALSE, filled, stop, active)
    /\ ~fresh => filled = at

\* The entry is filled once.
LEMMA FilledIs ==
  ASSUME NEW p, NEW mode, NEW dir \in {-1, 1}, NEW left, NEW ended, NEW fresh \in BOOLEAN,
         NEW at \in Int, NEW stop, NEW active, NEW b \in Bars,
         BookIs(p, mode, dir, left, ended, fresh, at, stop, active)
  PROVE  Fills(p, b, mode, dir, left, ended, fresh, at, stop, active)
<1>1. p = BookAt(mode, dir, left, ended, fresh, at, stop, active)
  BY Zenon DEF BookIs
<1>2. p.fresh = fresh /\ p.dir = dir
  BY Zenon DEF BookIs
<1>3. CASE fresh
  <2>1. PICK filled \in Int : filled = Gain(p, b.open)
    BY <1>2, BarType DEF Gain
  <2>2. PICK first : first = [p EXCEPT !.fresh = FALSE]
    OBVIOUS
  <2>3. first = BookAt(mode, dir, left, ended, FALSE, at, stop, active)
    BY <2>2, Zenon DEF BookIs
  <2>4. BookIs(first, mode, dir, left, ended, FALSE, at, stop, active)
    BY <2>3, BookMade, Zenon
  <2>5. [first EXCEPT !.at = filled] = BookAt(mode, dir, left, ended, FALSE, filled, stop, active)
    BY <2>4, Zenon DEF BookIs
  <2>6. Filled(p, b) = [p EXCEPT !.fresh = FALSE, !.at = filled]
    BY <1>2, <1>3, <2>1, Zenon DEF Filled
  <2>7. Filled(p, b) = [first EXCEPT !.at = filled]
    BY <2>2, <2>6, Zenon
  <2>8. QED BY <1>3, <2>5, <2>7, Zenon DEF Fills
<1>4. CASE ~fresh
  <2>1. Filled(p, b) = p
    BY <1>2, <1>4, Zenon DEF Filled
  <2>2. (fresh) = FALSE
    BY <1>4
  <2>3. QED BY <1>1, <2>1, <2>2, Zenon DEF Fills
<1>5. QED BY <1>3, <1>4

\* A trailing position of an open trade, between bars: it is entered at the next
\* open, has its initial stop, or trails with a stop that loses nothing.
Trails(p, mode, dir, left, fresh, at, stop, active) ==
  /\ p = BookAt(mode, dir, left, FALSE, fresh, at, stop, active)
  /\ left \in {0, 3} /\ fresh \in BOOLEAN /\ active \in BOOLEAN /\ at \in Int /\ stop \in Int
  /\ left = 0 => active
  /\ ~active => stop = -1
  /\ active => ~fresh /\ stop >= at
\* The same within a bar, before the events of the model.
TrailsIn(p, mode, dir, left, at, stop, active, b) ==
  /\ p = BookAt(mode, dir, left, FALSE, FALSE, at, stop, active)
  /\ left \in {0, 3} /\ active \in BOOLEAN /\ at \in Int /\ stop \in Int
  /\ ~active => stop = -1
  /\ active => stop >= at
  /\ left = 0 /\ ~active => WorstOf(dir, b) <= -1
  /\ left = 3 /\ ~active => BestOf(dir, b) < 1

\* The trail on a bar: it only leaves the trade at a stop that is no better than
\* the model's, or once it was activated.
LEMMA TrailedIs ==
  ASSUME NEW mode, NEW dir \in {-1, 1}, NEW at \in Int, NEW stop \in Int, NEW active \in BOOLEAN,
         NEW b \in Bars, NEW p, p = BookAt(mode, dir, 3, FALSE, FALSE, at, stop, active),
         ~active => stop = -1, active => stop >= at
  PROVE  \E left, to, on : TrailsIn(Trailed(p, b), mode, dir, left, at, to, on, b)
<1>0. PICK no : no = FALSE
  OBVIOUS
<1>1. BookIs(p, mode, dir, 3, no, no, at, stop, active)
  BY <1>0, BookMade, Zenon
<1>2. p.dir = dir /\ p.left = 3 /\ p.at = at /\ p.stop = stop /\ p.active = active
  BY <1>1, Zenon DEF BookIs
<1>3. PICK worst \in Int, best \in Int : worst = WorstOf(dir, b) /\ best = BestOf(dir, b)
  BY <1>2, Extremes
<1>4. Worst(p, b) = worst /\ Best(p, b) = best
  BY <1>2, <1>3, Extremes
<1>5. PICK to \in Int, on \in BOOLEAN :
        /\ Activated(p, best) = BookAt(mode, dir, 3, no, no, at, to, on)
        /\ on => to >= at
        /\ ~on => to = -1 /\ best < 1
        /\ active => on /\ to = stop
  <2>1. CASE ~active /\ best >= 1
    <3>1. PICK to \in Int : to = (IF at > stop THEN at ELSE stop)
      OBVIOUS
    <3>2. Tightened(p, p.at) = [p EXCEPT !.stop = to]
      BY <1>2, <3>1, Zenon DEF Tightened
    <3>3. PICK u : u = BookAt(mode, dir, 3, no, no, at, to, active)
      OBVIOUS
    <3>4. Tightened(p, p.at) = u
      BY <1>1, <3>2, <3>3, Zenon DEF BookIs
    <3>5. BookIs(u, mode, dir, 3, no, no, at, to, active)
      BY <3>3, BookMade, Zenon
    <3>6. Activated(p, best) = [u EXCEPT !.active = TRUE]
      BY <1>2, <2>1, <3>4, Zenon DEF Activated
    <3>7. Activated(p, best) = BookAt(mode, dir, 3, no, no, at, to, TRUE)
      BY <3>5, <3>6, Zenon DEF BookIs
    <3>8. to >= at
      BY <3>1
    <3>9. QED BY <2>1, <3>7, <3>8
  <2>2. CASE ~(~active /\ best >= 1)
    <3>1. Activated(p, best) = p
      BY <1>2, <2>2, Zenon DEF Activated
    <3>2. ~active => best < 1
      BY <2>2
    <3>3. QED BY <1>0, <3>1, <3>2
  <2>3. QED BY <2>1, <2>2
<1>6. PICK a : a = Activated(p, best)
  OBVIOUS
<1>7. a.dir = dir /\ a.stop = to /\ a.left = 3
  BY <1>5, <1>6 DEF BookAt
<1>8. Worst(a, b) = worst
  BY <1>3, <1>7, Extremes
<1>9. (Stopped(p, b) <=> worst <= stop) /\ (Stopped(a, b) <=> worst <= to)
  BY <1>2, <1>4, <1>7, <1>8 DEF Stopped
<1>10. 3 \in Int /\ BookIs(a, mode, dir, 3, no, no, at, to, on)
  <2>1. a = BookAt(mode, dir, 3, no, no, at, to, on)
    BY <1>5, <1>6, Zenon
  <2>2. BookIs(a, mode, dir, 3, no, no, at, to, on)
    BY <2>1, BookMade, Zenon
  <2>3. 3 \in Int
    OBVIOUS
  <2>4. QED BY <2>2, <2>3
<1>11. CASE worst <= stop
  <2>1. Trailed(p, b) = Closes(p, 3)
    BY <1>2, <1>9, <1>11, Zenon DEF Trailed
  <2>2. Closes(p, 3) = BookAt(mode, dir, 0, no, no, at, stop, active)
    BY ONLY <1>0, <1>1, <1>10, ClosesOpen
  <2>3. Trailed(p, b) = BookAt(mode, dir, 0, no, no, at, stop, active)
    BY <2>1, <2>2, Zenon
  <2>4. ~active => WorstOf(dir, b) <= -1
    BY <1>3, <1>11
  <2>5. TrailsIn(Trailed(p, b), mode, dir, 0, at, stop, active, b)
    <3>1. 0 \in {0, 3} /\ 0 # 3
      OBVIOUS
    <3>2. QED BY <2>3, <2>4, <3>1, <1>0, Zenon DEF TrailsIn
  <2>6. QED BY <2>5
<1>12. CASE ~(worst <= stop) /\ worst <= to
  <2>1. Trailed(p, b) = Closes(a, 3)
    <3>1. ~Stopped(p, b) /\ Stopped(a, b)
      BY <1>9, <1>12
    <3>2. Activated(p, Best(p, b)) = a
      BY <1>4, <1>6, Zenon
    <3>3. QED BY <1>2, <3>1, <3>2, Zenon DEF Trailed
  <2>2. Closes(a, 3) = BookAt(mode, dir, 0, no, no, at, to, on)
    BY ONLY <1>0, <1>10, ClosesOpen
  <2>3. Trailed(p, b) = BookAt(mode, dir, 0, no, no, at, to, on)
    BY <2>1, <2>2, Zenon
  <2>4. on
    <3>1. CASE active
      BY <1>5, <3>1
    <3>2. CASE ~active /\ ~on
      BY <1>5, <1>12, <3>2
    <3>3. QED BY <3>1, <3>2
  <2>5. TrailsIn(Trailed(p, b), mode, dir, 0, at, to, on, b)
    <3>1. 0 \in {0, 3} /\ 0 # 3
      OBVIOUS
    <3>2. QED BY <1>5, <2>3, <2>4, <3>1, <1>0, Zenon DEF TrailsIn
  <2>6. QED BY <2>5
<1>13. CASE ~(worst <= stop) /\ ~(worst <= to)
  <2>1. Trailed(p, b) = a
    <3>1. ~Stopped(p, b) /\ ~Stopped(a, b)
      BY <1>9, <1>13
    <3>2. Activated(p, Best(p, b)) = a
      BY <1>4, <1>6, Zenon
    <3>3. QED BY <3>1, <3>2, Zenon DEF Trailed
  <2>2. ~on => BestOf(dir, b) < 1
    BY <1>3, <1>5
  <2>3. TrailsIn(Trailed(p, b), mode, dir, 3, at, to, on, b)
    <3>1. 3 \in {0, 3} /\ 0 # 3
      OBVIOUS
    <3>2. QED BY <1>5, <1>6, <2>1, <2>2, <3>1, <1>0, Zenon DEF TrailsIn
  <2>4. QED BY <2>3
<1>14. QED BY <1>11, <1>12, <1>13

\* A partial or an exit of the model's trade closes the lots that the exit mode
\* names, and the exit also ends the position.
LEMMA PartialTaken ==
  ASSUME NEW p, NEW mode, NEW dir \in {-1, 1}, NEW left, NEW ended \in BOOLEAN, ~ended,
         NEW fresh, NEW at, NEW stop, NEW active,
         BookIs(p, mode, dir, left, ended, fresh, at, stop, active),
         NEW e, e.kind = "Partial"
  PROVE  AfterEvent(p, e) = Closes(p, ClosedBy(p, e))
<1>1. /\ p = BookAt(mode, dir, left, ended, fresh, at, stop, active)
      /\ [p EXCEPT !.ended = ended] = BookAt(mode, dir, left, ended, fresh, at, stop, active)
      /\ p.dir = dir /\ p.ended = ended
  BY Zenon DEF BookIs
<1>2. e.kind # "Entry" /\ e.kind # "Exit" /\ dir # 0
  OBVIOUS
<1>3. (e.kind = "Exit") = ended
  BY <1>2
<1>4. [p EXCEPT !.ended = e.kind = "Exit"] = p
  BY <1>1, <1>3, Zenon
<1>5. ~(e.kind = "Entry") /\ ~(e.kind # "Entry" /\ (p.dir = 0 \/ p.ended))
  BY <1>1, <1>2, Zenon
<1>6. AfterEvent(p, e) = Closes([p EXCEPT !.ended = e.kind = "Exit"], ClosedBy(p, e))
  BY <1>5, Zenon DEF AfterEvent
<1>7. QED BY <1>4, <1>6, Zenon

\* A position before and after its trade has ended.
Ending(p, q, mode, dir, left, fresh, at, stop, active) ==
  \E ended, over \in BOOLEAN :
    /\ ~ended /\ BookIs(p, mode, dir, left, ended, fresh, at, stop, active)
    /\ over /\ BookIs(q, mode, dir, left, over, fresh, at, stop, active)

\* An exit.
LEMMA ExitTaken ==
  ASSUME NEW p, NEW q, NEW mode, NEW dir \in {-1, 1}, NEW left,
         NEW fresh, NEW at, NEW stop, NEW active,
         Ending(p, q, mode, dir, left, fresh, at, stop, active),
         NEW e, e.kind = "Exit"
  PROVE  AfterEvent(p, e) = Closes(q, ClosedBy(p, e))
<1>0. PICK ended \in BOOLEAN, over \in BOOLEAN :
        /\ ~ended /\ BookIs(p, mode, dir, left, ended, fresh, at, stop, active)
        /\ over /\ BookIs(q, mode, dir, left, over, fresh, at, stop, active)
  BY Zenon DEF Ending
<1> USE <1>0
<1>1. /\ \A x : [p EXCEPT !.ended = x] = BookAt(mode, dir, left, x, fresh, at, stop, active)
      /\ q = BookAt(mode, dir, left, over, fresh, at, stop, active)
      /\ p.dir = dir /\ p.ended = ended
  BY Zenon DEF BookIs
<1>2. e.kind # "Entry" /\ dir # 0
  OBVIOUS
<1>3. (e.kind = "Exit") = over
  OBVIOUS
<1>4. [p EXCEPT !.ended = e.kind = "Exit"] = q
  BY <1>1, <1>3, Zenon
<1>5. ~(e.kind = "Entry") /\ ~(e.kind # "Entry" /\ (p.dir = 0 \/ p.ended))
  BY <1>1, <1>2, Zenon
<1>6. AfterEvent(p, e) = Closes([p EXCEPT !.ended = e.kind = "Exit"], ClosedBy(p, e))
  BY <1>5, Zenon DEF AfterEvent
<1>7. QED BY <1>4, <1>6, Zenon

-----------------------------------------------------------------------------
(* The executed position of SATS' replay on a bar *)

\* A position whose mode leaves nothing to a trail.
Plain(mode, dir, left) == BookAt(mode, dir, left, FALSE, FALSE, 0, -1, FALSE)

\* The position inside a bar, before the model's trade has ended: `hits` are the
\* targets that the trade has reached by then.  A bracket has closed it early
\* only on a bar that stops the trade or reaches the bracket's target.
Within(mode, p, dir, hits, b) ==
  /\ mode.exits = "thirds" => p = Plain(mode, dir, Thirds - Reached(hits))
  /\ mode.exits = "single" =>
       \E left \in {0, 3} :
         /\ p = Plain(mode, dir, left)
         /\ mode.at \in hits => left = 0
         /\ left = 0 /\ mode.at \notin hits => WorstOf(dir, b) <= -1 \/ BestOf(dir, b) >= mode.at
  /\ mode.exits = "trail" =>
       \E left, at, stop, active : TrailsIn(p, mode, dir, left, at, stop, active, b)

\* A trailing position that outlives its trade.
Outlives(mode, p, dir, at, stop) ==
  /\ p = BookAt(mode, dir, 3, TRUE, FALSE, at, stop, TRUE)
  /\ dir \in {-1, 1} /\ at \in Int /\ stop \in Int /\ stop >= at

\* The position between bars, while the model has the trade t or none.
Between(mode, p, t) ==
  IF t = NoTrade
  THEN \/ p = NoPosition(mode)
       \/ mode.exits = "trail" /\ \E dir, at, stop : Outlives(mode, p, dir, at, stop)
  ELSE IF mode.exits = "trail"
  THEN \E left, fresh, at, stop, active : Trails(p, mode, t.dir, left, fresh, at, stop, active)
  ELSE p = Plain(mode, t.dir, LotsLeft(mode, t))

\* The fields of such positions.
LEMMA PlainIs ==
  ASSUME NEW mode, NEW dir, NEW left, NEW no \in BOOLEAN, ~no
  PROVE  BookIs(Plain(mode, dir, left), mode, dir, left, no, no, 0, -1, no)
<1>1. no = FALSE
  OBVIOUS
<1>2. PICK p : p = BookAt(mode, dir, left, no, no, 0, -1, no)
  OBVIOUS
<1>3. BookIs(p, mode, dir, left, no, no, 0, -1, no)
  BY <1>2, BookMade, Zenon
<1>4. p = Plain(mode, dir, left)
  BY <1>1, <1>2, Zenon DEF Plain
<1>5. QED BY <1>3, <1>4, Zenon

\* A partial on a plain position, and an exit.
LEMMA PlainTakes ==
  ASSUME NEW mode, NEW dir \in {-1, 1}, NEW left \in Int, NEW p, p = Plain(mode, dir, left), NEW e
  PROVE  /\ e.kind = "Partial" => AfterEvent(p, e) = Closes(p, ClosedBy(p, e))
         /\ e.kind = "Partial" /\ ClosedBy(p, e) = 0 => AfterEvent(p, e) = p
         /\ e.kind = "Partial" /\ ClosedBy(p, e) = left => AfterEvent(p, e) = Plain(mode, dir, 0)
         /\ e.kind = "Exit" /\ ClosedBy(p, e) = left => AfterEvent(p, e) = NoPosition(mode)
<1>1. PICK no \in BOOLEAN, yes \in BOOLEAN : no = FALSE /\ yes = TRUE
  OBVIOUS
<1>2. BookIs(p, mode, dir, left, no, no, 0, -1, no)
  BY <1>1, PlainIs
<1>3. ASSUME e.kind = "Partial" PROVE AfterEvent(p, e) = Closes(p, ClosedBy(p, e))
  BY <1>1, <1>2, <1>3, PartialTaken
<1>4. Closes(p, left) = BookAt(mode, dir, 0, no, no, 0, -1, no) /\ Closes(p, 0) = p
  BY ONLY left \in Int, <1>1, <1>2, ClosesOpen
<1>5. BookAt(mode, dir, 0, no, no, 0, -1, no) = Plain(mode, dir, 0)
  BY <1>1, Zenon DEF Plain
<1>6. ASSUME e.kind = "Exit", ClosedBy(p, e) = left PROVE AfterEvent(p, e) = NoPosition(mode)
  <2>1. PICK q : q = BookAt(mode, dir, left, yes, no, 0, -1, no)
    OBVIOUS
  <2>2. BookIs(q, mode, dir, left, yes, no, 0, -1, no)
    BY <2>1, BookMade, Zenon
  <2>3. AfterEvent(p, e) = Closes(q, ClosedBy(p, e))
    <3>1. Ending(p, q, mode, dir, left, no, 0, -1, no)
      BY <1>1, <1>2, <2>2, Zenon DEF Ending
    <3>2. QED BY <1>6, <3>1, ExitTaken
  <2>4. Closes(q, left) = NoPosition(mode)
    BY ONLY left \in Int, <1>1, <2>2, ClosesEnded
  <2>5. QED BY <1>6, <2>3, <2>4, Zenon
<1>7. QED BY <1>3, <1>4, <1>5, <1>6, Zenon

\* What an event closes, in each mode.
LEMMA ClosedByIs ==
  ASSUME NEW mode \in Modes, NEW p, p.mode = mode, NEW e, e.kind \in {"Partial", "Exit"}
  PROVE  /\ mode.exits = "thirds" =>
              ClosedBy(p, e) = IF e.kind = "Exit" THEN p.left ELSE Smaller(1, p.left)
         /\ mode.exits = "single" =>
              ClosedBy(p, e) = IF e.kind = "Exit" \/ e.level = mode.at THEN p.left ELSE 0
         /\ mode.exits = "trail" =>
              ClosedBy(p, e) = IF e.kind = "Exit" /\ e.reason # "TP3" THEN p.left ELSE 0
<1>1. Thirds \div 3 = 1
  BY DEF Thirds
<1>2. QED BY <1>1, ModeType, Zenon DEF ClosedBy

\* A partial of the next target.
LEMMA PartialWithin ==
  ASSUME NEW mode \in Modes, NEW p, NEW dir \in {-1, 1}, NEW hits \in SatsMarks, NEW b \in Bars,
         Within(mode, p, dir, hits, b),
         NEW k \in {1, 2}, k \notin hits, NEW after \in SatsMarks, after = hits \cup {k},
         NEW e, e.kind = "Partial", e.level = k
  PROVE  Within(mode, AfterEvent(p, e), dir, after, b)
<1>1. CASE mode.exits = "thirds"
  <2>1. PICK left \in Int, rest \in Int :
          left = Thirds - Reached(hits) /\ rest = Thirds - Reached(after) /\ left - 1 = rest /\ left >= 1
    BY DEF SatsMarks, Reached, Thirds
  <2>2. p = Plain(mode, dir, left)
    BY <1>1, <2>1, Zenon DEF Within
  <2>3. p.mode = mode /\ p.left = left /\ AfterEvent(p, e) = Closes(p, ClosedBy(p, e))
    <3>1. p.mode = mode /\ p.left = left
      BY <2>2 DEF Plain, BookAt
    <3>2. AfterEvent(p, e) = Closes(p, ClosedBy(p, e))
      BY <2>2, PlainTakes, SMTT(30)
    <3>3. QED BY <3>1, <3>2
  <2>4. ClosedBy(p, e) = 1
    <3>1. ClosedBy(p, e) = Smaller(1, p.left)
      BY <1>1, <2>3, ClosedByIs
    <3>2. Smaller(1, left) = 1
      BY <2>1 DEF Smaller
    <3>3. QED BY <2>3, <3>1, <3>2, Zenon
  <2>5. PICK no \in BOOLEAN : no = FALSE
    OBVIOUS
  <2>6. BookIs(p, mode, dir, left, no, no, 0, -1, no) /\ Rest(left, 1, rest)
    BY <2>1, <2>2, <2>5, PlainIs DEF Rest
  <2>7. Closes(p, 1) = IF rest = 0 /\ no THEN NoPosition(mode) ELSE BookAt(mode, dir, rest, no, no, 0, -1, no)
    BY ONLY <2>6, ClosesIs
  <2>8. Closes(p, 1) = Plain(mode, dir, rest)
    BY <2>5, <2>7, Zenon DEF Plain
  <2>9. AfterEvent(p, e) = Plain(mode, dir, Thirds - Reached(after))
    BY <2>1, <2>3, <2>4, <2>8, Zenon
  <2>10. mode.exits # "single" /\ mode.exits # "trail"
    BY <1>1
  <2>11. QED BY <2>9, <2>10, Zenon DEF Within
<1>2. CASE mode.exits = "single"
  <2>1. PICK left \in {0, 3} :
          /\ p = Plain(mode, dir, left)
          /\ mode.at \in hits => left = 0
          /\ left = 0 /\ mode.at \notin hits => WorstOf(dir, b) <= -1 \/ BestOf(dir, b) >= mode.at
    BY <1>2, Zenon DEF Within
  <2>2. left \in Int
    OBVIOUS
  <2>3. p.mode = mode /\ p.left = left
    BY <2>1 DEF Plain, BookAt
  <2>4. ClosedBy(p, e) = IF e.level = mode.at THEN left ELSE 0
    <3>1. ClosedBy(p, e) = IF e.kind = "Exit" \/ e.level = mode.at THEN p.left ELSE 0
      BY <1>2, <2>3, ClosedByIs
    <3>2. e.kind # "Exit"
      OBVIOUS
    <3>3. QED BY <2>3, <3>1, <3>2, Zenon
  <2>5. PICK rest \in {0, 3} : rest = IF k = mode.at THEN 0 ELSE left
    <3>1. 0 \in {0, 3}
      OBVIOUS
    <3>2. QED BY <3>1, Zenon
  <2>6. AfterEvent(p, e) = Plain(mode, dir, rest)
    <3>1. CASE k = mode.at
      <4>1. ClosedBy(p, e) = left
        BY <2>4, <3>1, Zenon
      <4>2. AfterEvent(p, e) = Plain(mode, dir, 0)
        BY <2>1, <2>2, <4>1, PlainTakes
      <4>3. QED BY <2>5, <3>1, <4>2, Zenon
    <3>2. CASE k # mode.at
      <4>1. ClosedBy(p, e) = 0
        BY <2>4, <3>2, Zenon
      <4>2. AfterEvent(p, e) = p
        BY <2>1, <2>2, <4>1, PlainTakes
      <4>3. QED BY <2>1, <2>5, <3>2, <4>2, Zenon
    <3>3. QED BY <3>1, <3>2
  <2>7. mode.at \in after => rest = 0
    BY <2>1, <2>5
  <2>8. rest = 0 /\ mode.at \notin after => WorstOf(dir, b) <= -1 \/ BestOf(dir, b) >= mode.at
    <3>1. mode.at \notin after => mode.at \notin hits /\ k # mode.at
      OBVIOUS
    <3>2. QED BY <2>1, <2>5, <3>1, Zenon
  <2>9. mode.exits # "thirds" /\ mode.exits # "trail"
    BY <1>2
  <2>10. QED BY <2>6, <2>7, <2>8, <2>9, Zenon DEF Within
<1>3. CASE mode.exits = "trail"
  <2>1. PICK left, at, stop, active : TrailsIn(p, mode, dir, left, at, stop, active, b)
    BY <1>3, Zenon DEF Within
  <2>2. p = BookAt(mode, dir, left, FALSE, FALSE, at, stop, active) /\ left \in {0, 3}
    BY <2>1, Zenon DEF TrailsIn
  <2>3. PICK no \in BOOLEAN : no = FALSE
    OBVIOUS
  <2>4. BookIs(p, mode, dir, left, no, no, at, stop, active)
    <3>1. p = BookAt(mode, dir, left, no, no, at, stop, active)
      BY <2>2, <2>3, Zenon
    <3>2. QED BY <3>1, BookMade, Zenon
  <2>5. AfterEvent(p, e) = Closes(p, ClosedBy(p, e))
    BY <2>3, <2>4, PartialTaken
  <2>6. p.mode = mode /\ p.left = left
    BY <2>4, Zenon DEF BookIs
  <2>7. ClosedBy(p, e) = 0
    <3>1. ClosedBy(p, e) = IF e.kind = "Exit" /\ e.reason # "TP3" THEN p.left ELSE 0
      BY <1>3, <2>6, ClosedByIs
    <3>2. e.kind # "Exit"
      OBVIOUS
    <3>3. QED BY <3>1, <3>2, Zenon
  <2>8. Closes(p, 0) = p
    <3>1. left \in Int
      BY <2>2
    <3>2. QED BY ONLY <2>3, <2>4, <3>1, ClosesOpen
  <2>9. AfterEvent(p, e) = p
    BY <2>5, <2>7, <2>8, Zenon
  <2>10. mode.exits # "thirds" /\ mode.exits # "single"
    BY <1>3
  <2>11. QED BY <2>1, <2>9, <2>10, Zenon DEF Within
<1>4. QED BY <1>1, <1>2, <1>3, ModeType

\* The exit of the model's trade: only a trailing position may be left, and only
\* behind the third target.
LEMMA ExitWithin ==
  ASSUME NEW mode \in Modes, NEW p, NEW dir \in {-1, 1}, NEW hits \in SatsMarks, NEW b \in Bars,
         Within(mode, p, dir, hits, b),
         NEW e, e.kind = "Exit", e.reason = "TP3" => BestOf(dir, b) >= 3
  PROVE  Between(mode, AfterEvent(p, e), NoTrade)
<1>1. CASE mode.exits \in {"thirds", "single"}
  <2>1. PICK left \in Int : p = Plain(mode, dir, left)
    <3>1. CASE mode.exits = "thirds"
      <4>1. Thirds - Reached(hits) \in Int
        BY DEF Thirds, Reached
      <4>2. QED BY <3>1, <4>1, Zenon DEF Within
    <3>2. CASE mode.exits = "single"
      <4>1. {0, 3} \subseteq Int
        OBVIOUS
      <4>2. QED BY <3>2, <4>1, Zenon DEF Within
    <3>3. QED BY <1>1, <3>1, <3>2
  <2>2. p.mode = mode /\ p.left = left
    BY <2>1 DEF Plain, BookAt
  <2>3. ClosedBy(p, e) = left
    <3>1. /\ mode.exits = "thirds" => ClosedBy(p, e) = IF e.kind = "Exit" THEN p.left ELSE Smaller(1, p.left)
          /\ mode.exits = "single" =>
               ClosedBy(p, e) = IF e.kind = "Exit" \/ e.level = mode.at THEN p.left ELSE 0
      BY <2>2, ClosedByIs
    <3>2. QED BY <1>1, <2>2, <3>1, Zenon
  <2>4. AfterEvent(p, e) = NoPosition(mode)
    BY <2>1, <2>3, PlainTakes
  <2>5. QED BY <2>4, Zenon DEF Between
<1>2. CASE mode.exits = "trail"
  <2>1. PICK left, at, stop, active : TrailsIn(p, mode, dir, left, at, stop, active, b)
    BY <1>2, Zenon DEF Within
  <2>2. /\ p = BookAt(mode, dir, left, FALSE, FALSE, at, stop, active) /\ left \in {0, 3}
        /\ active \in BOOLEAN /\ at \in Int /\ stop \in Int
        /\ active => stop >= at
        /\ left = 3 /\ ~active => BestOf(dir, b) < 1
    BY <2>1, Zenon DEF TrailsIn
  <2>3. PICK no \in BOOLEAN, yes \in BOOLEAN : no = FALSE /\ yes = TRUE
    OBVIOUS
  <2>4. PICK q : q = BookAt(mode, dir, left, yes, no, at, stop, active)
    OBVIOUS
  <2>5. Ending(p, q, mode, dir, left, no, at, stop, active)
    <3>1. p = BookAt(mode, dir, left, no, no, at, stop, active)
      BY <2>2, <2>3, Zenon
    <3>2. BookIs(p, mode, dir, left, no, no, at, stop, active)
      BY <3>1, BookMade, Zenon
    <3>3. BookIs(q, mode, dir, left, yes, no, at, stop, active)
      BY <2>4, BookMade, Zenon
    <3>4. QED BY <2>3, <3>2, <3>3, Zenon DEF Ending
  <2>6. AfterEvent(p, e) = Closes(q, ClosedBy(p, e))
    BY <2>5, ExitTaken
  <2>7. p.mode = mode /\ p.left = left
    BY <2>2 DEF BookAt
  <2>8. ClosedBy(p, e) = IF e.reason # "TP3" THEN left ELSE 0
    <3>1. ClosedBy(p, e) = IF e.kind = "Exit" /\ e.reason # "TP3" THEN p.left ELSE 0
      BY <1>2, <2>7, ClosedByIs
    <3>2. QED BY <2>7, <3>1, Zenon
  <2>9. Closes(q, left) = NoPosition(mode) /\ Closes(q, 0) = IF left = 0 THEN NoPosition(mode) ELSE q
    <3>1. left \in Int
      BY <2>2
    <3>2. BookIs(q, mode, dir, left, yes, no, at, stop, active)
      BY <2>4, BookMade, Zenon
    <3>3. QED BY ONLY <2>3, <3>1, <3>2, ClosesEnded
  <2>10. CASE AfterEvent(p, e) = NoPosition(mode)
    BY <2>10, Zenon DEF Between
  <2>11. CASE AfterEvent(p, e) = q /\ e.reason = "TP3" /\ left # 0
    <3>1. left = 3
      BY <2>2, <2>11
    <3>2. active
      <4>1. BestOf(dir, b) \in Int
        BY BarType DEF BestOf
      <4>2. ~(BestOf(dir, b) < 1)
        BY <2>11, <4>1
      <4>3. QED BY <2>2, <3>1, <4>2
    <3>3. (active) = TRUE
      BY <3>2
    <3>4. AfterEvent(p, e) = BookAt(mode, dir, 3, TRUE, FALSE, at, stop, TRUE)
      BY <2>3, <2>4, <2>11, <3>1, <3>3, Zenon
    <3>5. Outlives(mode, AfterEvent(p, e), dir, at, stop)
      BY <2>2, <3>2, <3>4, Zenon DEF Outlives
    <3>6. QED BY <1>2, <3>5, Zenon DEF Between
  <2>12. QED BY <2>6, <2>8, <2>9, <2>10, <2>11, Zenon
<1>3. QED BY <1>1, <1>2, ModeType

\* The entry of a trade begins a position of its own.
LEMMA EntryBetween ==
  ASSUME NEW mode \in Modes, NEW p, p.mode = mode, NEW dir \in {-1, 1}, NEW e, e.kind = "Entry", e.dir = dir,
         NEW u, u # NoTrade, u.dir = dir, u.hits = {}, u.left = Thirds
  PROVE  Between(mode, AfterEvent(p, e), u)
<1>1. AfterEvent(p, e) = Positioned(mode, dir)
  <2>1. e.kind = "Entry" /\ ~(e.kind # "Entry" /\ (p.dir = 0 \/ p.ended))
    OBVIOUS
  <2>2. QED BY <2>1, Zenon DEF AfterEvent
<1>2. Positioned(mode, dir) = BookAt(mode, dir, Thirds, FALSE, mode.exits = "trail", 0, -1, FALSE)
  BY BookBegins
<1>3. CASE mode.exits = "trail"
  <2>1. (mode.exits = "trail") = TRUE /\ Thirds = 3
    BY <1>3 DEF Thirds
  <2>2. PICK q : q = BookAt(mode, dir, 3, FALSE, TRUE, 0, -1, FALSE)
    OBVIOUS
  <2>3. Trails(q, mode, dir, 3, TRUE, 0, -1, FALSE)
    <3>1. 3 \in {0, 3} /\ 3 # 0 /\ 0 \in Int /\ -1 \in Int
      OBVIOUS
    <3>2. QED BY <2>2, <3>1, Zenon DEF Trails
  <2>4. AfterEvent(p, e) = q
    BY <1>1, <1>2, <2>1, <2>2, Zenon
  <2>5. QED BY <1>3, <2>3, <2>4, ZenonT(60) DEF Between
<1>4. CASE mode.exits # "trail"
  <2>1. (mode.exits = "trail") = FALSE
    BY <1>4
  <2>2. AfterEvent(p, e) = Plain(mode, dir, Thirds)
    BY <1>1, <1>2, <2>1, Zenon DEF Plain
  <2>3. LotsLeft(mode, u) = Thirds
    <3>1. mode.at \notin {}
      OBVIOUS
    <3>2. QED BY <3>1, Zenon DEF LotsLeft
  <2>4. QED BY <1>4, <2>2, <2>3, Zenon DEF Between
<1>5. QED BY <1>3, <1>4

\* What happens inside a bar to a position whose trade is open.
LEMMA InBarWithin ==
  ASSUME NEW mode \in Modes, NEW p, NEW t \in SatsTrades, NEW b \in Bars, Between(mode, p, t)
  PROVE  Within(mode, InBar(Filled(p, b), b), t.dir, t.hits, b)
<1>1. PICK dir \in {-1, 1}, hits \in SatsMarks : dir = t.dir /\ hits = t.hits
  BY SatsTradeIs
<1>2. t # NoTrade /\ t.left = Thirds - Reached(hits)
  BY <1>1, SatsTradeIs
<1>3. CASE mode.exits # "trail"
  <2>1. p = Plain(mode, dir, LotsLeft(mode, t))
    BY <1>1, <1>2, <1>3, Zenon DEF Between
  <2>2. PICK left : left = LotsLeft(mode, t)
    OBVIOUS
  <2>3. p.mode = mode /\ p.dir = dir /\ p.left = left /\ ~p.fresh /\ p.stop = -1
    BY <2>1, <2>2 DEF Plain, BookAt
  <2>4. Filled(p, b) = p
    BY <2>3, Zenon DEF Filled
  <2>5. CASE mode.exits = "thirds"
    <3>1. InBar(p, b) = p
      <4>1. p.mode.exits # "trail" /\ p.mode.exits # "single"
        BY <2>3, <2>5
      <4>2. QED BY <4>1, Zenon DEF InBar
    <3>2. left = Thirds - Reached(hits)
      BY <1>2, <2>2, <2>5, Zenon DEF LotsLeft
    <3>3. mode.exits # "single"
      BY <2>5
    <3>4. QED BY <1>1, <1>3, <2>1, <2>2, <2>4, <3>1, <3>2, <3>3, Zenon DEF Within
  <2>6. CASE mode.exits = "single"
    <3>1. left = IF mode.at \in hits THEN 0 ELSE 3
      BY <1>1, <2>2, <2>6 DEF LotsLeft, Thirds
    <3>2. PICK worst \in Int, best \in Int :
            /\ worst = WorstOf(dir, b) /\ best = BestOf(dir, b)
            /\ Worst(p, b) = worst /\ Best(p, b) = best
      BY <2>3, Extremes
    <3>3. p.mode.exits # "trail" /\ p.mode.exits = "single" /\ mode.exits # "thirds"
      BY <2>3, <2>6
    <3>4. PICK q : q = InBar(p, b)
      OBVIOUS
    <3>5. q = p \/ (q = Plain(mode, dir, 0) /\ (worst <= -1 \/ best >= mode.at))
      <4>1. CASE p.left > 0 /\ p.mode.intrabar /\ (worst <= -1 \/ best >= mode.at)
        <5>1. q = Bracketed(p, b)
          BY <3>3, <3>4, <4>1, Zenon DEF InBar
        <5>2. q = Closes(p, left)
          <6>1. Stopped(p, b) \/ Best(p, b) >= p.mode.at
            BY <2>3, <3>2, <4>1, Zenon DEF Stopped
          <6>2. QED BY <2>3, <5>1, <6>1, Zenon DEF Bracketed
        <5>3. PICK no \in BOOLEAN : no = FALSE
          OBVIOUS
        <5>4. BookIs(p, mode, dir, left, no, no, 0, -1, no)
          BY <2>1, <2>2, <5>3, PlainIs
        <5>5. left \in Int
          BY <3>1
        <5>6. Closes(p, left) = BookAt(mode, dir, 0, no, no, 0, -1, no)
          BY ONLY <5>3, <5>4, <5>5, ClosesOpen
        <5>7. QED BY <4>1, <5>2, <5>3, <5>6, Zenon DEF Plain
      <4>2. CASE ~(p.left > 0 /\ p.mode.intrabar)
        <5>1. q = p
          BY <3>3, <3>4, <4>2, Zenon DEF InBar
        <5>2. QED BY <5>1
      <4>3. CASE p.left > 0 /\ p.mode.intrabar /\ ~(worst <= -1 \/ best >= mode.at)
        <5>1. q = Bracketed(p, b)
          BY <3>3, <3>4, <4>3, Zenon DEF InBar
        <5>2. ~(Stopped(p, b) \/ Best(p, b) >= p.mode.at)
          BY <2>3, <3>2, <4>3, Zenon DEF Stopped
        <5>3. q = p
          BY <5>1, <5>2, Zenon DEF Bracketed
        <5>4. QED BY <5>3
      <4>4. QED BY <4>1, <4>2, <4>3
    <3>6. CASE q = p
      <4>1. left \in {0, 3} /\ (mode.at \in hits => left = 0) /\ (left = 0 => mode.at \in hits)
        BY <3>1
      <4>2. InBar(Filled(p, b), b) = Plain(mode, dir, left)
        BY <2>1, <2>2, <2>4, <3>4, <3>6, Zenon
      <4>3. ~(left = 0 /\ mode.at \notin hits)
        BY <4>1
      <4>4. PICK x : x = Plain(mode, dir, left)
        OBVIOUS
      <4>5. Within(mode, x, dir, hits, b)
        <5>1. mode.exits = "single" =>
                \E l \in {0, 3} :
                  /\ x = Plain(mode, dir, l)
                  /\ mode.at \in hits => l = 0
                  /\ l = 0 /\ mode.at \notin hits => WorstOf(dir, b) <= -1 \/ BestOf(dir, b) >= mode.at
          BY <4>1, <4>3, <4>4, Zenon
        <5>2. QED BY <1>3, <3>3, <5>1, Zenon DEF Within
      <4>6. QED BY <1>1, <4>2, <4>4, <4>5, Zenon
    <3>7. CASE q = Plain(mode, dir, 0) /\ (worst <= -1 \/ best >= mode.at)
      <4>1. 0 \in {0, 3}
        OBVIOUS
      <4>2. QED BY <1>1, <2>4, <3>2, <3>3, <3>4, <3>7, <4>1, <2>3, Zenon DEF Within
    <3>8. QED BY <3>5, <3>6, <3>7
  <2>7. QED BY <1>3, <2>5, <2>6, ModeType
<1>4. CASE mode.exits = "trail"
  <2>1. PICK left, fresh, at, stop, active : Trails(p, mode, dir, left, fresh, at, stop, active)
    BY <1>1, <1>2, <1>4, Zenon DEF Between
  <2>2. /\ p = BookAt(mode, dir, left, FALSE, fresh, at, stop, active)
        /\ left \in {0, 3} /\ fresh \in BOOLEAN /\ active \in BOOLEAN /\ at \in Int /\ stop \in Int
        /\ left = 0 => active
        /\ ~active => stop = -1
        /\ active => ~fresh /\ stop >= at
    BY <2>1, Zenon DEF Trails
  <2>3. PICK filled \in Int : /\ Filled(p, b) = BookAt(mode, dir, left, FALSE, FALSE, filled, stop, active)
                              /\ ~fresh => filled = at
    <3>1. PICK no \in BOOLEAN : no = FALSE
      OBVIOUS
    <3>2. p = BookAt(mode, dir, left, no, fresh, at, stop, active)
      BY <2>2, <3>1, Zenon
    <3>3. BookIs(p, mode, dir, left, no, fresh, at, stop, active)
      BY <3>2, BookMade, Zenon
    <3>4. Fills(p, b, mode, dir, left, no, fresh, at, stop, active)
      BY <2>2, <3>3, FilledIs
    <3>5. QED BY <3>1, <3>4, Zenon DEF Fills
  <2>4. PICK f : f = Filled(p, b)
    OBVIOUS
  <2>5. f.mode = mode /\ f.left = left
    BY <2>3, <2>4 DEF BookAt
  <2>6. active => stop >= filled
    BY <2>2, <2>3
  <2>7. PICK q : q = InBar(f, b)
    OBVIOUS
  <2>8. \E l, a, s, on : TrailsIn(q, mode, dir, l, a, s, on, b)
    <3>1. CASE left = 3
      <4>1. q = Trailed(f, b)
        <5>1. f.left > 0 /\ f.mode.exits = "trail"
          BY <1>4, <2>5, <3>1
        <5>2. QED BY <2>7, <5>1, Zenon DEF InBar
      <4>2. f = BookAt(mode, dir, 3, FALSE, FALSE, filled, stop, active)
        BY <2>3, <2>4, <3>1, Zenon
      <4>3. \E l, to, on : TrailsIn(Trailed(f, b), mode, dir, l, filled, to, on, b)
        BY <2>2, <2>6, <4>2, TrailedIs
      <4>4. QED BY <4>1, <4>3, Zenon
    <3>2. CASE left = 0
      <4>1. q = f
        <5>1. ~(f.left > 0)
          BY <2>5, <3>2
        <5>2. QED BY <2>7, <5>1, Zenon DEF InBar
      <4>2. q = BookAt(mode, dir, 0, FALSE, FALSE, filled, stop, active)
        BY <2>3, <2>4, <3>2, <4>1, Zenon
      <4>3. TrailsIn(q, mode, dir, 0, filled, stop, active, b)
        <5>1. 0 \in {0, 3} /\ 0 # 3
          OBVIOUS
        <5>2. QED BY <2>2, <2>6, <3>2, <4>2, <5>1, Zenon DEF TrailsIn
      <4>4. QED BY <4>3
    <3>3. QED BY <2>2, <3>1, <3>2
  <2>9. mode.exits # "thirds" /\ mode.exits # "single"
    BY <1>4
  <2>10. QED BY <1>1, <2>4, <2>7, <2>8, <2>9, Zenon DEF Within
<1>5. QED BY <1>3, <1>4

\* At the end of a bar that did not end the trade.
LEMMA WithinEnds ==
  ASSUME NEW mode \in Modes, NEW p, NEW dir \in {-1, 1}, NEW hits \in SatsMarks, NEW b \in Bars,
         Within(mode, p, dir, hits, b),
         ~(WorstOf(dir, b) <= -1), \A k \in Levels : BestOf(dir, b) >= k => k \in hits,
         NEW u, u # NoTrade, u.dir = dir, u.hits = hits, u.left = Thirds - Reached(hits)
  PROVE  Between(mode, p, u)
<1>1. CASE mode.exits = "thirds"
  <2>1. p = Plain(mode, dir, u.left)
    BY <1>1, Zenon DEF Within
  <2>2. LotsLeft(mode, u) = u.left
    BY <1>1, Zenon DEF LotsLeft
  <2>3. mode.exits # "trail"
    BY <1>1
  <2>4. QED BY <2>1, <2>2, <2>3, Zenon DEF Between
<1>2. CASE mode.exits = "single"
  <2>1. PICK left \in {0, 3} :
          /\ p = Plain(mode, dir, left)
          /\ mode.at \in hits => left = 0
          /\ left = 0 /\ mode.at \notin hits => WorstOf(dir, b) <= -1 \/ BestOf(dir, b) >= mode.at
    BY <1>2, Zenon DEF Within
  <2>2. left = 0 => mode.at \in hits
    BY <2>1, ModeType, Zenon
  <2>3. left = IF mode.at \in hits THEN 0 ELSE Thirds
    BY <2>1, <2>2 DEF Thirds
  <2>4. LotsLeft(mode, u) = left
    <3>1. mode.exits # "thirds"
      BY <1>2
    <3>2. QED BY <2>3, <3>1, Zenon DEF LotsLeft
  <2>5. mode.exits # "trail"
    BY <1>2
  <2>6. QED BY <2>1, <2>4, <2>5, Zenon DEF Between
<1>3. CASE mode.exits = "trail"
  <2>1. PICK left, at, stop, active : TrailsIn(p, mode, dir, left, at, stop, active, b)
    BY <1>3, Zenon DEF Within
  <2>2. /\ p = BookAt(mode, dir, left, FALSE, FALSE, at, stop, active)
        /\ left \in {0, 3} /\ active \in BOOLEAN /\ at \in Int /\ stop \in Int
        /\ ~active => stop = -1
        /\ active => stop >= at
        /\ left = 0 => active
    BY <2>1, Zenon DEF TrailsIn
  <2>3. Trails(p, mode, dir, left, FALSE, at, stop, active)
    <3>1. FALSE \in BOOLEAN
      OBVIOUS
    <3>2. QED BY <2>2, <3>1, Zenon DEF Trails
  <2>4. QED BY <1>3, <2>3, Zenon DEF Between
<1>4. QED BY <1>1, <1>2, <1>3, ModeType

\* The mode of a position stays, and without a trade so does what it may be.
LEMMA BetweenMode ==
  ASSUME NEW mode, NEW p, NEW t, Between(mode, p, t)
  PROVE  p.mode = mode
<1>1. CASE p = NoPosition(mode)
  BY <1>1 DEF NoPosition
<1>2. CASE \E dir, at, stop : Outlives(mode, p, dir, at, stop)
  <2>1. \E dir, at, stop : p = BookAt(mode, dir, 3, TRUE, FALSE, at, stop, TRUE)
    BY <1>2, Zenon DEF Outlives
  <2>2. QED BY <2>1 DEF BookAt
<1>3. CASE \E left, fresh, at, stop, active : Trails(p, mode, t.dir, left, fresh, at, stop, active)
  <2>1. \E left, fresh, at, stop, active : p = BookAt(mode, t.dir, left, FALSE, fresh, at, stop, active)
    BY <1>3, Zenon DEF Trails
  <2>2. QED BY <2>1 DEF BookAt
<1>4. CASE p = Plain(mode, t.dir, LotsLeft(mode, t))
  BY <1>4 DEF Plain, BookAt
<1>5. QED BY <1>1, <1>2, <1>3, <1>4, Zenon DEF Between

\* Inside a bar without a trade, a trailing stop may still end the position.
LEMMA InBarOutlives ==
  ASSUME NEW mode \in Modes, NEW p, NEW b \in Bars, Between(mode, p, NoTrade)
  PROVE  Between(mode, InBar(Filled(p, b), b), NoTrade)
<1>1. CASE p = NoPosition(mode)
  <2>1. ~p.fresh /\ ~(p.left > 0)
    BY <1>1 DEF NoPosition
  <2>2. Filled(p, b) = p /\ InBar(p, b) = p
    BY <2>1, Zenon DEF Filled, InBar
  <2>3. QED BY <2>2, Zenon
<1>2. CASE mode.exits = "trail" /\ \E dir, at, stop : Outlives(mode, p, dir, at, stop)
  <2>1. PICK dir, at, stop : Outlives(mode, p, dir, at, stop)
    BY <1>2
  <2>2. /\ p = BookAt(mode, dir, 3, TRUE, FALSE, at, stop, TRUE)
        /\ dir \in {-1, 1} /\ at \in Int /\ stop \in Int /\ stop >= at
    BY <2>1, Zenon DEF Outlives
  <2>3. PICK no \in BOOLEAN, yes \in BOOLEAN : no = FALSE /\ yes = TRUE
    OBVIOUS
  <2>4. BookIs(p, mode, dir, 3, yes, no, at, stop, yes)
    <3>1. p = BookAt(mode, dir, 3, yes, no, at, stop, yes)
      BY <2>2, <2>3, Zenon
    <3>2. QED BY <3>1, BookMade, Zenon
  <2>5. p.mode = mode /\ p.left = 3 /\ ~p.fresh /\ p.active
    BY <2>3, <2>4, Zenon DEF BookIs
  <2>6. Filled(p, b) = p
    BY <2>5, Zenon DEF Filled
  <2>7. InBar(p, b) = Trailed(p, b)
    <3>1. p.left > 0 /\ p.mode.exits = "trail"
      BY <1>2, <2>5
    <3>2. QED BY <3>1, Zenon DEF InBar
  <2>8. Activated(p, Best(p, b)) = p
    BY <2>5, Zenon DEF Activated
  <2>9. Trailed(p, b) = p \/ Trailed(p, b) = Closes(p, 3)
    BY <2>5, <2>8, Zenon DEF Trailed
  <2>10. Closes(p, 3) = NoPosition(mode)
    <3>1. PICK three \in Int : three = 3
      OBVIOUS
    <3>2. BookIs(p, mode, dir, three, yes, no, at, stop, yes)
      BY <2>4, <3>1, Zenon
    <3>3. Closes(p, three) = NoPosition(mode)
      BY ONLY <2>3, <3>1, <3>2, ClosesEnded, ZenonT(60)
    <3>4. QED BY <3>1, <3>3, Zenon
  <2>11. Between(mode, NoPosition(mode), NoTrade)
    BY Zenon DEF Between
  <2>12. QED BY <2>6, <2>7, <2>9, <2>10, <2>11, Zenon
<1>3. QED BY <1>1, <1>2, Zenon DEF Between

\* The stop of a trail only gets better.
Tightens(p, level, mode, dir, left, ended, fresh, at, stop, active) ==
  \E to \in Int :
    to >= stop /\ Tightened(p, level) = BookAt(mode, dir, left, ended, fresh, at, to, active)

\* Only the stop changes.
LEMMA TightenedIs ==
  ASSUME NEW p, NEW mode, NEW dir, NEW left, NEW ended, NEW fresh, NEW at, NEW stop \in Int, NEW active,
         BookIs(p, mode, dir, left, ended, fresh, at, stop, active), NEW level \in Int
  PROVE  Tightens(p, level, mode, dir, left, ended, fresh, at, stop, active)
<1>1. PICK to \in Int : to = (IF level > stop THEN level ELSE stop) /\ to >= stop
  OBVIOUS
<1>2. Tightened(p, level) = [p EXCEPT !.stop = to]
  BY <1>1, Zenon DEF Tightened, BookIs
<1>3. [p EXCEPT !.stop = to] = BookAt(mode, dir, left, ended, fresh, at, to, active)
  BY Zenon DEF BookIs
<1>4. QED BY <1>1, <1>2, <1>3, Zenon DEF Tightens

\* The trail follows the trend at the end of a bar.
LEMMA FollowedBetween ==
  ASSUME NEW mode \in Modes, NEW p, NEW t \in SatsTrades \cup {NoTrade}, Between(mode, p, t),
         NEW trend, NEW q \in Followed(p, trend)
  PROVE  Between(mode, q, t)
<1>1. CASE q = p
  BY <1>1
<1>2. CASE p.left > 0 /\ p.active /\ p.dir = trend /\ q # p
  <2>1. PICK line \in Prices : q = Tightened(p, Gain(p, line))
    BY <1>2, Zenon DEF Followed
  <2>2. line \in Int
    BY <2>1, TradeAssumption
  <2>3. PICK no \in BOOLEAN, yes \in BOOLEAN : no = FALSE /\ yes = TRUE
    OBVIOUS
  <2>4. CASE \E dir, at, stop : Outlives(mode, p, dir, at, stop) /\ mode.exits = "trail" /\ t = NoTrade
    <3>1. PICK dir, at, stop : Outlives(mode, p, dir, at, stop) /\ mode.exits = "trail"
      BY <2>4
    <3>2. /\ p = BookAt(mode, dir, 3, TRUE, FALSE, at, stop, TRUE)
          /\ dir \in {-1, 1} /\ at \in Int /\ stop \in Int /\ stop >= at
      BY <3>1, Zenon DEF Outlives
    <3>3. BookIs(p, mode, dir, 3, yes, no, at, stop, yes)
      <4>1. p = BookAt(mode, dir, 3, yes, no, at, stop, yes)
        BY <2>3, <3>2, Zenon
      <4>2. QED BY <4>1, BookMade, Zenon
    <3>4. PICK level \in Int : level = Gain(p, line)
      <4>1. p.dir = dir
        BY <3>3, Zenon DEF BookIs
      <4>2. dir \in {-1, 1}
        BY <3>2, Zenon
      <4>3. QED BY ONLY <2>2, <4>1, <4>2 DEF Gain
    <3>5. PICK to \in Int : to >= stop /\ Tightened(p, level) = BookAt(mode, dir, 3, yes, no, at, to, yes)
      <4>1. Tightens(p, level, mode, dir, 3, yes, no, at, stop, yes)
        BY <3>2, <3>3, TightenedIs
      <4>2. QED BY <4>1, Zenon DEF Tightens
    <3>6. to >= at
      BY <3>2, <3>5
    <3>7. Outlives(mode, q, dir, at, to)
      BY <2>1, <2>3, <3>2, <3>4, <3>5, <3>6, Zenon DEF Outlives
    <3>8. QED BY <2>4, <3>1, <3>7, Zenon DEF Between
  <2>5. CASE t # NoTrade /\ mode.exits = "trail"
              /\ \E left, fresh, at, stop, active : Trails(p, mode, t.dir, left, fresh, at, stop, active)
    <3>1. PICK left, fresh, at, stop, active : Trails(p, mode, t.dir, left, fresh, at, stop, active)
      BY <2>5
    <3>2. PICK dir \in {-1, 1} : dir = t.dir
      BY <2>5, SatsTradeIs
    <3>3. /\ p = BookAt(mode, dir, left, FALSE, fresh, at, stop, active)
          /\ left \in {0, 3} /\ fresh \in BOOLEAN /\ active \in BOOLEAN /\ at \in Int /\ stop \in Int
          /\ left = 0 => active
          /\ active => ~fresh /\ stop >= at
      BY <3>1, <3>2, Zenon DEF Trails
    <3>4. BookIs(p, mode, dir, left, no, fresh, at, stop, active)
      <4>1. p = BookAt(mode, dir, left, no, fresh, at, stop, active)
        BY <2>3, <3>3, Zenon
      <4>2. QED BY <4>1, BookMade, Zenon
    <3>5. PICK level \in Int : level = Gain(p, line)
      <4>1. p.dir = dir
        BY <3>4, Zenon DEF BookIs
      <4>2. QED BY <2>2, <4>1 DEF Gain
    <3>6. PICK to \in Int :
            to >= stop /\ Tightened(p, level) = BookAt(mode, dir, left, no, fresh, at, to, active)
      <4>1. Tightens(p, level, mode, dir, left, no, fresh, at, stop, active)
        BY <3>3, <3>4, TightenedIs
      <4>2. QED BY <4>1, Zenon DEF Tightens
    <3>7. active /\ to >= at
      <4>1. active
        BY <1>2, <3>4, Zenon DEF BookIs
      <4>2. QED BY <3>3, <3>6, <4>1
    <3>8. Trails(q, mode, dir, left, fresh, at, to, active)
      BY <2>1, <2>3, <3>3, <3>5, <3>6, <3>7, Zenon DEF Trails
    <3>9. QED BY <2>5, <3>2, <3>8, Zenon DEF Between
  <2>6. CASE p = NoPosition(mode)
    <3>1. p.left = 0
      BY <2>6 DEF NoPosition
    <3>2. QED BY <1>2, <3>1
  <2>7. CASE p = Plain(mode, t.dir, LotsLeft(mode, t))
    <3>1. ~p.active
      BY <2>7 DEF Plain, BookAt
    <3>2. QED BY <1>2, <3>1
  <2>8. QED BY <2>4, <2>5, <2>6, <2>7, Zenon DEF Between
<1>3. q = p \/ (p.left > 0 /\ p.active /\ p.dir = trend)
  BY Zenon DEF Followed
<1>4. QED BY <1>1, <1>2, <1>3

-----------------------------------------------------------------------------
(* The events of SATS' engine and the executed position *)

\* A position that has followed the events of a settlement so far.
OnTheWay(mode, p, r, dir, hits, b) ==
  r.events \in Seq(Events) /\ Within(mode, AfterEvents(p, r.events), dir, hits, b)

\* One third is closed.
LEMMA ThirdOnTheWay ==
  ASSUME NEW mode \in Modes, NEW p, NEW dir \in {-1, 1}, NEW hits \in SatsMarks, NEW b \in Bars,
         NEW r, OnTheWay(mode, p, r, dir, hits, b), r.trade.dir = dir,
         NEW k \in {1, 2}, k \notin hits, NEW after \in SatsMarks, after = hits \cup {k}
  PROVE  OnTheWay(mode, p, TookThird(r, k), dir, after, b)
<1>1. PICK events \in Seq(Events) : events = r.events
  BY Zenon DEF OnTheWay
<1>2. PICK e : e = PartialOf(r.trade, k, 1)
  OBVIOUS
<1>3. e \in Events /\ e.kind = "Partial" /\ e.level = k
  BY <1>2 DEF PartialOf, Events, PartialEvents, Levels
<1>4. PICK more : more = Append(events, e)
  OBVIOUS
<1>5. more \in Seq(Events)
  BY <1>3, <1>4
<1>6. TookThird(r, k).events = more
  BY <1>1, <1>2, <1>4 DEF TookThird
<1>7. PICK was : was = AfterEvents(p, events)
  OBVIOUS
<1>8. Within(mode, was, dir, hits, b)
  BY <1>1, <1>7, Zenon DEF OnTheWay
<1>9. Within(mode, AfterEvent(was, e), dir, after, b)
  BY <1>3, <1>8, PartialWithin
<1>10. AfterEvents(p, more) = AfterEvent(was, e)
  BY <1>3, <1>4, <1>7, ExecutionsGrow
<1>11. QED BY <1>5, <1>6, <1>9, <1>10, Zenon DEF OnTheWay

\* The exit.
EndsBetween(mode, p, s) ==
  s.trade = NoTrade /\ s.events \in Seq(Events) /\ Between(mode, AfterEvents(p, s.events), NoTrade)

\* The exit of the rest is one event more.
LEMMA OverOnTheWay ==
  ASSUME NEW mode \in Modes, NEW p, NEW dir \in {-1, 1}, NEW hits \in SatsMarks, NEW b \in Bars,
         NEW r, OnTheWay(mode, p, r, dir, hits, b), r.trade.dir = dir, r.trade.left \in Nat,
         NEW gain \in Int, NEW reason \in Reasons, reason = "TP3" => BestOf(dir, b) >= 3
  PROVE  EndsBetween(mode, p, Over(r, gain, reason))
<1>0. PICK s : s = Over(r, gain, reason)
  OBVIOUS
<1>1. PICK events \in Seq(Events) : events = r.events
  BY Zenon DEF OnTheWay
<1>2. PICK e : e = ExitOf(r.trade, gain, reason)
  OBVIOUS
<1>3. e \in Events /\ e.kind = "Exit" /\ e.reason = reason
  BY <1>2 DEF ExitOf, Events, ExitEvents
<1>4. PICK more : more = Append(events, e)
  OBVIOUS
<1>5. more \in Seq(Events)
  BY <1>3, <1>4
<1>6. s.events = more /\ s.trade = NoTrade
  BY <1>0, <1>1, <1>2, <1>4 DEF Over
<1>7. PICK was : was = AfterEvents(p, events)
  OBVIOUS
<1>8. Within(mode, was, dir, hits, b)
  BY <1>1, <1>7, Zenon DEF OnTheWay
<1>9. Between(mode, AfterEvent(was, e), NoTrade)
  BY <1>3, <1>8, ExitWithin
<1>10. AfterEvents(p, more) = AfterEvent(was, e)
  BY <1>3, <1>4, <1>7, ExecutionsGrow
<1>11. QED BY <1>0, <1>5, <1>6, <1>9, <1>10, Zenon DEF EndsBetween

\* The trade of such a settlement.
LEMMA ReachedTrade ==
  ASSUME NEW p, NEW dir, NEW hits, NEW age, NEW epoch, NEW q, NEW r,
         SatsHasReached(p, dir, hits, age, epoch, q, r)
  PROVE  \E taken : OpenSats(r.trade, dir, hits, age, taken, epoch, q)
BY Zenon DEF SatsHasReached

\* What the position has to know of it.
LEMMA OpenFields ==
  ASSUME NEW t, NEW dir, NEW hits, NEW age, NEW taken, NEW epoch, NEW q,
         OpenSats(t, dir, hits, age, taken, epoch, q)
  PROVE  t # NoTrade /\ t.dir = dir /\ t.hits = hits /\ t.left = Thirds - Reached(hits)
<1>1. OpenedSats(t, dir, hits, age, taken, epoch, q)
  BY ONLY SatsTradeMade, OpenSats(t, dir, hits, age, taken, epoch, q)
<1>2. QED BY <1>1, Zenon DEF OpenedSats

\* The contract and the executed position, both on the way.
Chain(mode, p, start, dir, hits, age, epoch, q, r, b) ==
  /\ SatsHasReached(start, dir, hits, age, epoch, q, r)
  /\ OnTheWay(mode, p, r, dir, hits, b)

\* The next target.
Adds(hits, k, after) == k \notin hits /\ after = hits \cup {k}

\* Another third, in the engine and in the executed position.
LEMMA ThirdChains ==
  ASSUME NEW mode \in Modes, NEW p, NEW start, NEW dir \in {-1, 1}, NEW hits \in SatsMarks,
         NEW age \in Nat, NEW epoch \in Nat, NEW q \in Int, NEW b \in Bars,
         NEW r, Chain(mode, p, start, dir, hits, age, epoch, q, r, b),
         NEW k \in {1, 2}, NEW after \in SatsMarks, Adds(hits, k, after)
  PROVE  Chain(mode, p, start, dir, after, age, epoch, q, TookThird(r, k), b)
<1>0. k \notin hits /\ after = hits \cup {k}
  BY Zenon DEF Adds
<1>1. SatsHasReached(start, dir, hits, age, epoch, q, r) /\ OnTheWay(mode, p, r, dir, hits, b)
  BY Zenon DEF Chain
<1>2. SatsHasReached(start, dir, hits \cup {k}, age, epoch, q, TookThird(r, k))
  BY <1>0, <1>1, ThirdKeeps
<1>3. PICK taken : OpenSats(r.trade, dir, hits, age, taken, epoch, q)
  BY <1>1, ReachedTrade
<1>4. r.trade.dir = dir
  BY <1>3, OpenFields
<1>5. OnTheWay(mode, p, TookThird(r, k), dir, after, b)
  BY <1>0, <1>1, <1>4, ThirdOnTheWay
<1>6. QED BY <1>0, <1>2, <1>5, Zenon DEF Chain

\* The targets of a bar.
LEMMA ThirdsChain ==
  ASSUME NEW mode \in Modes, NEW p, NEW t, NEW dir, NEW hits, NEW age, NEW taken, NEW epoch, NEW q,
         OpenSats(t, dir, hits, age, taken, epoch, q), NEW b \in Bars, Within(mode, p, dir, hits, b),
         NEW touched \in SUBSET (Levels \ hits), hits \cup touched \in Marks,
         NEW first, NEW h, Touches(t, touched, first, h)
  PROVE  \E after \in SatsMarks :
           /\ after = hits \cup (touched \cap {1, 2})
           /\ Chain(mode, p, SatsPositionAt(dir, hits), dir, after, age, epoch, q, h, b)
<1>0. dir \in {-1, 1} /\ hits \in SatsMarks /\ age \in Nat /\ epoch \in Nat /\ q \in Int
  BY Zenon DEF OpenSats
<1> USE <1>0
<1>1. PICK r : r = Result(t, <<>>)
  OBVIOUS
<1>2. PICK start : start = SatsPositionAt(dir, hits)
  OBVIOUS
<1>3. Chain(mode, p, start, dir, hits, age, epoch, q, r, b)
  <2>1. SatsHasReached(start, dir, hits, age, epoch, q, r)
    BY <1>1, <1>2, SatsReachedNothing
  <2>2. PICK none \in Seq(Events) : none = <<>>
    BY Nothing
  <2>3. r.events = none
    BY <1>1, <2>2 DEF Result
  <2>4. AfterEvents(p, none) = p
    <3>1. PICK e \in Events : e = EntryOf(1)
      <4>1. PICK one \in {-1, 1} : one = 1
        OBVIOUS
      <4>2. EntryOf(one) \in Events
        BY EntryTold
      <4>3. QED BY <4>1, <4>2
    <3>2. AfterEvents(p, <<>>) = p
      BY ExecutionsGrow, <3>1, <2>2
    <3>3. QED BY <2>2, <3>2, Zenon
  <2>5. OnTheWay(mode, p, r, dir, hits, b)
    BY <2>2, <2>3, <2>4, Zenon DEF OnTheWay
  <2>6. QED BY <2>1, <2>5, Zenon DEF Chain
<1>4. PICK one \in SatsMarks : one = hits \cup (touched \cap {1})
  BY DEF SatsMarks, Marks, Levels
<1>5. PICK two \in SatsMarks : two = hits \cup (touched \cap {1, 2})
  BY DEF SatsMarks, Marks, Levels
<1>6. /\ first = IF 1 \in touched THEN TookThird(r, 1) ELSE r
      /\ h = IF 2 \in touched THEN TookThird(first, 2) ELSE first
  BY <1>1, Zenon DEF Touches
<1>7. Chain(mode, p, start, dir, one, age, epoch, q, first, b)
  <2>1. CASE 1 \in touched
    <3>1. PICK k \in {1, 2} : k = 1
      OBVIOUS
    <3>2. Adds(hits, k, one)
      BY <1>4, <2>1, <3>1 DEF Adds
    <3>3. Chain(mode, p, start, dir, one, age, epoch, q, TookThird(r, k), b)
      BY <1>3, <3>2, ThirdChains, SMTT(30)
    <3>4. QED BY <1>6, <2>1, <3>1, <3>3, Zenon
  <2>2. CASE 1 \notin touched
    <3>1. one = hits /\ first = r
      BY <1>4, <1>6, <2>2
    <3>2. QED BY <1>3, <3>1, Zenon
  <2>3. QED BY <2>1, <2>2
<1>8. Chain(mode, p, start, dir, two, age, epoch, q, h, b)
  <2>1. CASE 2 \in touched
    <3>1. PICK k \in {1, 2} : k = 2
      OBVIOUS
    <3>2. Adds(one, k, two)
      BY <1>4, <1>5, <2>1, <3>1 DEF Adds
    <3>3. Chain(mode, p, start, dir, two, age, epoch, q, TookThird(first, k), b)
      BY <1>7, <3>2, ThirdChains
    <3>4. QED BY <1>6, <2>1, <3>1, <3>3, Zenon
  <2>2. CASE 2 \notin touched
    <3>1. two = one /\ h = first
      BY <1>4, <1>5, <1>6, <2>2
    <3>2. QED BY <1>7, <3>1, Zenon
  <2>3. QED BY <2>1, <2>2
<1>9. QED BY <1>2, <1>5, <1>8, Zenon

\* The executed position follows a settlement.
LEMMA SettleFollowed ==
  ASSUME NEW mode \in Modes, NEW p, NEW t \in SatsTrades, NEW b \in Bars, NEW trend,
         NEW s, s = Settle(t, b, trend), Within(mode, p, t.dir, t.hits, b)
  PROVE  s.events \in Seq(Events) /\ Between(mode, AfterEvents(p, s.events), s.trade)
<1>1. PICK dir, hits, age, taken, epoch, q : OpenSats(t, dir, hits, age, taken, epoch, q)
  BY DEF SatsTrades, OpenSats
<1>2. dir \in {-1, 1} /\ hits \in SatsMarks /\ age \in Nat /\ epoch \in Nat /\ q \in Int
  BY <1>1, Zenon DEF OpenSats
<1> USE <1>2
<1>3. /\ t # NoTrade /\ t.dir = dir /\ t.stop = -1 /\ t.hits = hits /\ t.age = age
      /\ t.left = Thirds - Reached(hits)
  <2>1. OpenedSats(t, dir, hits, age, taken, epoch, q)
    BY ONLY <1>1, SatsTradeMade
  <2>2. QED BY <2>1, Zenon DEF OpenedSats
<1>4. PICK worst \in Int, best \in Int :
        /\ worst = WorstOf(dir, b) /\ best = BestOf(dir, b)
        /\ Worst(t, b) = worst /\ Best(t, b) = best
  BY <1>3, Extremes
<1>5. Stopped(t, b) <=> worst <= -1
  BY <1>3, <1>4, Zenon DEF Stopped
<1>6. PICK touched : touched = Touched(t, b)
  OBVIOUS
<1>7. touched = {k \in Levels \ hits : best >= k}
  BY <1>3, <1>4, <1>6, Zenon DEF Touched
<1>8. touched \in SUBSET (Levels \ hits) /\ hits \cup touched \in Marks
  <2>1. hits \cup {k \in Levels \ hits : best >= k} \in Marks
    <3>1. CASE best < 1
      BY <3>1 DEF Marks, SatsMarks, Levels
    <3>2. CASE best = 1
      BY <3>2 DEF Marks, SatsMarks, Levels
    <3>3. CASE best = 2
      BY <3>3 DEF Marks, SatsMarks, Levels
    <3>4. CASE best > 2
      BY <3>4 DEF Marks, SatsMarks, Levels
    <3>5. QED BY <3>1, <3>2, <3>3, <3>4
  <2>2. QED BY <1>7, <2>1
<1>9. Within(mode, p, dir, hits, b)
  BY <1>3, Zenon
<1>10. PICK r : r = Result(t, <<>>)
  OBVIOUS
<1>11. PICK first : first = IF 1 \in touched THEN TookThird(r, 1) ELSE r
  OBVIOUS
<1>12. PICK h : h = IF 2 \in touched THEN TookThird(first, 2) ELSE first
  OBVIOUS
<1>13. PICK after \in SatsMarks :
         /\ after = hits \cup (touched \cap {1, 2})
         /\ Chain(mode, p, SatsPositionAt(dir, hits), dir, after, age, epoch, q, h, b)
  <2>1. Touches(t, touched, first, h)
    BY <1>10, <1>11, <1>12, Zenon DEF Touches
  <2>2. QED BY <1>1, <1>8, <1>9, <2>1, ThirdsChain
<1>14. Chain(mode, p, SatsPositionAt(dir, hits), dir, hits, age, epoch, q, r, b)
  <2>1. PICK none : none = {}
    OBVIOUS
  <2>2. none \in SUBSET (Levels \ hits) /\ hits \cup none \in Marks /\ hits = hits \cup (none \cap {1, 2})
    BY <2>1, SatsLeftOver
  <2>3. Touches(t, none, r, r)
    <3>1. 1 \notin none /\ 2 \notin none
      BY <2>1
    <3>2. QED BY <1>10, <3>1, Zenon DEF Touches
  <2>4. \E x \in SatsMarks :
          /\ x = hits \cup (none \cap {1, 2})
          /\ Chain(mode, p, SatsPositionAt(dir, hits), dir, x, age, epoch, q, r, b)
    BY <1>1, <1>9, <2>2, <2>3, ThirdsChain
  <2>5. QED BY <2>2, <2>4, Zenon
<1>15. ASSUME NEW x, NEW marks \in SatsMarks, NEW gain \in Int, NEW reason \in Reasons,
              Chain(mode, p, SatsPositionAt(dir, hits), dir, marks, age, epoch, q, x, b),
              s = Over(x, gain, reason), reason = "TP3" => best >= 3
       PROVE  s.events \in Seq(Events) /\ Between(mode, AfterEvents(p, s.events), s.trade)
  <2>1. /\ SatsHasReached(SatsPositionAt(dir, hits), dir, marks, age, epoch, q, x)
        /\ OnTheWay(mode, p, x, dir, marks, b)
    BY <1>15, Zenon DEF Chain
  <2>2. PICK sum : OpenSats(x.trade, dir, marks, age, sum, epoch, q)
    BY <2>1, ReachedTrade
  <2>3. x.trade.dir = dir /\ x.trade.left = Thirds - Reached(marks)
    BY <2>2, OpenFields
  <2>4. x.trade.left \in Nat
    BY <2>3, SatsLeftOver
  <2>5. reason = "TP3" => BestOf(dir, b) >= 3
    BY <1>4, <1>15
  <2>6. EndsBetween(mode, p, Over(x, gain, reason))
    BY <2>1, <2>3, <2>4, <2>5, OverOnTheWay
  <2>7. QED BY <1>15, <2>6, Zenon DEF EndsBetween
<1>16. PICK close \in Int, gap \in Int : close = Gain(t, b.close) /\ gap = Smaller(Gain(t, b.open), t.stop)
  BY <1>3, BarType DEF Gain, Smaller
<1>17. s = IF Stopped(t, b) THEN Over(r, gap, "stop")
           ELSE IF 3 \in touched THEN Over(h, 3, "TP3")
           ELSE IF t.dir # trend THEN Over(h, close, "flip")
           ELSE IF t.age + 1 >= TimeoutBars THEN Over(h, close, "timeout")
           ELSE [trade |-> [h.trade EXCEPT !.age = @ + 1], events |-> h.events, net |-> {}]
  BY <1>6, <1>10, <1>11, <1>12, <1>16, Zenon DEF Settle
<1>18. /\ "stop" \in Reasons /\ "TP3" \in Reasons /\ "flip" \in Reasons /\ "timeout" \in Reasons
       /\ "stop" # "TP3" /\ "flip" # "TP3" /\ "timeout" # "TP3" /\ 3 \in Int
  BY DEF Reasons
<1>19. CASE Stopped(t, b)
  <2>1. s = Over(r, gap, "stop")
    BY <1>17, <1>19, Zenon
  <2>2. QED BY <1>14, <1>15, <1>18, <2>1, Zenon
<1>20. CASE ~Stopped(t, b) /\ 3 \in touched
  <2>1. s = Over(h, 3, "TP3")
    BY <1>17, <1>20, Zenon
  <2>2. best >= 3
    BY <1>7, <1>20
  <2>3. QED BY <1>13, <1>15, <1>18, <2>1, <2>2, Zenon
<1>21. CASE ~Stopped(t, b) /\ 3 \notin touched /\ t.dir # trend
  <2>1. s = Over(h, close, "flip")
    BY <1>17, <1>21, Zenon
  <2>2. QED BY <1>13, <1>15, <1>18, <2>1, Zenon
<1>22. CASE ~Stopped(t, b) /\ 3 \notin touched /\ t.dir = trend /\ t.age + 1 >= TimeoutBars
  <2>1. s = Over(h, close, "timeout")
    BY <1>17, <1>22, Zenon
  <2>2. QED BY <1>13, <1>15, <1>18, <2>1, Zenon
<1>23. CASE ~Stopped(t, b) /\ 3 \notin touched /\ t.dir = trend /\ ~(t.age + 1 >= TimeoutBars)
  <2>1. s = [trade |-> [h.trade EXCEPT !.age = @ + 1], events |-> h.events, net |-> {}]
    BY <1>17, <1>23, Zenon
  <2>2. PICK u : u = [h.trade EXCEPT !.age = @ + 1]
    OBVIOUS
  <2>3. s.trade = u /\ s.events = h.events
    BY <2>1, <2>2
  <2>4. /\ SatsHasReached(SatsPositionAt(dir, hits), dir, after, age, epoch, q, h)
        /\ OnTheWay(mode, p, h, dir, after, b)
    BY <1>13, Zenon DEF Chain
  <2>5. PICK sum : OpenSats(h.trade, dir, after, age, sum, epoch, q)
    BY <2>4, ReachedTrade
  <2>6. PICK older \in Nat : older = age + 1
    OBVIOUS
  <2>7. OpenSats(u, dir, after, older, sum, epoch, q)
    <3>1. h.trade = SatsTradeAt(dir, after, age, sum, epoch, q) /\ sum \in Int
      BY <2>5, Zenon DEF OpenSats
    <3>2. u = SatsTradeAt(dir, after, older, sum, epoch, q)
      BY <2>2, <2>6, <3>1 DEF SatsTradeAt
    <3>3. QED BY <3>1, <3>2, Zenon DEF OpenSats
  <2>8. u # NoTrade /\ u.dir = dir /\ u.hits = after /\ u.left = Thirds - Reached(after)
    BY <2>7, OpenFields
  <2>9. PICK events \in Seq(Events) : events = h.events
    BY <2>4, Zenon DEF OnTheWay
  <2>10. PICK was : was = AfterEvents(p, events)
    OBVIOUS
  <2>11. Within(mode, was, dir, after, b)
    BY <2>4, <2>9, <2>10, Zenon DEF OnTheWay
  <2>12. ~(WorstOf(dir, b) <= -1)
    BY <1>4, <1>5, <1>23, Zenon
  <2>13. \A k \in Levels : BestOf(dir, b) >= k => k \in after
    <3>1. ASSUME NEW k \in Levels, best >= k PROVE k \in after
      <4>1. k \in hits \/ k \in touched
        BY <1>7, <3>1
      <4>2. ~(best >= 3)
        <5>1. 3 \in Levels /\ 3 \notin hits
          BY DEF Levels, SatsMarks
        <5>2. QED BY <1>7, <1>23, <5>1
      <4>3. k \in {1, 2}
        BY <3>1, <4>2 DEF Levels
      <4>4. QED BY <1>13, <4>1, <4>3
    <3>2. QED BY <1>4, <3>1, Zenon
  <2>14. Between(mode, was, u)
    BY <2>8, <2>11, <2>12, <2>13, WithinEnds
  <2>15. QED BY <2>3, <2>9, <2>10, <2>14, Zenon
<1>24. QED BY <1>19, <1>20, <1>21, <1>22, <1>23

\* The executed position follows a bar of SATS.
Follows(e, b, i, enabled, mode, p) ==
  LET r == SatsOnBar(e, b, i, enabled)
  IN \A q \in PositionsAfter(p, b, r.events, r.trade.trend) : Between(mode, q, r.trade.trade)

\* The settlement of the old trade, then the entry of the next.
LEMMA SatsBarFollowed ==
  ASSUME kind = "sats", NEW e \in SatsEngines, NEW b \in Bars, NEW i \in SatsInputs, NEW enabled \in BOOLEAN,
         NEW mode \in Modes, NEW p, Between(mode, p, e.trade)
  PROVE  Follows(e, b, i, enabled, mode, p)
<1>0. SUFFICES ASSUME NEW r, r = SatsOnBar(e, b, i, enabled),
                      NEW q \in PositionsAfter(p, b, r.events, r.trade.trend)
               PROVE  Between(mode, q, r.trade.trade)
  BY Zenon DEF Follows
<1>1. PICK trend \in {-1, 1} : trend = TrendAfter(e, i)
  BY DEF TrendAfter, SatsEngines, Long
<1>2. PICK t \in SatsTrades \cup {NoTrade} : t = e.trade
  BY DEF SatsEngines
<1>3. PICK old \in Learns : old = e.learn
  BY DEF SatsEngines
<1>4. PICK s : s = IF t = NoTrade THEN [trade |-> NoTrade, events |-> <<>>, net |-> {}]
                   ELSE Settle(t, b, trend)
  OBVIOUS
<1>5. PICK in : in = InBar(Filled(p, b), b)
  OBVIOUS
<1>6. /\ s.events \in Seq(Events) /\ s.trade \in SatsTrades \cup {NoTrade}
      /\ Between(mode, AfterEvents(in, s.events), s.trade)
  <2>1. CASE t = NoTrade
    <3>1. s.trade = NoTrade /\ s.events = <<>>
      BY <1>4, <2>1
    <3>2. PICK none \in Seq(Events) : none = <<>>
      BY Nothing
    <3>3. PICK x \in Events : x = EntryOf(trend)
      BY EntryTold
    <3>4. AfterEvents(in, <<>>) = in
      BY <3>2, <3>3, ExecutionsGrow
    <3>5. Between(mode, in, NoTrade)
      <4>1. Between(mode, p, NoTrade)
        BY <1>2, <2>1, Zenon
      <4>2. QED BY <1>5, <4>1, InBarOutlives
    <3>6. QED BY <3>1, <3>2, <3>4, <3>5, Zenon
  <2>2. CASE t # NoTrade
    <3>1. t \in SatsTrades /\ s = Settle(t, b, trend)
      BY <1>4, <2>2, Zenon
    <3>2. Within(mode, in, t.dir, t.hits, b)
      <4>1. Between(mode, p, t)
        BY <1>2, Zenon
      <4>2. QED BY <1>5, <3>1, <4>1, InBarWithin
    <3>3. s.events \in Seq(Events) /\ Between(mode, AfterEvents(in, s.events), s.trade)
      BY <3>1, <3>2, SettleFollowed
    <3>4. SatsSettles(t, s)
      BY <3>1, SettleSettles
    <3>5. QED BY <3>3, <3>4, Zenon DEF SatsSettles
  <2>3. QED BY <2>1, <2>2
<1>7. PICK learn : learn = IF s.net = {} THEN old
                           ELSE Recorded(old, CHOOSE x \in s.net : TRUE, t.epoch)
  OBVIOUS
<1>8. PICK enters \in BOOLEAN :
        enters = (Flips(e, i) /\ i.warmed /\ s.trade = NoTrade /\ enabled /\ i.fits)
  BY Zenon
<1>9. r = IF enters
          THEN Result([trade |-> SatsOpened(trend, old), trend |-> trend, learn |-> learn],
                      Append(s.events, EntryOf(trend)))
          ELSE Result([trade |-> s.trade, trend |-> trend, learn |-> learn], s.events)
  <2>1. s = IF e.trade = NoTrade THEN [trade |-> NoTrade, events |-> <<>>, net |-> {}]
            ELSE Settle(e.trade, b, trend)
    BY <1>2, <1>4, Zenon
  <2>2. learn = IF s.net = {} THEN e.learn
                ELSE Recorded(e.learn, CHOOSE x \in s.net : TRUE, e.trade.epoch)
    BY <1>2, <1>3, <1>7, SMTT(30)
  <2>3. r = IF Flips(e, i) /\ i.warmed /\ s.trade = NoTrade /\ enabled /\ i.fits
            THEN Result([trade |-> SatsOpened(trend, EpochOfSignal(e.learn, learn)),
                         trend |-> trend, learn |-> learn],
                        Append(s.events, EntryOf(trend)))
            ELSE Result([trade |-> s.trade, trend |-> trend, learn |-> learn], s.events)
    BY <1>0, <1>1, <2>1, <2>2 DEF SatsOnBar
  <2>4. EpochOfSignal(e.learn, learn) = old
    BY <1>3 DEF EpochOfSignal
  <2>5. QED BY <1>8, <2>3, <2>4, Zenon
<1>10. /\ r.events \in Seq(Events) /\ r.trade.trade \in SatsTrades \cup {NoTrade}
       /\ Between(mode, AfterEvents(in, r.events), r.trade.trade)
  <2>1. CASE enters
    <3>1. s.trade = NoTrade
      BY <1>8, <2>1
    <3>2. PICK u : u = SatsOpened(trend, old)
      OBVIOUS
    <3>3. u \in SatsTrades /\ u # NoTrade
      BY <3>2, SatsOpenedIs, SatsTradeIs
    <3>4. u.dir = trend /\ u.hits = {} /\ u.left = Thirds
      BY <3>2 DEF SatsOpened
    <3>5. PICK events \in Seq(Events) : events = s.events
      BY <1>6
    <3>6. PICK x \in Events : x = EntryOf(trend) /\ x.kind = "Entry"
      BY EntryTold
    <3>7. x.dir = trend
      BY <3>6 DEF EntryOf
    <3>8. PICK f : f = [trade |-> u, trend |-> trend, learn |-> learn]
      OBVIOUS
    <3>9. PICK more : more = Append(events, x)
      OBVIOUS
    <3>17. more \in Seq(Events)
      BY <3>5, <3>6, <3>9
    <3>10. r = Result(f, more)
      BY <1>9, <2>1, <3>2, <3>5, <3>6, <3>8, <3>9, Zenon
    <3>11. r.trade.trade = u /\ r.events = more
      BY <3>8, <3>10 DEF Result
    <3>12. PICK was : was = AfterEvents(in, events)
      OBVIOUS
    <3>13. was.mode = mode
      <4>1. Between(mode, was, NoTrade)
        BY <1>6, <3>1, <3>5, <3>12, Zenon
      <4>2. QED BY <4>1, BetweenMode
    <3>14. Between(mode, AfterEvent(was, x), u)
      BY <3>3, <3>4, <3>6, <3>7, <3>13, EntryBetween
    <3>15. AfterEvents(in, more) = AfterEvent(was, x)
      BY <3>9, <3>12, ExecutionsGrow
    <3>16. QED BY <3>3, <3>17, <3>11, <3>14, <3>15, Zenon
  <2>2. CASE ~enters
    <3>1. r = Result([trade |-> s.trade, trend |-> trend, learn |-> learn], s.events)
      BY <1>9, <2>2, Zenon
    <3>2. r.trade.trade = s.trade /\ r.events = s.events
      BY <3>1 DEF Result
    <3>3. QED BY <1>6, <3>2, Zenon
  <2>3. QED BY <2>1, <2>2
<1>11. q \in Followed(AfterEvents(in, r.events), r.trade.trend)
  BY <1>5, Zenon DEF PositionsAfter
<1>12. QED BY <1>10, <1>11, FollowedBetween

-----------------------------------------------------------------------------
(* What the replay executed *)

\* Between the bars of SATS' replay.
Executing == kind = "sats" /\ runner = "replay" => book.mode \in Modes /\ Between(book.mode, book, engine.trade)

\* It begins without a position, and every bar keeps it.
LEMMA ExecutingHolds == Spec => []Executing
<1>1. Init => Executing
  <2>1. SUFFICES ASSUME Init, kind = "sats", runner = "replay"
                 PROVE  book.mode \in Modes /\ Between(book.mode, book, engine.trade)
    BY DEF Executing
  <2>2. PICK mode \in Modes : book = NoPosition(mode)
    BY <2>1 DEF Init
  <2>3. book.mode = mode
    BY <2>2 DEF NoPosition
  <2>4. engine.trade = NoTrade
    BY <2>1, InitSound
  <2>5. QED BY <2>2, <2>3, <2>4, Zenon DEF Between
<1>2. Invariant /\ Executing /\ [Next]_vars => Executing'
  <2>1. SUFFICES ASSUME Invariant, Executing, [Next]_vars, kind' = "sats", runner' = "replay"
                 PROVE  book'.mode \in Modes /\ Between(book'.mode, book', engine'.trade)
    BY DEF Executing
  <2>2. CASE UNCHANGED vars
    BY <2>1, <2>2, Zenon DEF vars, Executing
  <2>3. CASE Next
    <3>1. kind = "sats" /\ runner = "replay" /\ SatsReplayBar
      BY <2>1, <2>3, Zenon DEF Next, LiveBar, LiveStop, LiveTarget, LiveCloses, ReplayBar, SatsReplayBar, Called
    <3>2. PICK b, allowed, i, r :
            /\ b \in Bars /\ allowed \in BOOLEAN /\ i \in SatsInputs
            /\ r = SatsOnBar(engine, b, i, allowed)
            /\ engine' = r.trade /\ told' = r.events
            /\ book' \in PositionsAfter(book, b, told', engine'.trend)
      BY <3>1 DEF SatsReplayBar, OnBar
    <3>3. PICK mode \in Modes : mode = book.mode /\ Between(mode, book, engine.trade)
      BY <2>1, <3>1, Zenon DEF Executing
    <3>4. engine \in SatsEngines
      BY <2>1, <3>1 DEF Invariant, IInv, Engine
    <3>5. Between(mode, book', r.trade.trade)
      <4>1. PICK e, p, q : e \in SatsEngines /\ e = engine /\ p = book /\ q = book'
        BY <3>4
      <4>2. r = SatsOnBar(e, b, i, allowed) /\ Between(mode, p, e.trade)
            /\ q \in PositionsAfter(p, b, r.events, r.trade.trend)
        BY <3>2, <3>3, <4>1, Zenon
      <4>3. Between(mode, q, r.trade.trade)
        <5>1. Follows(e, b, i, allowed, mode, p)
          BY <3>1, <3>2, <3>3, <4>1, <4>2, SatsBarFollowed
        <5>2. QED BY <4>2, <5>1, Zenon DEF Follows
      <4>4. QED BY <4>1, <4>3, Zenon
    <3>6. book'.mode = mode
      BY <3>5, BetweenMode
    <3>7. QED BY <3>2, <3>5, <3>6, Zenon
  <2>4. QED BY <2>1, <2>2, <2>3
<1>3. QED BY <1>1, <1>2, Invariance, PTL DEF Spec

\* The replay executes the lots of the model at every bar: a bracket changes
\* nothing, and a trail leaves the trade early only at a stop that trails and
\* outlives it only with a stop that loses nothing.
THEOREM BookFollowsModelHolds == Spec => []BookFollowsModel
<1>1. Invariant /\ Executing => BookFollowsModel
  <2>1. SUFFICES ASSUME Invariant, Executing, runner = "replay" PROVE BookFollowsModel
    BY DEF BookFollowsModel
  <2>2. CASE kind # "sats"
    <3>1. book = BookOf(PositionOf(engine.trade))
      BY <2>1, <2>2 DEF Invariant, IInv, Replayed
    <3>2. book = IF Open THEN [dir |-> engine.trade.dir, lots |-> engine.trade.left] ELSE NoBook
      BY <3>1 DEF BookOf, PositionOf, FlatPosition, NoBook, Open
    <3>3. QED BY <2>2, <3>2, Zenon DEF BookFollowsModel
  <2>3. CASE kind = "sats"
    <3>1. PICK mode, p, t :
            mode \in Modes /\ mode = book.mode /\ p = book /\ t = engine.trade /\ Between(mode, p, t)
      BY <2>1, <2>3, Zenon DEF Executing
    <3>2. CASE mode.exits # "trail"
      <4>1. CASE t # NoTrade
        <5>1. p = Plain(mode, t.dir, LotsLeft(mode, t))
          BY <3>1, <3>2, <4>1, Zenon DEF Between
        <5>2. p.dir = t.dir /\ ~p.ended /\ p.left = LotsLeft(mode, t)
          BY <5>1 DEF Plain, BookAt
        <5>3. QED BY <2>3, <3>1, <3>2, <4>1, <5>2, Zenon DEF BookFollowsModel, Open
      <4>2. CASE t = NoTrade
        <5>1. p = NoPosition(mode)
          BY <3>1, <3>2, <4>2, Zenon DEF Between
        <5>2. QED BY <2>3, <3>1, <3>2, <4>2, <5>1, Zenon DEF BookFollowsModel, Open
      <4>3. QED BY <4>1, <4>2
    <3>3. CASE mode.exits = "trail"
      <4>1. CASE t # NoTrade
        <5>1. PICK left, fresh, at, stop, active : Trails(p, mode, t.dir, left, fresh, at, stop, active)
          BY <3>1, <3>3, <4>1, Zenon DEF Between
        <5>2. p = BookAt(mode, t.dir, left, FALSE, fresh, at, stop, active) /\ (left = 0 => active)
          BY <5>1, Zenon DEF Trails
        <5>3. p.dir = t.dir /\ ~p.ended /\ p.left = left /\ p.active = active
          BY <5>2 DEF BookAt
        <5>4. p.left = 0 => p.active
          BY <5>2, <5>3, Zenon
        <5>5. QED BY <2>3, <3>1, <3>3, <4>1, <5>3, <5>4, Zenon DEF BookFollowsModel, Open
      <4>2. CASE t = NoTrade /\ p.dir # 0
        <5>1. p # NoPosition(mode)
          BY <4>2 DEF NoPosition
        <5>2. PICK dir, at, stop : Outlives(mode, p, dir, at, stop)
          BY <3>1, <4>2, <5>1, Zenon DEF Between
        <5>3. /\ p = BookAt(mode, dir, 3, TRUE, FALSE, at, stop, TRUE)
              /\ stop >= at
          BY <5>2, Zenon DEF Outlives
        <5>4. p.left = 3 /\ p.active /\ p.stop = stop /\ p.at = at
          BY <5>3 DEF BookAt
        <5>5. p.left > 0 /\ p.stop >= p.at
          <6>1. stop >= at
            BY <5>3, Zenon
          <6>2. QED BY ONLY <5>4, <6>1
        <5>6. QED BY <2>3, <3>1, <3>3, <4>2, <5>4, <5>5, Zenon DEF BookFollowsModel, Open
      <4>3. CASE t = NoTrade /\ p.dir = 0
        BY <2>3, <3>1, <3>3, <4>3, Zenon DEF BookFollowsModel, Open
      <4>4. QED BY <4>1, <4>2, <4>3
    <3>4. QED BY <3>2, <3>3
  <2>4. QED BY <2>2, <2>3
<1>2. QED BY <1>1, Invariance, ExecutingHolds, PTL
===============================================================================
