---------------------------- MODULE ErpApp_proofs ----------------------------
(* Invariants of the example application for every number of browsers, calls,  *)
(* supplies and inputs.                                                        *)
EXTENDS ErpApp, TLAPS, WellFoundedInduction

-----------------------------------------------------------------------------
(* Numbers. *)

\* Some naturals have a least one; a claim about all naturals is proved by
\* looking at the least counterexample.
LEMMA LeastNat ==
    ASSUME NEW S \in SUBSET Nat, S # {}
    PROVE  \E n \in S : \A m \in S : n <= m
<1> DEFINE R == OpToRel(<, Nat)
<1>1. IsWellFoundedOn(R, Nat)
  BY NatLessThanWellFounded
<1>2. \A x, y \in Nat : <<y, x>> \in R <=> y < x
  BY DEF OpToRel
<1> HIDE DEF R
<1>3. PICK n \in S : \A m \in S : ~(<<m, n>> \in R)
  BY <1>1, WFMin
<1>4. ASSUME NEW m \in S PROVE n <= m
  <2>1. n \in Nat /\ m \in Nat
    OBVIOUS
  <2>2. ~(m < n)
    BY <1>2, <1>3, <2>1
  <2> QED
    BY <2>1, <2>2
<1> QED
  BY <1>4

-----------------------------------------------------------------------------
(* Seeding: SeedPrefix is defined, item by item. *)

Item(d, i) == Insert(d, SeedItems[i][1], SeedItems[i][2], TRUE)

\* f is the sequence of databases that n inserts leave.
Inserts(f, d, n) == f = [i \in 0 .. n |-> IF i = 0 THEN d ELSE Item(f[i - 1], i)]

LEMMA InsertsExist ==
    ASSUME NEW d, NEW n \in Nat
    PROVE  \E f : Inserts(f, d, n)
<1> DEFINE S == {k \in Nat : ~ \E f : Inserts(f, d, k)}
<1> SUFFICES ASSUME S # {} PROVE FALSE
  OBVIOUS
<1>1. PICK k \in S : \A m \in S : k <= m
  BY LeastNat
<1>2. k # 0
  <2> DEFINE f == [i \in 0 .. 0 |-> d]
  <2>1. Inserts(f, d, 0)
    BY DEF Inserts
  <2> QED
    BY <2>1
<1>3. k - 1 \in Nat /\ k - 1 \notin S
  BY <1>1, <1>2
<1>4. PICK f : Inserts(f, d, k - 1)
  BY <1>3
<1> DEFINE g == [i \in 0 .. k |-> IF i = k THEN Item(f[k - 1], k) ELSE f[i]]
<1>5. ASSUME NEW i \in 0 .. k PROVE g[i] = IF i = 0 THEN d ELSE Item(g[i - 1], i)
  <2>1. CASE i = k
    BY <1>2, <1>3, <2>1
  <2>2. CASE i # k
    <3>1. i \in 0 .. k - 1 /\ g[i] = f[i] /\ (i # 0 => i - 1 \in 0 .. k - 1 /\ g[i - 1] = f[i - 1])
      BY <2>2
    <3>2. f[i] = IF i = 0 THEN d ELSE Item(f[i - 1], i)
      BY <1>4, <3>1 DEF Inserts
    <3> QED
      BY <3>1, <3>2
  <2> QED
    BY <2>1, <2>2
<1>6. Inserts(g, d, k)
  <2>1. g = [i \in 0 .. k |-> g[i]]
    OBVIOUS
  <2> HIDE DEF g
  <2> QED
    BY <1>5, <2>1 DEF Inserts
<1> QED
  BY <1>6

LEMMA SeedPrefixIs ==
    ASSUME NEW d
    PROVE  /\ SeedPrefix(d, 0) = d
           /\ \A k \in 1 .. Len(SeedItems) : SeedPrefix(d, k) = Item(SeedPrefix(d, k - 1), k)
<1> DEFINE g == CHOOSE f : f = [i \in 0 .. Len(SeedItems) |->
                    IF i = 0 THEN d ELSE Insert(f[i - 1], SeedItems[i][1], SeedItems[i][2], TRUE)]
<1>1. Len(SeedItems) \in Nat
  BY ItemsAssumption
<1>2. \A k : SeedPrefix(d, k) = g[k]
  BY DEF SeedPrefix
<1>3. Inserts(g, d, Len(SeedItems))
  <2>1. \E f : f = [i \in 0 .. Len(SeedItems) |->
            IF i = 0 THEN d ELSE Insert(f[i - 1], SeedItems[i][1], SeedItems[i][2], TRUE)]
    BY <1>1, InsertsExist DEF Inserts, Item
  <2>2. g = [i \in 0 .. Len(SeedItems) |->
            IF i = 0 THEN d ELSE Insert(g[i - 1], SeedItems[i][1], SeedItems[i][2], TRUE)]
    BY <2>1
  <2> HIDE DEF g
  <2> QED
    BY <2>2 DEF Inserts, Item
<1> HIDE DEF g
<1>4. g[0] = d /\ \A k \in 1 .. Len(SeedItems) : g[k] = Item(g[k - 1], k)
  BY <1>1, <1>3 DEF Inserts
<1> QED
  BY <1>2, <1>4

-----------------------------------------------------------------------------
(* The statements of a handler, column by column. *)

PutGiven(d, name, r, g) == [d EXCEPT !.stock[name] = r, !.given = g]
PutOrdered(d, name, r, o) == [d EXCEPT !.stock[name] = r, !.ordered = o]

LEMMA PutGivenIs ==
    ASSUME NEW d \in Databases, NEW name, NEW r, NEW g
    PROVE  PutGiven(d, name, r, g)
           = [stock |-> [d.stock EXCEPT ![name] = r], ordered |-> d.ordered, given |-> g]
<1> DEFINE R == [d EXCEPT !.stock[name] = r]
           t == [d.stock EXCEPT ![name] = r]
<1>1. R = [d EXCEPT !.stock = t]
  OBVIOUS
<1>2. PutGiven(d, name, r, g) = [R EXCEPT !.given = g]
  BY DEF PutGiven
<1>3. d = [stock |-> d.stock, ordered |-> d.ordered, given |-> d.given]
  BY DEF Databases
<1> HIDE DEF R, t
<1>4. R = [stock |-> t, ordered |-> d.ordered, given |-> d.given]
  BY <1>1, <1>3
<1>5. [R EXCEPT !.given = g] = [stock |-> t, ordered |-> d.ordered, given |-> g]
  BY <1>4
<1> QED
  BY <1>2, <1>5 DEF t

LEMMA PutOrderedIs ==
    ASSUME NEW d \in Databases, NEW name, NEW r, NEW o
    PROVE  PutOrdered(d, name, r, o)
           = [stock |-> [d.stock EXCEPT ![name] = r], ordered |-> o, given |-> d.given]
<1> DEFINE R == [d EXCEPT !.stock[name] = r]
           t == [d.stock EXCEPT ![name] = r]
<1>1. R = [d EXCEPT !.stock = t]
  OBVIOUS
<1>2. PutOrdered(d, name, r, o) = [R EXCEPT !.ordered = o]
  BY DEF PutOrdered
<1>3. d = [stock |-> d.stock, ordered |-> d.ordered, given |-> d.given]
  BY DEF Databases
<1> HIDE DEF R, t
<1>4. R = [stock |-> t, ordered |-> d.ordered, given |-> d.given]
  BY <1>1, <1>3
<1>5. [R EXCEPT !.ordered = o] = [stock |-> t, ordered |-> o, given |-> d.given]
  BY <1>4
<1> QED
  BY <1>2, <1>5 DEF t

LEMMA InsertIs ==
    ASSUME NEW d \in Databases, NEW name, NEW quantity, NEW seeded
    PROVE  Insert(d, name, quantity, seeded)
           = [stock |-> [d.stock EXCEPT ![name] = [quantity |-> quantity, seeded |-> seeded]],
              ordered |-> d.ordered, given |-> IF name = Shell THEN d.given + quantity ELSE d.given]
<1> DEFINE r == [quantity |-> quantity, seeded |-> seeded]
           g == IF name = Shell THEN d.given + quantity ELSE d.given
<1>1. Insert(d, name, quantity, seeded) = PutGiven(d, name, r, g)
  BY DEF Insert, PutGiven
<1> QED
  BY <1>1, PutGivenIs

LEMMA AdjustedIs ==
    ASSUME NEW d \in Databases, NEW name, NEW change
    PROVE  Adjusted(d, name, change)
           = [stock |-> [d.stock EXCEPT ![name] = [d.stock[name] EXCEPT !.quantity = @ + change]],
              ordered |-> d.ordered, given |-> IF name = Shell THEN d.given + change ELSE d.given]
<1> DEFINE r == [d.stock[name] EXCEPT !.quantity = @ + change]
           g == IF name = Shell THEN d.given + change ELSE d.given
<1>1. Adjusted(d, name, change) = PutGiven(d, name, r, g)
  BY DEF Adjusted, PutGiven
<1> QED
  BY <1>1, PutGivenIs

LEMMA ProducedIs ==
    ASSUME NEW d \in Databases, NEW quantity
    PROVE  Produced(d, quantity) =
             <<[stock |-> [d.stock EXCEPT ![Shell] = [d.stock[Shell] EXCEPT !.quantity = @ - 2 * quantity]],
                ordered |-> d.ordered + quantity, given |-> d.given]>>
<1> DEFINE r == [d.stock[Shell] EXCEPT !.quantity = @ - 2 * quantity]
           o == d.ordered + quantity
<1>1. Produced(d, quantity) = <<PutOrdered(d, Shell, r, o)>>
  BY DEF Produced, PutOrdered
<1> QED
  BY <1>1, PutOrderedIs

-----------------------------------------------------------------------------
(* What every statement on the database keeps.  The two invariants of the      *)
(* database are stated of any database, so that they can be followed from one  *)
(* unit of a request to the next, wherever the process dies.                   *)

Paid(d) ==
    d.given = 2 * d.ordered + (IF d.stock[Shell] = Nil THEN 0 ELSE d.stock[Shell].quantity)

Shelled(d) ==
    (\E n \in Names : d.stock[n] # Nil /\ d.stock[n].seeded) =>
        d.stock[Shell] # Nil /\ d.stock[Shell].seeded

Sound == {d \in Databases : Paid(d) /\ Shelled(d)}

\* A row that is not there yet is inserted.
LEMMA InsertPays ==
    ASSUME NEW d \in Databases, Paid(d), NEW name \in Names, d.stock[name] = Nil,
           NEW quantity \in Nat, NEW seeded \in BOOLEAN
    PROVE  LET e == Insert(d, name, quantity, seeded)
           IN  /\ e \in Databases /\ Paid(e)
               /\ e.stock[name] = [quantity |-> quantity, seeded |-> seeded]
               /\ e.stock[name] # Nil
               /\ \A n \in Names \ {name} : e.stock[n] = d.stock[n]
<1> DEFINE row == [quantity |-> quantity, seeded |-> seeded]
           e == Insert(d, name, quantity, seeded)
<1>1. row \in Rows /\ row # Nil
  BY ItemsAssumption DEF Rows
<1>2. d.stock \in [Names -> Rows \cup {Nil}] /\ d.ordered \in Nat /\ d.given \in Int
  BY DEF Databases
<1>3. e = [stock |-> [d.stock EXCEPT ![name] = row], ordered |-> d.ordered,
           given |-> IF name = Shell THEN d.given + quantity ELSE d.given]
  BY InsertIs
<1>7. row.quantity = quantity
  OBVIOUS
<1> HIDE DEF row, e
<1>4. e \in Databases
  BY <1>1, <1>2, <1>3 DEF Databases
<1>5. e.stock[name] = row /\ \A n \in Names \ {name} : e.stock[n] = d.stock[n]
  BY <1>2, <1>3
<1>6. Paid(e)
  <2>1. CASE name = Shell
    BY <1>1, <1>2, <1>3, <1>5, <1>7, <2>1 DEF Paid
  <2>2. CASE name # Shell
    <3>1. e.stock[Shell] = d.stock[Shell] /\ e.given = d.given /\ e.ordered = d.ordered
      BY <1>3, <1>5, <2>2, ItemsAssumption
    <3> QED
      BY <3>1 DEF Paid
  <2> QED
    BY <2>1, <2>2
<1> QED
  BY <1>1, <1>4, <1>5, <1>6 DEF row, e

\* After k inserts the first k items are there, the shells among them.
SeededTo(d, k) ==
    /\ d \in Databases /\ Paid(d)
    /\ \A n \in Names : d.stock[n] # Nil => \E j \in 1 .. k : SeedItems[j][1] = n
    /\ k # 0 => d.stock[Shell] # Nil /\ d.stock[Shell].seeded

LEMMA OneMoreItem ==
    ASSUME NEW k \in 1 .. Len(SeedItems), NEW d, SeededTo(d, k - 1)
    PROVE  SeededTo(Item(d, k), k)
<1>1. Len(SeedItems) \in Nat /\ SeedItems[k] \in Names \X Nat /\ Shell \in Names
  BY ItemsAssumption
<1>2. PICK name \in Names, quantity \in Nat : SeedItems[k] = <<name, quantity>>
  BY <1>1
<1>3. d.stock[name] = Nil
  <2>1. \A j \in 1 .. k - 1 : j \in 1 .. Len(SeedItems) /\ j # k
    BY <1>1
  <2>2. SeedItems[k][1] = name
    BY <1>2
  <2>3. \A j \in 1 .. k - 1 : SeedItems[j][1] # name
    <3>1. \A i, j \in 1 .. Len(SeedItems) : i # j => SeedItems[i][1] # SeedItems[j][1]
      BY ItemsAssumption
    <3> QED
      BY ONLY <2>1, <2>2, <3>1, k \in 1 .. Len(SeedItems)
  <2> QED
    BY <2>3 DEF SeededTo
<1> DEFINE e == Insert(d, name, quantity, TRUE)
<1>4. /\ e \in Databases /\ Paid(e)
      /\ e.stock[name] = [quantity |-> quantity, seeded |-> TRUE] /\ e.stock[name] # Nil
      /\ \A n \in Names \ {name} : e.stock[n] = d.stock[n]
  <2>1. d \in Databases /\ Paid(d)
    BY DEF SeededTo
  <2> QED
    BY ONLY <1>3, <2>1, name \in Names, quantity \in Nat, InsertPays
<1>5. Item(d, k) = e
  BY <1>2 DEF Item
<1> HIDE DEF e
<1>6. \A n \in Names : e.stock[n] # Nil => \E j \in 1 .. k : SeedItems[j][1] = n
  <2>1. SeedItems[k][1] = name /\ k \in 1 .. k
    BY <1>1, <1>2
  <2>2. ASSUME NEW n \in Names \ {name}, e.stock[n] # Nil
        PROVE  \E j \in 1 .. k : SeedItems[j][1] = n
    <3>1. PICK j \in 1 .. k - 1 : SeedItems[j][1] = n
      BY <1>4, <2>2 DEF SeededTo
    <3> QED
      BY <3>1
  <2> QED
    BY <2>1, <2>2
<1>7. e.stock[Shell] # Nil /\ e.stock[Shell].seeded
  <2>1. CASE k = 1
    <3>1. name = Shell
      BY <1>1, <1>2, <2>1, ItemsAssumption
    <3> QED
      BY <1>4, <3>1
  <2>2. CASE k # 1
    <3>1. d.stock[Shell] # Nil /\ d.stock[Shell].seeded
      BY <2>2 DEF SeededTo
    <3>2. name # Shell
      BY <1>3, <3>1
    <3> QED
      BY <1>1, <1>4, <3>1, <3>2
  <2> QED
    BY <2>1, <2>2
<1> QED
  BY <1>4, <1>5, <1>6, <1>7 DEF SeededTo

LEMMA PrefixSeeded ==
    ASSUME NEW d \in Sound, Empty(d), NEW n \in 0 .. Len(SeedItems)
    PROVE  SeededTo(SeedPrefix(d, n), n)
<1> DEFINE S == {k \in Nat : k <= Len(SeedItems) /\ ~SeededTo(SeedPrefix(d, k), k)}
<1>1. Len(SeedItems) \in Nat
  BY ItemsAssumption
<1> SUFFICES ASSUME S # {} PROVE FALSE
  BY <1>1
<1>2. PICK k \in S : \A m \in S : k <= m
  BY LeastNat
<1>3. k # 0
  <2>1. SeedPrefix(d, 0) = d
    BY SeedPrefixIs
  <2>2. SeededTo(d, 0)
    BY DEF SeededTo, Sound, Empty
  <2> QED
    BY <2>1, <2>2
<1>4. k - 1 \in Nat /\ k - 1 \notin S /\ k \in 1 .. Len(SeedItems)
  BY <1>1, <1>2, <1>3
<1>5. SeededTo(SeedPrefix(d, k - 1), k - 1)
  BY <1>1, <1>4
<1>6. SeedPrefix(d, k) = Item(SeedPrefix(d, k - 1), k)
  BY <1>4, SeedPrefixIs
<1>7. SeededTo(Item(SeedPrefix(d, k - 1), k), k)
  BY <1>4, <1>5, OneMoreItem
<1> QED
  BY <1>2, <1>6, <1>7

LEMMA SeedUnitsSound ==
    ASSUME NEW d \in Sound
    PROVE  SeedUnits(d) \in Seq(Sound)
<1>1. Len(SeedItems) \in Nat
  BY ItemsAssumption
<1>2. CASE Empty(d)
  <2>1. ASSUME NEW k \in 1 .. Len(SeedItems) PROVE SeedPrefix(d, k) \in Sound
    BY <1>1, <1>2, PrefixSeeded DEF SeededTo, Sound, Shelled
  <2> QED
    BY <1>1, <1>2, <2>1 DEF SeedUnits
<1>3. CASE ~Empty(d)
  BY <1>3 DEF SeedUnits
<1> QED
  BY <1>2, <1>3

LEMMA LastSound ==
    ASSUME NEW d \in Sound, NEW units \in Seq(Sound)
    PROVE  LastOf(d, units) \in Sound
BY DEF LastOf

\* An adjustment in stock, of a shell or another supply, by hand.
LEMMA AdjustSound ==
    ASSUME NEW d \in Sound, NEW name \in Names, NEW change \in Int, InStock(d, name, change)
    PROVE  Adjusted(d, name, change) \in Sound
<1> DEFINE row == d.stock[name]
           new == [quantity |-> row.quantity + change, seeded |-> row.seeded]
           e == Adjusted(d, name, change)
<1>1. /\ d.stock \in [Names -> Rows \cup {Nil}] /\ d.ordered \in Nat /\ d.given \in Int
      /\ d = [stock |-> d.stock, ordered |-> d.ordered, given |-> d.given]
      /\ Paid(d) /\ Shelled(d)
  BY DEF Sound, Databases
<1>2. row \in Rows /\ row.quantity + change >= 0
  BY <1>1 DEF InStock
<1>3. /\ row.quantity \in Nat /\ row.seeded \in BOOLEAN
      /\ [row EXCEPT !.quantity = @ + change] = new
      /\ row.quantity + change \in Nat
  BY <1>2 DEF Rows
<1>4. new \in Rows /\ new # Nil /\ new.quantity = row.quantity + change /\ new.seeded = row.seeded
  BY <1>3, ItemsAssumption DEF Rows
<1>5. e = [stock |-> [d.stock EXCEPT ![name] = new], ordered |-> d.ordered,
           given |-> IF name = Shell THEN d.given + change ELSE d.given]
  <2>1. d \in Databases
    BY DEF Sound
  <2> HIDE DEF new
  <2> QED
    BY <1>3, <2>1, AdjustedIs
<1>8. row = d.stock[name] /\ row # Nil
  BY DEF InStock
<1> HIDE DEF row, new, e
<1>6. e \in Databases
  BY <1>1, <1>4, <1>5 DEF Databases
<1>9. e.stock[name] = new /\ \A n \in Names \ {name} : e.stock[n] = d.stock[n]
  BY <1>1, <1>5
<1>7. Paid(e)
  <2>1. CASE name = Shell
    BY <1>1, <1>3, <1>4, <1>5, <1>8, <1>9, <2>1 DEF Paid
  <2>2. CASE name # Shell
    <3>1. e.stock[Shell] = d.stock[Shell] /\ e.given = d.given /\ e.ordered = d.ordered
      BY <1>5, <1>9, <2>2, ItemsAssumption
    <3> QED
      BY <1>1, <3>1 DEF Paid
  <2> QED
    BY <2>1, <2>2
<1>10. Shelled(e)
  <2>1. \A n \in Names : /\ e.stock[n] # Nil <=> d.stock[n] # Nil
                         /\ e.stock[n] # Nil => e.stock[n].seeded = d.stock[n].seeded
    BY <1>4, <1>8, <1>9
  <2> QED
    BY <1>1, <2>1, ItemsAssumption DEF Shelled
<1> QED
  BY <1>6, <1>7, <1>10 DEF e, Sound

\* A production takes its material and stores its order in one unit.
LEMMA ProduceSound ==
    ASSUME NEW d \in Sound, NEW quantity \in Int, quantity >= 1,
           InStock(d, Shell, - 2 * quantity)
    PROVE  Produced(d, quantity) \in Seq(Sound)
<1> DEFINE row == d.stock[Shell]
           new == [quantity |-> row.quantity - 2 * quantity, seeded |-> row.seeded]
           e == [stock |-> [d.stock EXCEPT ![Shell] = new], ordered |-> d.ordered + quantity,
                 given |-> d.given]
<1>1. /\ d.stock \in [Names -> Rows \cup {Nil}] /\ d.ordered \in Nat /\ d.given \in Int
      /\ d = [stock |-> d.stock, ordered |-> d.ordered, given |-> d.given]
      /\ Paid(d) /\ Shelled(d) /\ Shell \in Names
  BY ItemsAssumption DEF Sound, Databases
<1>2. row \in Rows /\ row # Nil /\ row.quantity + (- 2 * quantity) >= 0
  BY <1>1 DEF InStock
<1>3. /\ row.quantity \in Nat /\ row.seeded \in BOOLEAN
      /\ [row EXCEPT !.quantity = @ - 2 * quantity] = new
      /\ row.quantity - 2 * quantity \in Nat
  BY <1>2 DEF Rows
<1>4. new \in Rows /\ new # Nil /\ new.quantity = row.quantity - 2 * quantity
      /\ new.seeded = row.seeded
  BY <1>3, ItemsAssumption DEF Rows
<1>5. Produced(d, quantity) = <<e>>
  <2>1. d \in Databases
    BY DEF Sound
  <2> HIDE DEF new
  <2> QED
    BY <1>3, <2>1, ProducedIs
<1>6. row = d.stock[Shell]
  OBVIOUS
<1> HIDE DEF row, new
<1>7. e \in Databases
  BY <1>1, <1>4 DEF Databases
<1>8. /\ e.stock[Shell] = new /\ \A n \in Names \ {Shell} : e.stock[n] = d.stock[n]
      /\ e.ordered = d.ordered + quantity /\ e.given = d.given
  BY <1>1
<1> HIDE DEF e
<1>9. Paid(e)
  BY <1>1, <1>2, <1>3, <1>4, <1>6, <1>8 DEF Paid
<1>10. Shelled(e)
  <2>1. \A n \in Names : /\ e.stock[n] # Nil <=> d.stock[n] # Nil
                         /\ e.stock[n] # Nil => e.stock[n].seeded = d.stock[n].seeded
    BY <1>2, <1>4, <1>6, <1>8
  <2> QED
    BY <1>1, <2>1 DEF Shelled
<1>11. e \in Sound
  BY <1>7, <1>9, <1>10 DEF Sound
<1> QED
  BY <1>5, <1>11

LEMMA RequestFields ==
    ASSUME NEW q \in Requests
    PROVE  /\ q.op \in {"list", "adjust", "create", "run"}
           /\ q.op = "adjust" => q.name \in Names /\ q.change \in Int
           /\ q.op = "create" => q.name \in Names \cup {Blank} /\ q.quantity \in Int
           /\ q.op = "run" => q.quantity \in Int
<1>1. \/ q = List \/ q \in Adjustments(Changes) \/ q \in Creations(Quantities) \/ q \in Runs(Quantities)
  BY DEF Requests
<1>2. CASE q = List
  BY <1>2 DEF List
<1>3. CASE q \in Adjustments(Changes)
  BY <1>3, BoundsAssumption DEF Adjustments
<1>4. CASE q \in Creations(Quantities)
  BY <1>4, BoundsAssumption DEF Creations
<1>5. CASE q \in Runs(Quantities)
  BY <1>5, BoundsAssumption DEF Runs
<1> QED
  BY <1>1, <1>2, <1>3, <1>4, <1>5

\* Each state of the database that a request leaves behind is sound.
LEMMA UnitsSound ==
    ASSUME NEW d \in Sound, NEW q \in Requests
    PROVE  Units(d, q) \in Seq(Sound)
<1> DEFINE first == IF Seeds(q) THEN SeedUnits(d) ELSE <<>>
           own == IF ~Granted(d, q) THEN <<>>
                  ELSE CASE q.op = "create" -> <<Insert(d, q.name, q.quantity, FALSE)>>
                         [] q.op = "adjust" -> <<Adjusted(d, q.name, q.change)>>
                         [] q.op = "run"    -> Produced(Opened(d), q.quantity)
                         [] OTHER           -> <<>>
<1>1. first \in Seq(Sound)
  BY SeedUnitsSound
<1>2. own \in Seq(Sound)
  <2>1. CASE ~Granted(d, q)
    BY <2>1
  <2>5. CASE Granted(d, q) /\ q.op = "list"
    BY <2>5
  <2>2. CASE Granted(d, q) /\ q.op = "create"
    <3> DEFINE e == Insert(d, q.name, q.quantity, FALSE)
    <3>1. q.name \in Names /\ q.quantity \in Nat /\ d.stock[q.name] = Nil
      BY <2>2, RequestFields DEF Granted, Valid
    <3>2. /\ e \in Databases /\ Paid(e)
          /\ e.stock[q.name] = [quantity |-> q.quantity, seeded |-> FALSE]
          /\ \A n \in Names \ {q.name} : e.stock[n] = d.stock[n]
      <4>1. d \in Databases /\ Paid(d)
        BY DEF Sound
      <4>2. PICK name \in Names, quantity \in Nat : name = q.name /\ quantity = q.quantity
        BY <3>1
      <4> DEFINE f == Insert(d, name, quantity, FALSE)
      <4>3. /\ f \in Databases /\ Paid(f)
            /\ f.stock[name] = [quantity |-> quantity, seeded |-> FALSE]
            /\ \A n \in Names \ {name} : f.stock[n] = d.stock[n]
        <5>1. d.stock[name] = Nil
          BY <3>1, <4>2
        <5> QED
          BY ONLY <4>1, <5>1, name \in Names, quantity \in Nat, InsertPays
      <4> HIDE DEF f
      <4> QED
        BY <4>2, <4>3 DEF f
    <3>5. own = <<e>>
      BY <2>2
    <3> HIDE DEF e, own
    <3>3. Shelled(e)
      <4>1. ~e.stock[q.name].seeded
        BY <3>2
      <4>2. \A n \in Names : e.stock[n] # Nil /\ e.stock[n].seeded => n # q.name /\ d.stock[n] = e.stock[n]
        BY <3>2, <4>1
      <4>3. d.stock[Shell] # Nil => e.stock[Shell] = d.stock[Shell]
        BY <3>1, <3>2, ItemsAssumption
      <4> QED
        BY <4>2, <4>3 DEF Shelled, Sound
    <3>4. e \in Sound
      BY <3>2, <3>3 DEF Sound
    <3> QED
      BY <3>4, <3>5
  <2>3. CASE Granted(d, q) /\ q.op = "adjust"
    <3>1. Adjusted(d, q.name, q.change) \in Sound
      BY <2>3, RequestFields, AdjustSound DEF Granted
    <3> QED
      BY <2>3, <3>1
  <2>4. CASE Granted(d, q) /\ q.op = "run"
    <3>1. Opened(d) \in Sound
      BY SeedUnitsSound, LastSound DEF Opened
    <3>2. q.quantity \in Int /\ q.quantity >= 1 /\ InStock(Opened(d), Shell, - 2 * q.quantity)
      BY <2>4, RequestFields DEF Granted, Valid
    <3>3. Produced(Opened(d), q.quantity) \in Seq(Sound)
      BY <3>1, <3>2, ProduceSound
    <3> QED
      BY <2>4, <3>3
  <2> QED
    BY <2>1, <2>2, <2>3, <2>4, <2>5, RequestFields
<1>3. Units(d, q) = first \o own
  BY DEF Units
<1> HIDE DEF first, own
<1> QED
  BY <1>1, <1>2, <1>3

LEMMA AfterSound ==
    ASSUME NEW d \in Sound, NEW q \in Requests
    PROVE  After(d, q) \in Sound
BY UnitsSound, LastSound DEF After

LEMMA ListingTyped ==
    ASSUME NEW d \in Databases
    PROVE  Listing(d) \in [Names -> Nat \cup {Nil}]
BY DEF Listing, Databases, Rows

LEMMA ToldTyped ==
    ASSUME NEW d \in Databases, NEW q \in Requests
    PROVE  Told(d, q) \in [Names -> Nat \cup {Nil}]
<1>1. Nothing \in [Names -> Nat \cup {Nil}]
  BY DEF Nothing
<1>2. CASE q.op = "list"
  BY <1>2, ListingTyped DEF Told
<1>3. CASE q.op = "run"
  BY <1>1, <1>3 DEF Told
<1>4. CASE q.op \in {"adjust", "create"}
  <2>1. Told(d, q) = [Nothing EXCEPT ![q.name] = Listing(d)[q.name]]
    BY <1>4 DEF Told
  <2>2. ASSUME NEW n \in Names
        PROVE  [Nothing EXCEPT ![q.name] = Listing(d)[q.name]][n] \in Nat \cup {Nil}
    BY <1>1, <2>2, ListingTyped
  <2> QED
    BY <1>1, <2>1, <2>2
<1> QED
  BY <1>2, <1>3, <1>4, RequestFields

-----------------------------------------------------------------------------
(* The inductive invariant. *)

\* A stream is that of a page, and its events wait while it is open.
StreamsOfPages ==
    \A c \in Clients :
        /\ stream[c] # "off" => cookie[c] # 0
        /\ queue[c] # <<>> => stream[c] = "open"

\* Sessions are numbered as they are given out, so a new one is nobody's yet.
NumbersIssued ==
    \A c \in Clients :
        /\ session[c] <= used.logins /\ cookie[c] <= used.logins
        /\ \A i \in Slots : calls[c][i] # Nil => calls[c][i].cookie <= used.logins

AppInv == TypeOK /\ db \in Sound /\ StreamsOfPages /\ NumbersIssued /\ GuardHolds

LEMMA AppInvInit ==
    ASSUME Init
    PROVE  AppInv
<1>1. db \in Sound
  BY ItemsAssumption, Init DEF Init, Sound, Databases, Paid, Shelled
<1>2. TypeOK
  BY <1>1, BoundsAssumption DEF Init, TypeOK, Sound, Nothing
<1>3. StreamsOfPages /\ NumbersIssued /\ GuardHolds
  BY DEF Init, StreamsOfPages, NumbersIssued, GuardHolds, Out
<1> QED
  BY <1>1, <1>2, <1>3 DEF AppInv

-----------------------------------------------------------------------------
(* What a step does to the calls. *)

AllCalls == [Clients -> [Slots -> Calls \cup {Nil}]]

\* No call comes to be let through by the guard, and none has a session number
\* above n.
NoneLetThrough(n) ==
    /\ calls' \in AllCalls
    /\ \A d \in Clients, j \in Slots : calls'[d][j] # Nil =>
         /\ calls'[d][j].cookie <= n
         /\ calls'[d][j].stage = "guarded" =>
              /\ calls[d][j] # Nil /\ calls[d][j].stage = "guarded"
              /\ calls'[d][j].cookie = calls[d][j].cookie

LEMMA Replied ==
    ASSUME AppInv, NEW c \in Clients, NEW i \in Slots, calls[c][i] # Nil,
           NEW code \in {"ok", "refused", "unauthorized", "failed"},
           NEW listing \in [Names -> Nat \cup {Nil}], Reply(c, i, code, listing)
    PROVE  NoneLetThrough(used.logins)
<1> DEFINE over == {j \in Out(c) : calls[c][j].stage = "answered"}
           k == calls[c][i]
           r == [k EXCEPT !.stage = "answered", !.code = code, !.listing = listing, !.over = over]
<1>1. over \in SUBSET Slots
  BY DEF Out
<1>2. k \in Calls /\ calls \in AllCalls
  BY DEF AppInv, TypeOK, AllCalls
<1>3. calls' = [calls EXCEPT ![c][i] = r]
  BY DEF Reply
<1>4. r \in Calls /\ r.stage = "answered" /\ r.cookie = k.cookie
  <2> HIDE DEF over, k
  <2> QED
    BY <1>1, <1>2 DEF Calls
<1> HIDE DEF r
<1>5. calls' \in AllCalls
  BY <1>2, <1>3, <1>4 DEF AllCalls
<1>6. \A d \in Clients, j \in Slots :
        calls'[d][j] = IF d = c /\ j = i THEN r ELSE calls[d][j]
  BY <1>2, <1>3 DEF AllCalls
<1> QED
  BY <1>4, <1>5, <1>6 DEF NoneLetThrough, AppInv, NumbersIssued

LEMMA LetOn ==
    ASSUME AppInv, NEW c \in Clients, NEW i \in Slots, calls[c][i] # Nil,
           NEW stage \in {"guarded", "checked"}, Goto(c, i, stage)
    PROVE  /\ calls' \in AllCalls
           /\ \A d \in Clients, j \in Slots : d # c \/ j # i => calls'[d][j] = calls[d][j]
           /\ calls'[c][i].stage = stage /\ calls'[c][i].cookie = calls[c][i].cookie
<1>1. calls \in AllCalls /\ calls[c][i] \in Calls
  BY DEF AppInv, TypeOK, AllCalls
<1> DEFINE r == [calls[c][i] EXCEPT !.stage = stage]
<1>2. calls' = [calls EXCEPT ![c][i] = r]
  BY DEF Goto
<1>3. r \in Calls /\ r.stage = stage /\ r.cookie = calls[c][i].cookie
  BY <1>1 DEF Calls
<1> HIDE DEF r
<1> QED
  BY <1>1, <1>2, <1>3 DEF AllCalls

LEMMA FirstVacant ==
    ASSUME NEW c \in Clients, Vacant(c) # {}
    PROVE  First(c) \in Vacant(c)
<1>1. Vacant(c) \in SUBSET Nat
  BY BoundsAssumption DEF Vacant
<1>2. \E i \in Vacant(c) : \A j \in Vacant(c) : i <= j
  BY <1>1, LeastNat
<1> QED
  BY <1>2 DEF First

LEMMA Sent ==
    ASSUME AppInv, NEW c \in Clients, NEW under \in 1 .. MaxLogins, NEW q \in Requests,
           NEW previous \in Int \cup {Nil}, SendUnder(c, under, q, previous),
           NEW n \in Nat, under <= n, used.logins <= n
    PROVE  NoneLetThrough(n)
<1> DEFINE r == Call(q, under, previous)
<1>1. First(c) \in Slots
  BY FirstVacant DEF SendUnder, Vacant
<1>2. calls \in AllCalls /\ used.logins \in Nat
  BY DEF AppInv, TypeOK, AllCalls
<1>3. r \in Calls /\ r.stage = "sent" /\ r.cookie = under
  BY DEF Call, Calls, Nothing
<1>4. calls' = [calls EXCEPT ![c][First(c)] = r]
  BY DEF SendUnder
<1> HIDE DEF r
<1>5. calls' \in AllCalls
  BY <1>1, <1>2, <1>3, <1>4 DEF AllCalls
<1>6. \A d \in Clients, j \in Slots :
        calls'[d][j] = IF d = c /\ j = First(c) THEN r ELSE calls[d][j]
  BY <1>1, <1>2, <1>4 DEF AllCalls
<1>7. \A d \in Clients, j \in Slots : calls[d][j] # Nil => calls[d][j].cookie <= n
  <2>1. \A d \in Clients, j \in Slots : calls[d][j] # Nil =>
            calls[d][j].cookie \in Int /\ calls[d][j].cookie <= used.logins
    BY <1>2, BoundsAssumption DEF AppInv, NumbersIssued, AllCalls, Calls
  <2> QED
    BY <1>2, <2>1
<1> QED
  BY <1>3, <1>5, <1>6, <1>7 DEF NoneLetThrough

LEMMA HasArrived ==
    ASSUME AppInv, NEW c \in Clients, NEW i \in Slots, NEW moves \in BOOLEAN,
           Arrived(c, i, moves)
    PROVE  NoneLetThrough(used.logins)
<1>1. calls \in AllCalls
  BY DEF AppInv, TypeOK, AllCalls
<1> DEFINE mark(j) == [calls[c][j] EXCEPT !.over = @ \ {i}, !.late = @ \/ j \in calls[c][i].over,
                                          !.moved = @ \/ moves]
<1>2. calls' = [calls EXCEPT ![c] = [j \in Slots |-> IF j = i \/ calls[c][j] = Nil THEN Nil
                                                    ELSE mark(j)]]
  BY DEF Arrived
<1>3. ASSUME NEW j \in Slots, calls[c][j] # Nil
      PROVE  mark(j) \in Calls /\ mark(j).cookie = calls[c][j].cookie
             /\ mark(j).stage = calls[c][j].stage
  <2>1. calls[c][j] \in Calls
    BY <1>1, <1>3 DEF AllCalls
  <2> DEFINE k == calls[c][j]
             o == k.over \ {i}
             l == (k.late \/ j \in calls[c][i].over)
             m == (k.moved \/ moves)
  <2>2. mark(j) = [k EXCEPT !.over = o, !.late = l, !.moved = m]
    OBVIOUS
  <2>3. o \in SUBSET Slots /\ l \in BOOLEAN /\ m \in BOOLEAN
    BY <2>1 DEF Calls
  <2> HIDE DEF mark, o, l, m
  <2> QED
    BY <2>1, <2>2, <2>3 DEF Calls
<1> HIDE DEF mark
<1>4. calls' \in AllCalls
  BY <1>1, <1>2, <1>3 DEF AllCalls
<1>5. \A d \in Clients, j \in Slots :
        calls'[d][j] = IF d # c THEN calls[d][j]
                       ELSE IF j = i \/ calls[c][j] = Nil THEN Nil ELSE mark(j)
  BY <1>1, <1>2 DEF AllCalls
<1> QED
  BY <1>3, <1>4, <1>5 DEF NoneLetThrough, AppInv, NumbersIssued

\* The guard's decisions stay good where no call is let through and a session is
\* only ended, or begins with a number that no call has.
LEMMA StillGood ==
    ASSUME AppInv, NEW n, NoneLetThrough(n),
           \A c \in Clients : \/ session'[c] = session[c] /\ access'[c] = access[c]
                              \/ session'[c] = 0
                              \/ session'[c] = used.logins + 1
    PROVE  GuardHolds'
<1> SUFFICES ASSUME NEW c \in Clients, NEW i \in Slots, calls'[c][i] # Nil,
                    calls'[c][i].stage = "guarded", calls'[c][i].cookie = session'[c]
             PROVE  access'[c]
  BY DEF GuardHolds, Out, Known
<1>1. /\ calls[c][i] # Nil /\ calls[c][i].stage = "guarded"
      /\ calls[c][i].cookie = session'[c]
  BY DEF NoneLetThrough
<1>2. calls[c][i].cookie \in 1 .. MaxLogins
  BY <1>1 DEF AppInv, TypeOK, Calls
<1>3. calls[c][i].cookie <= used.logins
  BY <1>1 DEF AppInv, NumbersIssued
<1>4. MaxLogins \in Nat /\ used.logins \in Nat
  BY BoundsAssumption DEF AppInv, TypeOK
<1>5. session'[c] = session[c] /\ access'[c] = access[c]
  BY <1>1, <1>2, <1>3, <1>4
<1> QED
  BY <1>1, <1>5 DEF AppInv, GuardHolds, Out, Known

LEMMA Unchanged ==
    ASSUME AppInv, UNCHANGED vars
    PROVE  AppInv'
BY DEF AppInv, TypeOK, StreamsOfPages, NumbersIssued, GuardHolds, Out, Known, vars

\* The server's steps on a call before its handler.
LEMMA GuardStep ==
    ASSUME AppInv, NEW c \in Clients, NEW i \in Slots, Guard(c, i) \/ Check(c, i)
    PROVE  AppInv'
<1>1. UNCHANGED <<db, access, session, page, queue, used>> /\ calls[c][i] # Nil
  BY DEF Guard, Check
<1>2. Nothing \in [Names -> Nat \cup {Nil}]
  BY DEF Nothing
<1>3. \/ NoneLetThrough(used.logins)
      \/ Known(c, calls[c][i]) /\ access[c] /\ Goto(c, i, "guarded")
      \/ calls[c][i].stage = "guarded" /\ Goto(c, i, "checked")
  BY <1>1, <1>2, Replied DEF Guard, Check
<1>4. CASE NoneLetThrough(used.logins)
  <2>1. GuardHolds'
    BY <1>1, <1>4, StillGood
  <2>2. NumbersIssued'
    BY <1>1, <1>4 DEF NoneLetThrough, AppInv, NumbersIssued, page
  <2>3. TypeOK' /\ StreamsOfPages' /\ db' \in Sound
    BY <1>1, <1>4 DEF NoneLetThrough, AppInv, TypeOK, StreamsOfPages, page, AllCalls
  <2> QED
    BY <2>1, <2>2, <2>3 DEF AppInv
<1>5. ASSUME NEW stage \in {"guarded", "checked"}, Goto(c, i, stage), stage = "guarded" => access[c]
      PROVE  AppInv'
  <2>1. /\ calls' \in AllCalls
        /\ \A d \in Clients, j \in Slots : d # c \/ j # i => calls'[d][j] = calls[d][j]
        /\ calls'[c][i].stage = stage /\ calls'[c][i].cookie = calls[c][i].cookie
    BY <1>1, <1>5, LetOn
  <2>2. GuardHolds'
    BY <1>1, <1>5, <2>1 DEF AppInv, GuardHolds, Out, Known
  <2>3. NumbersIssued'
    BY <1>1, <2>1 DEF AppInv, NumbersIssued, page
  <2>4. TypeOK' /\ StreamsOfPages' /\ db' \in Sound
    BY <1>1, <2>1 DEF AppInv, TypeOK, StreamsOfPages, page, AllCalls
  <2> QED
    BY <2>2, <2>3, <2>4 DEF AppInv
<1> QED
  BY <1>3, <1>4, <1>5

LEMMA Published ==
    ASSUME AppInv, NEW event \in {"supplies", "other"}, Publish(event), UNCHANGED <<stream, cookie>>
    PROVE  /\ queue' \in [Clients -> Seq({"supplies", "other"})] /\ blemish' \in [Clients -> BOOLEAN]
           /\ StreamsOfPages'
<1>1. /\ stream \in [Clients -> {"off", "connecting", "admitted", "open", "closed"}]
      /\ queue \in [Clients -> Seq({"supplies", "other"})] /\ blemish \in [Clients -> BOOLEAN]
  BY DEF AppInv, TypeOK
<1>2. queue' \in [Clients -> Seq({"supplies", "other"})]
  BY <1>1 DEF Publish
<1>3. blemish' \in [Clients -> BOOLEAN]
  BY <1>1 DEF Publish
<1>4. StreamsOfPages'
  BY <1>1 DEF Publish, AppInv, StreamsOfPages
<1> QED
  BY <1>2, <1>3, <1>4

LEMMA HandleStep ==
    ASSUME AppInv, NEW c \in Clients, NEW i \in Slots, Handle(c, i)
    PROVE  AppInv'
<1> DEFINE q == calls[c][i].q
<1>1. /\ UNCHANGED <<access, session, cookie, shown, drafts, stream, used>>
      /\ calls[c][i] # Nil /\ db' = After(db, q)
  BY DEF Handle
<1>2. calls[c][i] \in Calls /\ q \in Requests /\ db \in Sound
  BY <1>1 DEF AppInv, TypeOK, Calls
<1>3. db' \in Sound /\ db' \in Databases
  BY <1>1, <1>2, AfterSound DEF Sound
<1>4. Told(db', q) \in [Names -> Nat \cup {Nil}] /\ Nothing \in [Names -> Nat \cup {Nil}]
  BY <1>2, <1>3, ToldTyped DEF Nothing
<1>5. NoneLetThrough(used.logins)
  <2>1. Reply(c, i, "ok", Told(db', q)) \/ Reply(c, i, "refused", Nothing)
    BY <1>1 DEF Handle
  <2> QED
    BY <1>1, <1>4, <2>1, Replied
<1>6. /\ queue' \in [Clients -> Seq({"supplies", "other"})] /\ blemish' \in [Clients -> BOOLEAN]
      /\ StreamsOfPages'
  <2>1. CASE UNCHANGED <<queue, blemish>>
    BY <1>1, <2>1 DEF AppInv, TypeOK, StreamsOfPages
  <2>2. CASE Publish("supplies")
    BY <1>1, <2>2, Published
  <2> QED
    BY <2>1, <2>2 DEF Handle
<1>7. GuardHolds'
  BY <1>1, <1>5, StillGood
<1>8. NumbersIssued'
  BY <1>1, <1>5 DEF NoneLetThrough, AppInv, NumbersIssued
<1>9. TypeOK'
  BY <1>1, <1>3, <1>5, <1>6 DEF NoneLetThrough, AppInv, TypeOK, AllCalls
<1> QED
  BY <1>3, <1>6, <1>7, <1>8, <1>9 DEF AppInv

LEMMA AccessStep ==
    ASSUME AppInv, NEW c \in Clients, ChangeAccess(c)
    PROVE  AppInv'
<1>1. /\ UNCHANGED <<db, cookie, shown, drafts, calls, stream>>
      /\ access' = [access EXCEPT ![c] = ~@] /\ session' = [session EXCEPT ![c] = 0]
      /\ used' = [used EXCEPT !.changes = @ + 1]
  BY DEF ChangeAccess, SignedOut
<1>2. /\ access \in [Clients -> BOOLEAN] /\ session \in [Clients -> 0 .. MaxLogins]
      /\ used \in [calls : Nat, logins : Nat, crashes : Nat, changes : Nat]
  BY DEF AppInv, TypeOK
<1>3. used'.logins = used.logins /\ used' \in [calls : Nat, logins : Nat, crashes : Nat, changes : Nat]
  BY <1>1, <1>2
<1>4. access' \in [Clients -> BOOLEAN] /\ session' \in [Clients -> 0 .. MaxLogins]
  <2>1. access' \in [Clients -> BOOLEAN]
    BY <1>1, <1>2
  <2>2. session' \in [Clients -> 0 .. MaxLogins]
    BY <1>1, <1>2, BoundsAssumption
  <2> QED
    BY <2>1, <2>2
<1>5. /\ queue' \in [Clients -> Seq({"supplies", "other"})] /\ blemish' \in [Clients -> BOOLEAN]
      /\ StreamsOfPages'
  BY <1>1, Published DEF ChangeAccess
<1>6. NoneLetThrough(used.logins)
  BY <1>1 DEF NoneLetThrough, AppInv, TypeOK, NumbersIssued, AllCalls
<1>7. \A d \in Clients : \/ session'[d] = session[d] /\ access'[d] = access[d]
                         \/ session'[d] = 0
  BY <1>1, <1>2
<1>8. GuardHolds'
  BY <1>6, <1>7, StillGood
<1>9. NumbersIssued'
  BY <1>1, <1>2, <1>3, <1>7 DEF AppInv, NumbersIssued
<1>10. TypeOK'
  BY <1>1, <1>3, <1>4, <1>5 DEF AppInv, TypeOK
<1>11. db' \in Sound
  BY <1>1 DEF AppInv
<1> QED
  BY <1>5, <1>8, <1>9, <1>10, <1>11 DEF AppInv

LEMMA CrashStep ==
    ASSUME AppInv, Crash
    PROVE  AppInv'
<1>1. /\ UNCHANGED <<access, session, cookie, shown, drafts>>
      /\ used' = [used EXCEPT !.crashes = @ + 1]
      /\ stream' = [c \in Clients |->
           IF stream[c] \in {"admitted", "open"} THEN "connecting" ELSE stream[c]]
      /\ queue' = [c \in Clients |-> <<>>]
      /\ blemish' = [c \in Clients |-> blemish[c] \/ cookie[c] # 0]
  BY DEF Crash
<1>2. used'.logins = used.logins /\ used' \in [calls : Nat, logins : Nat, crashes : Nat, changes : Nat]
  <2>1. used \in [calls : Nat, logins : Nat, crashes : Nat, changes : Nat]
    BY DEF AppInv, TypeOK
  <2> QED
    BY <1>1, <2>1
<1>3. db' \in Sound
  <2>1. CASE db' = db
    BY <2>1 DEF AppInv
  <2>2. ASSUME NEW c \in Clients, NEW i \in Out(c), NEW d \in Range(Units(db, calls[c][i].q)), db' = d
        PROVE  db' \in Sound
    <3>1. calls[c][i].q \in Requests /\ db \in Sound
      BY DEF Out, AppInv, TypeOK, Calls
    <3>2. Units(db, calls[c][i].q) \in Seq(Sound)
      BY <3>1, UnitsSound
    <3> QED
      BY <2>2, <3>2 DEF Range
  <2> QED
    BY <2>1, <2>2 DEF Crash
<1>4. NoneLetThrough(used.logins)
  <2> DEFINE failed(c, i) == [calls[c][i] EXCEPT !.stage = "answered", !.code = "failed"]
  <2>1. calls' = [c \in Clients |-> [i \in Slots |->
           IF calls[c][i] = Nil \/ calls[c][i].stage = "answered" THEN calls[c][i] ELSE failed(c, i)]]
    BY DEF Crash
  <2>2. calls \in AllCalls
    BY DEF AppInv, TypeOK, AllCalls
  <2>3. ASSUME NEW c \in Clients, NEW i \in Slots, calls[c][i] # Nil
        PROVE  /\ failed(c, i) \in Calls /\ failed(c, i).stage = "answered"
               /\ failed(c, i).cookie = calls[c][i].cookie
    <3> DEFINE k == calls[c][i]
    <3>1. k \in Calls
      BY <2>2, <2>3 DEF AllCalls
    <3> HIDE DEF k
    <3>2. LET r == [k EXCEPT !.stage = "answered", !.code = "failed"]
          IN  r \in Calls /\ r.stage = "answered" /\ r.cookie = k.cookie
      BY <3>1 DEF Calls
    <3> QED
      BY <3>2 DEF k
  <2> HIDE DEF failed
  <2>4. calls' \in AllCalls
    BY <2>1, <2>2, <2>3 DEF AllCalls
  <2> QED
    BY <2>1, <2>3, <2>4 DEF NoneLetThrough, AppInv, NumbersIssued
<1>5. GuardHolds'
  BY <1>1, <1>4, StillGood
<1>6. NumbersIssued'
  BY <1>1, <1>2, <1>4 DEF NoneLetThrough, AppInv, NumbersIssued
<1>7. StreamsOfPages'
  BY <1>1 DEF AppInv, StreamsOfPages, TypeOK
<1>8. /\ stream' \in [Clients -> {"off", "connecting", "admitted", "open", "closed"}]
      /\ queue' \in [Clients -> Seq({"supplies", "other"})] /\ blemish' \in [Clients -> BOOLEAN]
  BY <1>1 DEF AppInv, TypeOK
<1>9. TypeOK'
  BY <1>1, <1>2, <1>3, <1>4, <1>8 DEF NoneLetThrough, AppInv, TypeOK, AllCalls, Sound
<1> QED
  BY <1>3, <1>5, <1>6, <1>7, <1>9 DEF AppInv

-----------------------------------------------------------------------------
(* The steps of the browsers. *)

LEMMA SignInStep ==
    ASSUME AppInv, NEW c \in Clients, SignIn(c)
    PROVE  AppInv'
<1> DEFINE n == used.logins + 1
<1>1. /\ UNCHANGED <<db, access, shown, drafts, queue, blemish>> /\ cookie[c] = 0
      /\ used' = [used EXCEPT !.logins = @ + 1]
      /\ cookie' = [cookie EXCEPT ![c] = n] /\ session' = [session EXCEPT ![c] = n]
      /\ stream' = [stream EXCEPT ![c] = "connecting"]
      /\ SendUnder(c, n, List, Nil)
  BY DEF SignIn
<1>2. /\ used \in [calls : Nat, logins : Nat, crashes : Nat, changes : Nat]
      /\ session \in [Clients -> 0 .. MaxLogins] /\ cookie \in [Clients -> 0 .. MaxLogins]
      /\ stream \in [Clients -> {"off", "connecting", "admitted", "open", "closed"}]
      /\ MaxLogins \in Nat /\ used.logins < MaxLogins
  BY BoundsAssumption DEF AppInv, TypeOK, SignIn
<1>3. n \in 1 .. MaxLogins /\ n \in Nat /\ used.logins <= n
  BY <1>2
<1>4. used'.logins = n /\ used' \in [calls : Nat, logins : Nat, crashes : Nat, changes : Nat]
  BY <1>1, <1>2
<1>5. NoneLetThrough(n)
  <2>1. List \in Requests
    BY DEF Requests
  <2> QED
    BY <1>1, <1>3, <2>1, Sent
<1>6. GuardHolds'
  BY <1>1, <1>2, <1>5, StillGood
<1>7. NumbersIssued'
  <2>1. \A d \in Clients : session'[d] <= n /\ cookie'[d] <= n
    BY <1>1, <1>2, <1>3 DEF AppInv, NumbersIssued
  <2> QED
    BY <1>4, <1>5, <2>1 DEF NoneLetThrough, NumbersIssued
<1>8. StreamsOfPages'
  <2>1. queue[c] = <<>>
    BY <1>1 DEF AppInv, StreamsOfPages
  <2> QED
    BY <1>1, <1>2, <1>3, <2>1 DEF AppInv, StreamsOfPages
<1>9. TypeOK'
  <2>1. cookie' \in [Clients -> 0 .. MaxLogins] /\ session' \in [Clients -> 0 .. MaxLogins]
    BY <1>1, <1>2, <1>3
  <2>2. stream' \in [Clients -> {"off", "connecting", "admitted", "open", "closed"}]
    BY <1>1, <1>2
  <2> QED
    BY <1>1, <1>4, <1>5, <2>1, <2>2 DEF NoneLetThrough, AppInv, TypeOK, AllCalls
<1> QED
  BY <1>1, <1>6, <1>7, <1>8, <1>9 DEF AppInv

\* A form is sent: what stays and what is counted.
LEMMA UserStep ==
    ASSUME AppInv, NEW c \in Clients, User(c), NEW q \in Requests, NEW previous \in Int \cup {Nil},
           Send(c, q, previous), shown' \in [Clients -> [Names -> Int \cup {Nil}]],
           drafts' \in [Clients -> SUBSET Slots]
    PROVE  AppInv'
<1>1. /\ UNCHANGED <<db, access, session, cookie, stream, queue, blemish>> /\ cookie[c] # 0
      /\ used' = [used EXCEPT !.calls = @ + 1] /\ SendUnder(c, cookie[c], q, previous)
  BY DEF User, Send
<1>2. used \in [calls : Nat, logins : Nat, crashes : Nat, changes : Nat]
  BY DEF AppInv, TypeOK
<1>3. used'.logins = used.logins /\ used' \in [calls : Nat, logins : Nat, crashes : Nat, changes : Nat]
  BY <1>1, <1>2
<1>4. cookie[c] \in 1 .. MaxLogins /\ cookie[c] <= used.logins
  BY <1>1, BoundsAssumption DEF AppInv, TypeOK, NumbersIssued
<1>5. NoneLetThrough(used.logins)
  BY <1>1, <1>2, <1>4, Sent
<1>6. GuardHolds'
  BY <1>1, <1>5, StillGood
<1>7. NumbersIssued' /\ StreamsOfPages'
  BY <1>1, <1>3, <1>5 DEF NoneLetThrough, AppInv, NumbersIssued, StreamsOfPages
<1>8. TypeOK'
  BY <1>1, <1>3, <1>5 DEF NoneLetThrough, AppInv, TypeOK, AllCalls
<1> QED
  BY <1>1, <1>6, <1>7, <1>8 DEF AppInv

LEMMA FormSteps ==
    ASSUME AppInv, NEW c \in Clients,
           \/ \E q \in Adjustments(Changes) : Adjust(c, q.name, q.change)
           \/ \E q \in Creations(Quantities) : Create(c, q)
           \/ \E q \in Runs(Quantities) : Run(c, q)
    PROVE  AppInv'
<1>1. shown \in [Clients -> [Names -> Int \cup {Nil}]] /\ drafts \in [Clients -> SUBSET Slots]
  BY DEF AppInv, TypeOK
<1>2. ASSUME NEW q \in Adjustments(Changes), Adjust(c, q.name, q.change)
      PROVE  AppInv'
  <2>1. /\ q = [op |-> "adjust", name |-> q.name, change |-> q.change] /\ q \in Requests
        /\ q.name \in Names /\ q.change \in Int
    BY <1>2, BoundsAssumption DEF Adjustments, Requests
  <2>2. /\ User(c) /\ shown[c][q.name] # Nil /\ UNCHANGED drafts
        /\ shown' = [shown EXCEPT ![c][q.name] = @ + q.change]
        /\ Send(c, q, shown[c][q.name])
    BY <1>2, <2>1 DEF Adjust
  <2>3. shown[c][q.name] \in Int
    BY <1>1, <2>1, <2>2
  <2>4. shown' \in [Clients -> [Names -> Int \cup {Nil}]]
    BY <1>1, <2>1, <2>2, <2>3
  <2> QED
    BY <1>1, <2>1, <2>2, <2>3, <2>4, UserStep
<1>3. ASSUME NEW q \in Creations(Quantities), Create(c, q)
      PROVE  AppInv'
  <2>1. q \in Requests
    BY DEF Requests
  <2>2. /\ User(c) /\ Send(c, q, Nil) /\ UNCHANGED shown
        /\ drafts' = [drafts EXCEPT ![c] = @ \cup {First(c)}]
    BY <1>3 DEF Create
  <2>3. First(c) \in Slots
    BY <2>2, FirstVacant DEF User, Vacant
  <2>4. drafts' \in [Clients -> SUBSET Slots]
    BY <1>1, <2>2, <2>3
  <2> QED
    BY <1>1, <2>1, <2>2, <2>4, UserStep
<1>4. ASSUME NEW q \in Runs(Quantities), Run(c, q)
      PROVE  AppInv'
  <2>1. q \in Requests
    BY DEF Requests
  <2> QED
    BY <1>1, <1>4, <2>1, UserStep DEF Run
<1> QED
  BY <1>2, <1>3, <1>4

\* A page goes with its stream.
LEMMA Left ==
    ASSUME AppInv, NEW c \in Clients, Leave(c), NoneLetThrough(used.logins),
           UNCHANGED <<db, access, used>>
    PROVE  AppInv'
<1>1. /\ cookie' = [cookie EXCEPT ![c] = 0] /\ session' = [session EXCEPT ![c] = 0]
      /\ shown' = [shown EXCEPT ![c] = Nothing] /\ drafts' = [drafts EXCEPT ![c] = {}]
      /\ stream' = [stream EXCEPT ![c] = "off"] /\ queue' = [queue EXCEPT ![c] = <<>>]
      /\ blemish' = [blemish EXCEPT ![c] = FALSE]
  BY DEF Leave
<1>2. TypeOK /\ MaxLogins \in Nat /\ used.logins \in Nat
  BY BoundsAssumption DEF AppInv, TypeOK
<1>3. \A d \in Clients : /\ session'[d] \in {session[d], 0} /\ cookie'[d] \in {cookie[d], 0}
                         /\ d # c => /\ cookie'[d] = cookie[d] /\ stream'[d] = stream[d]
                                     /\ queue'[d] = queue[d]
  BY <1>1, <1>2 DEF TypeOK
<1>4. GuardHolds'
  BY <1>3, StillGood
<1>5. NumbersIssued'
  BY <1>2, <1>3 DEF NoneLetThrough, AppInv, NumbersIssued
<1>6. StreamsOfPages'
  <2>1. stream'[c] = "off" /\ queue'[c] = <<>>
    BY <1>1, <1>2 DEF TypeOK
  <2> QED
    BY <1>3, <2>1 DEF AppInv, StreamsOfPages
<1>7. TypeOK'
  <2>1. cookie' \in [Clients -> 0 .. MaxLogins] /\ session' \in [Clients -> 0 .. MaxLogins]
    BY <1>1, <1>2 DEF TypeOK
  <2>2. shown' \in [Clients -> [Names -> Int \cup {Nil}]] /\ drafts' \in [Clients -> SUBSET Slots]
    BY <1>1, <1>2 DEF TypeOK, Nothing
  <2>3. /\ stream' \in [Clients -> {"off", "connecting", "admitted", "open", "closed"}]
        /\ queue' \in [Clients -> Seq({"supplies", "other"})] /\ blemish' \in [Clients -> BOOLEAN]
    BY <1>1, <1>2 DEF TypeOK
  <2> QED
    BY <1>2, <2>1, <2>2, <2>3 DEF NoneLetThrough, TypeOK, AllCalls
<1> QED
  BY <1>4, <1>5, <1>6, <1>7 DEF AppInv

\* What an answer puts into the panel.
LEMMA ShowsTyped ==
    ASSUME AppInv, NEW c \in Clients, NEW i \in Slots, calls[c][i] # Nil, Shows(c, i)
    PROVE  shown' \in [Clients -> [Names -> Int \cup {Nil}]] /\ drafts' \in [Clients -> SUBSET Slots]
<1> DEFINE k == calls[c][i]
           q == k.q
<1>1. k \in Calls /\ shown \in [Clients -> [Names -> Int \cup {Nil}]] /\ drafts \in [Clients -> SUBSET Slots]
  BY DEF AppInv, TypeOK
<1>2. k.listing \in [Names -> Nat \cup {Nil}] /\ k.previous \in Int \cup {Nil} /\ q \in Requests
  BY <1>1 DEF Calls
<1>3. CASE q.op = "list" /\ k.code = "ok"
  <2>1. shown' = [shown EXCEPT ![c] = k.listing] /\ drafts' = [drafts EXCEPT ![c] = {}]
    BY <1>3 DEF Shows
  <2> HIDE DEF k
  <2> QED
    BY <1>1, <1>2, <2>1
<1>4. CASE q.op = "adjust"
  <2> DEFINE v == IF k.code = "ok" THEN k.listing[q.name] ELSE k.previous
  <2>1. Row(c, q.name, v) /\ UNCHANGED drafts
    BY <1>4 DEF Shows
  <2>2. v \in Int \cup {Nil}
    <3>1. q.name \in Names
      BY <1>2, <1>4, RequestFields
    <3> QED
      BY <1>2, <3>1
  <2> HIDE DEF k, v
  <2> QED
    BY <1>1, <2>1, <2>2 DEF Row
<1>5. CASE q.op = "create"
  <2>1. /\ drafts' = [drafts EXCEPT ![c] = @ \ {i}]
        /\ \/ shown' = shown \/ shown' = [shown EXCEPT ![c][q.name] = k.listing[q.name]]
    BY <1>5 DEF Shows
  <2>2. drafts' \in [Clients -> SUBSET Slots]
    BY <1>1, <2>1
  <2>3. q.name \in Names => k.listing[q.name] \in Int \cup {Nil}
    BY <1>2
  <2> HIDE DEF k, q
  <2> QED
    BY <1>1, <2>1, <2>2, <2>3
<1>6. CASE q.op = "run" \/ (q.op = "list" /\ k.code # "ok")
  BY <1>1, <1>6 DEF Shows
<1> QED
  BY <1>2, <1>3, <1>4, <1>5, <1>6, RequestFields

LEMMA ArriveStep ==
    ASSUME AppInv, NEW c \in Clients, NEW i \in Slots, Arrive(c, i)
    PROVE  AppInv'
<1>1. CASE Forget(c, i)
  <2>1. UNCHANGED <<db, access, session, page, queue, used>> /\ Arrived(c, i, FALSE)
    BY <1>1 DEF Forget
  <2>2. NoneLetThrough(used.logins)
    BY <2>1, HasArrived
  <2>3. GuardHolds'
    BY <2>1, <2>2, StillGood
  <2>4. NumbersIssued' /\ StreamsOfPages'
    BY <2>1, <2>2 DEF NoneLetThrough, AppInv, NumbersIssued, StreamsOfPages, page
  <2>5. TypeOK'
    BY <2>1, <2>2 DEF NoneLetThrough, AppInv, TypeOK, AllCalls, page
  <2> QED
    BY <2>1, <2>3, <2>4, <2>5 DEF AppInv
<1>2. CASE Receive(c, i)
  <2>1. /\ UNCHANGED <<db, access, session, cookie, stream, queue, used>>
        /\ Arrived(c, i, TRUE) /\ Shows(c, i) /\ calls[c][i] # Nil
    BY <1>2 DEF Receive
  <2>2. NoneLetThrough(used.logins)
    BY <2>1, HasArrived
  <2>3. shown' \in [Clients -> [Names -> Int \cup {Nil}]] /\ drafts' \in [Clients -> SUBSET Slots]
    BY <2>1, ShowsTyped
  <2>4. blemish' \in [Clients -> BOOLEAN]
    <3>1. blemish \in [Clients -> BOOLEAN] /\ calls[c][i] \in Calls
      BY <2>1 DEF AppInv, TypeOK
    <3> DEFINE k == calls[c][i]
               spoilt == \/ k.late
                         \/ k.code # "ok" /\ (k.q.op = "list" \/ (k.q.op = "adjust" /\ k.moved))
    <3>2. blemish' = [blemish EXCEPT ![c] = blemish[c] \/ spoilt]
      BY <1>2 DEF Receive
    <3>3. spoilt \in BOOLEAN
      BY <3>1 DEF Calls
    <3> HIDE DEF spoilt
    <3>4. (blemish[c] \/ spoilt) \in BOOLEAN
      BY <3>1, <3>3
    <3> QED
      BY <3>1, <3>2, <3>4
  <2>5. GuardHolds'
    BY <2>1, <2>2, StillGood
  <2>6. NumbersIssued' /\ StreamsOfPages'
    BY <2>1, <2>2 DEF NoneLetThrough, AppInv, NumbersIssued, StreamsOfPages
  <2>7. TypeOK'
    BY <2>1, <2>2, <2>3, <2>4 DEF NoneLetThrough, AppInv, TypeOK, AllCalls
  <2> QED
    BY <2>1, <2>5, <2>6, <2>7 DEF AppInv
<1>3. CASE ReceiveOut(c, i)
  BY <1>3, HasArrived, Left DEF ReceiveOut
<1> QED
  BY <1>1, <1>2, <1>3 DEF Arrive

LEMMA StreamStep ==
    ASSUME AppInv, NEW c \in Clients, Listen(c) \/ Beat(c)
    PROVE  AppInv'
<1>1. /\ stream \in [Clients -> {"off", "connecting", "admitted", "open", "closed"}]
      /\ queue \in [Clients -> Seq({"supplies", "other"})]
  BY DEF AppInv, TypeOK
<1>2. UNCHANGED calls => NoneLetThrough(used.logins)
  BY DEF NoneLetThrough, AppInv, TypeOK, NumbersIssued, AllCalls
<1>3. CASE Connect(c) \/ Subscribe(c)
  <2>1. UNCHANGED <<db, access, session, cookie, shown, drafts, calls, queue, blemish, used>>
    BY <1>3 DEF Connect, Subscribe
  <2>2. PICK s \in {"admitted", "open", "closed"} :
            stream[c] \in {"connecting", "admitted"} /\ stream' = [stream EXCEPT ![c] = s]
    BY <1>3 DEF Connect, Subscribe
  <2>3. stream' \in [Clients -> {"off", "connecting", "admitted", "open", "closed"}]
    BY <1>1, <2>2
  <2>4. StreamsOfPages'
    BY <1>1, <2>1, <2>2 DEF AppInv, StreamsOfPages
  <2>5. GuardHolds' /\ NumbersIssued'
    BY <2>1 DEF AppInv, GuardHolds, NumbersIssued, Out, Known
  <2>6. TypeOK'
    BY <2>1, <2>3 DEF AppInv, TypeOK
  <2> QED
    BY <2>1, <2>4, <2>5, <2>6 DEF AppInv
<1>4. CASE Deliver(c)
  <2>1. /\ UNCHANGED <<db, access, session, page, used>>
        /\ queue[c] # <<>> /\ queue' = [queue EXCEPT ![c] = Tail(@)]
        /\ Send(c, List, Nil) \/ UNCHANGED calls
    BY <1>4 DEF Deliver
  <2>2. cookie[c] \in 1 .. MaxLogins /\ cookie[c] <= used.logins /\ used.logins \in Nat
    BY <2>1, BoundsAssumption DEF AppInv, TypeOK, StreamsOfPages, NumbersIssued
  <2>3. NoneLetThrough(used.logins)
    <3>1. List \in Requests
      BY DEF Requests
    <3>2. CASE SendUnder(c, cookie[c], List, Nil)
      <4> DEFINE n == used.logins
      <4>1. n \in Nat /\ n <= n
        BY <2>2
      <4> QED
        BY <2>2, <3>1, <3>2, <4>1, Sent
    <3> QED
      BY <1>2, <2>1, <3>2 DEF Send
  <2>4. queue' \in [Clients -> Seq({"supplies", "other"})]
    BY <1>1, <2>1
  <2>5. StreamsOfPages'
    BY <1>1, <2>1 DEF AppInv, StreamsOfPages, page
  <2>6. GuardHolds'
    BY <2>1, <2>3, StillGood
  <2>7. NumbersIssued'
    BY <2>1, <2>3 DEF NoneLetThrough, AppInv, NumbersIssued, page
  <2>8. TypeOK'
    BY <2>1, <2>3, <2>4 DEF NoneLetThrough, AppInv, TypeOK, AllCalls, page
  <2> QED
    BY <2>1, <2>5, <2>6, <2>7, <2>8 DEF AppInv
<1>5. CASE Invalidated(c)
  BY <1>2, <1>5, Left DEF Invalidated
<1>6. CASE Beat(c)
  <2>1. /\ UNCHANGED <<db, access, session, page, calls, used>> /\ stream[c] = "open"
        /\ queue' = [queue EXCEPT ![c] = <<"other">>]
    BY <1>6 DEF Beat
  <2>2. queue' \in [Clients -> Seq({"supplies", "other"})]
    BY <1>1, <2>1
  <2>3. StreamsOfPages'
    BY <1>1, <2>1 DEF AppInv, StreamsOfPages, page
  <2>4. GuardHolds' /\ NumbersIssued'
    BY <2>1 DEF AppInv, GuardHolds, NumbersIssued, Out, Known, page
  <2>5. TypeOK'
    BY <2>1, <2>2 DEF AppInv, TypeOK, page
  <2> QED
    BY <2>1, <2>3, <2>4, <2>5 DEF AppInv
<1> QED
  BY <1>3, <1>4, <1>5, <1>6 DEF Listen

-----------------------------------------------------------------------------

LEMMA AppInvHolds == Spec => []AppInv
<1>1. Init => AppInv
  BY AppInvInit
<1>2. AppInv /\ [Next]_vars => AppInv'
  <2> SUFFICES ASSUME AppInv, [Next]_vars PROVE AppInv'
    OBVIOUS
  <2>1. CASE UNCHANGED vars
    BY <2>1, Unchanged
  <2>2. ASSUME NEW c \in Clients, NEW i \in Slots, Serve(c, i) \/ Arrive(c, i)
        PROVE  AppInv'
    BY <2>2, GuardStep, HandleStep, ArriveStep DEF Serve
  <2>3. ASSUME NEW c \in Clients, Listen(c) \/ Beat(c) \/ Users(c) \/ ChangeAccess(c)
        PROVE  AppInv'
    BY <2>3, StreamStep, SignInStep, FormSteps, AccessStep DEF Users
  <2>4. CASE Crash
    BY <2>4, CrashStep
  <2> QED
    BY <2>1, <2>2, <2>3, <2>4 DEF Next
<1> QED
  BY <1>1, <1>2, PTL DEF Spec

\* Types, for any number of browsers and calls: no stock is ever negative, each
\* call has a slot of its own, and a page asks under a session that was given.
THEOREM TypeCorrect == Spec => []TypeOK
<1>1. AppInv => TypeOK
  BY DEF AppInv
<1> QED
  BY <1>1, AppInvHolds, PTL

\* Orders are paid for in material, exactly, after every statement that a handler
\* commits and wherever the process dies between two.
THEOREM OrdersCorrect == Spec => []OrdersPaid
<1>1. AppInv => OrdersPaid
  BY DEF AppInv, Sound, Paid, OrdersPaid
<1> QED
  BY <1>1, AppInvHolds, PTL

\* Whatever prefix of the seeded supplies a death leaves, the shells are in it.
THEOREM SeedsCorrect == Spec => []ShellWithSeeds
<1>1. AppInv => ShellWithSeeds
  BY DEF AppInv, Sound, Shelled, ShellWithSeeds
<1> QED
  BY <1>1, AppInvHolds, PTL

\* What the guard let through stays allowed for as long as its session lives.
THEOREM GuardCorrect == Spec => []GuardHolds
<1>1. AppInv => GuardHolds
  BY DEF AppInv
<1> QED
  BY <1>1, AppInvHolds, PTL

-----------------------------------------------------------------------------
(* The panel.  What a page shows is put right by an answer that is on its way, *)
(* or is going to be asked for.                                                *)

\* The calls of the page that the browser shows, and those that are answered.
Mine(c) == {i \in Slots : calls[c][i] # Nil /\ calls[c][i].cookie = cookie[c]}
Given(c) == {i \in Mine(c) : calls[c][i].stage = "answered"}

\* The answers are in an order, that in which they were given.
OverKnown(c) ==
    \A i \in Slots : calls[c][i] # Nil =>
        \A j \in calls[c][i].over : calls[c][j] # Nil /\ calls[c][j].stage = "answered"
OverTotal(c) ==
    \A i, j \in Given(c) : i = j \/ i \in calls[c][j].over \/ j \in calls[c][i].over

\* A draft is of a call, and a row was there when it was clicked.
DraftsOut(c) == \A i \in drafts[c] : i \in Mine(c) /\ calls[c][i].q.op = "create"
Clicked(c) ==
    \A i \in Slots : calls[c][i] # Nil /\ calls[c][i].q.op = "adjust" => calls[c][i].previous # Nil

\* The supplies will be listed again.
Queued(c) == \E n \in 1 .. Len(queue[c]) : queue[c][n] = "supplies"
Reloads(c) ==
    \/ Queued(c)
    \/ \E i \in Mine(c) : calls[c][i].q.op = "list" /\ calls[c][i].stage # "answered"

\* An answer that will blemish the panel, or end the page.
Spoils(k) ==
    \/ k.late \/ k.code = "unauthorized"
    \/ k.code # "ok" /\ (k.q.op = "list" \/ (k.q.op = "adjust" /\ k.moved))
Doomed(c) == \E i \in Given(c) : Spoils(calls[c][i])

\* An answer after which the panel shows the truth, if it did before.
Harmless(k) == k.code # "ok" \/ k.q.op = "run" \/ (k.q.op = "list" /\ k.listing = Listing(db))

\* A true listing is on its way, and no answer after it undoes it.
Lists(k) == k.q.op = "list" /\ k.code = "ok" /\ k.listing = Listing(db)
Lands(c) ==
    \E i \in Given(c) :
        Lists(calls[c][i]) /\ \A j \in Given(c) : i \in calls[c][j].over => Harmless(calls[c][j])

\* An adjustment will put the row right, or blemish the panel, or make it load.
AdjustsOf(c, n) == {i \in Mine(c) : calls[c][i].q.op = "adjust" /\ calls[c][i].q.name = n}
Mends(k, n) ==
    \/ k.moved /\ k.stage # "answered"
    \/ ~k.moved /\ k.previous = Listing(db)[n] /\ (k.stage # "answered" \/ k.code # "ok")
Unsure(c, n) == \E i \in AdjustsOf(c, n) : Mends(calls[c][i], n)

\* The row is right, and will be when an adjustment is refused.
Sure(c, n) ==
    /\ shown[c][n] = Listing(db)[n]
    /\ \A i \in AdjustsOf(c, n) : calls[c][i].moved \/ calls[c][i].previous = Listing(db)[n]
Settled(c) ==
    /\ \A j \in Given(c) : Harmless(calls[c][j])
    /\ \A n \in Names : (shown[c][n] = Nil <=> Listing(db)[n] = Nil) /\ (Unsure(c, n) \/ Sure(c, n))

\* db is the same after another listing.
Seeded == Opened(db) = db

Current(c) == Reloads(c) \/ Doomed(c) \/ (Lands(c) /\ Seeded) \/ (Settled(c) /\ Seeded)
Follows(c) == cookie[c] # 0 /\ ~blemish[c] => OverTotal(c) /\ Current(c)
PanelAt(c) == OverKnown(c) /\ DraftsOut(c) /\ Clicked(c) /\ Follows(c)
PanelInv == \A c \in Clients : PanelAt(c)

-----------------------------------------------------------------------------

\* A second listing seeds nothing.
LEMMA OpenedOnce ==
    ASSUME NEW d \in Sound
    PROVE  Opened(Opened(d)) = Opened(d)
<1>1. Len(SeedItems) \in Nat /\ Shell \in Names
  BY ItemsAssumption
<1>2. CASE Empty(d) /\ Len(SeedItems) # 0
  <2> DEFINE n == Len(SeedItems)
             e == SeedPrefix(d, n)
  <2>1. SeededTo(e, n)
    BY <1>1, <1>2, PrefixSeeded
  <2>2. Opened(d) = e
    <3>1. SeedUnits(d) = [k \in 1 .. n |-> SeedPrefix(d, k)]
      BY <1>2 DEF SeedUnits
    <3>2. SeedUnits(d) # <<>> /\ Len(SeedUnits(d)) = n /\ SeedUnits(d)[n] = e
      BY <1>1, <1>2, <3>1
    <3> QED
      BY <3>2 DEF Opened, LastOf
  <2>3. ~Empty(e)
    BY <1>1, <1>2, <2>1 DEF SeededTo, Empty
  <2>4. Opened(e) = e
    BY <2>3 DEF Opened, LastOf, SeedUnits
  <2> QED
    BY <2>2, <2>4
<1>3. CASE ~Empty(d) \/ Len(SeedItems) = 0
  <2>1. SeedUnits(d) = <<>>
    BY <1>1, <1>3 DEF SeedUnits
  <2>2. Opened(d) = d
    BY <2>1 DEF Opened, LastOf
  <2> QED
    BY <2>2
<1> QED
  BY <1>2, <1>3

\* A request that is not granted, or only lists, seeds at most.
LEMMA AfterUnannounced ==
    ASSUME NEW d \in Sound, NEW q \in Requests, ~(Granted(d, q) /\ Announced(q))
    PROVE  /\ After(d, q) = d \/ After(d, q) = Opened(d)
           /\ q.op = "list" => Granted(d, q) /\ After(d, q) = Opened(d)
<1>1. ~Granted(d, q) \/ q.op = "list"
  BY RequestFields DEF Announced
<1>2. Units(d, q) = IF Seeds(q) THEN SeedUnits(d) ELSE <<>>
  <2> DEFINE first == IF Seeds(q) THEN SeedUnits(d) ELSE <<>>
  <2>1. first \in Seq(Sound)
    BY SeedUnitsSound
  <2>2. Units(d, q) = first \o <<>>
    BY <1>1 DEF Units
  <2> HIDE DEF first
  <2>3. first \o <<>> = first
    BY <2>1
  <2> QED
    BY <2>2, <2>3 DEF first
<1>3. q.op = "list" => Granted(d, q) /\ Seeds(q)
  BY DEF Granted, Valid, Seeds
<1> QED
  BY <1>2, <1>3 DEF After, LastOf, Opened

-----------------------------------------------------------------------------
(* What a step does to the calls of one page, field by field.                  *)

SameCall(k, j) ==
    /\ k.q = j.q /\ k.cookie = j.cookie /\ k.previous = j.previous
    /\ (k.stage = "answered" <=> j.stage = "answered")
    /\ k.code = j.code /\ k.listing = j.listing

\* The server works on call i.
Turned(c, i) ==
    /\ calls[c][i] # Nil /\ calls[c][i].stage # "answered" /\ calls'[c][i] # Nil
    /\ \A j \in Slots \ {i} : calls'[c][j] = calls[c][j]
    /\ calls'[c][i].q = calls[c][i].q /\ calls'[c][i].cookie = calls[c][i].cookie
    /\ calls'[c][i].previous = calls[c][i].previous
    /\ calls'[c][i].late = calls[c][i].late /\ calls'[c][i].moved = calls[c][i].moved

\* Before its answer, and with it.
TurnedOn(c, i) ==
    /\ Turned(c, i)
    /\ calls'[c][i].stage # "answered" /\ calls'[c][i].over = calls[c][i].over
    /\ calls'[c][i].code = calls[c][i].code /\ calls'[c][i].listing = calls[c][i].listing
TurnedOver(c, i, code, listing) ==
    /\ Turned(c, i)
    /\ calls'[c][i].stage = "answered" /\ calls'[c][i].code = code /\ calls'[c][i].listing = listing
    /\ calls'[c][i].over = {j \in Slots : calls[c][j] # Nil /\ calls[c][j].stage = "answered"}

\* A new call, in a slot that was free.
Added(c, i, q, under, previous) ==
    /\ i \in Slots /\ calls[c][i] = Nil /\ calls'[c][i] = Call(q, under, previous)
    /\ \A j \in Slots \ {i} : calls'[c][j] = calls[c][j]

\* Call j is told of the answer to call i.
Marked(c, j, i, moves) ==
    /\ SameCall(calls'[c][j], calls[c][j])
    /\ calls'[c][j].over = calls[c][j].over \ {i}
    /\ calls'[c][j].late <=> calls[c][j].late \/ j \in calls[c][i].over
    /\ calls'[c][j].moved <=> calls[c][j].moved \/ moves

\* Call i is gone.
Gone(c, i, moves) ==
    /\ calls'[c][i] = Nil
    /\ \A j \in Slots \ {i} : calls'[c][j] = Nil <=> calls[c][j] = Nil
    /\ \A j \in Slots \ {i} : calls[c][j] # Nil => Marked(c, j, i, moves)

\* The calls of the other browsers stay.
OtherCalls(c) == \A d \in Clients \ {c} : calls'[d] = calls[d]

LEMMA GotoTurns ==
    ASSUME AppInv, NEW c \in Clients, NEW i \in Slots, calls[c][i] # Nil,
           calls[c][i].stage # "answered",
           NEW stage \in {"guarded", "checked"}, Goto(c, i, stage)
    PROVE  TurnedOn(c, i) /\ OtherCalls(c)
<1>1. calls \in AllCalls /\ calls[c][i] \in Calls
  BY DEF AppInv, TypeOK, AllCalls
<1> DEFINE k == calls[c][i]
           r == [k EXCEPT !.stage = stage]
<1>2. calls' = [calls EXCEPT ![c][i] = r]
  BY DEF Goto
<1>3. /\ r.stage = stage /\ r.q = k.q /\ r.cookie = k.cookie /\ r.previous = k.previous
      /\ r.late = k.late /\ r.moved = k.moved /\ r.over = k.over
      /\ r.code = k.code /\ r.listing = k.listing /\ r # Nil
  <2>1. r \in Calls
    BY <1>1 DEF Calls
  <2> QED
    BY <1>1, <2>1, CallAssumption DEF Calls
<1> HIDE DEF r
<1>4. calls'[c][i] = r /\ OtherCalls(c) /\ \A j \in Slots \ {i} : calls'[c][j] = calls[c][j]
  BY <1>1, <1>2 DEF AllCalls, OtherCalls
<1> QED
  BY <1>3, <1>4 DEF TurnedOn, Turned

LEMMA ReplyTurns ==
    ASSUME AppInv, NEW c \in Clients, NEW i \in Slots, calls[c][i] # Nil,
           calls[c][i].stage # "answered",
           NEW code \in {"ok", "refused", "unauthorized", "failed"},
           NEW listing \in [Names -> Nat \cup {Nil}], Reply(c, i, code, listing)
    PROVE  TurnedOver(c, i, code, listing) /\ OtherCalls(c)
<1> DEFINE over == {j \in Out(c) : calls[c][j].stage = "answered"}
           k == calls[c][i]
           r == [k EXCEPT !.stage = "answered", !.code = code, !.listing = listing, !.over = over]
<1>1. over \in SUBSET Slots
  BY DEF Out
<1>2. k \in Calls /\ calls \in AllCalls
  BY DEF AppInv, TypeOK, AllCalls
<1>3. calls' = [calls EXCEPT ![c][i] = r]
  BY DEF Reply
<1>4. over = {j \in Slots : calls[c][j] # Nil /\ calls[c][j].stage = "answered"}
  BY DEF Out
<1>5. /\ r.stage = "answered" /\ r.code = code /\ r.listing = listing /\ r.over = over
      /\ r.q = k.q /\ r.cookie = k.cookie /\ r.previous = k.previous
      /\ r.late = k.late /\ r.moved = k.moved /\ r \in Calls
  <2> HIDE DEF over, k
  <2> QED
    BY <1>1, <1>2 DEF Calls
<1> HIDE DEF r, over
<1>6. calls'[c][i] = r /\ OtherCalls(c) /\ \A j \in Slots \ {i} : calls'[c][j] = calls[c][j]
  BY <1>2, <1>3 DEF AllCalls, OtherCalls
<1>7. r # Nil
  BY <1>5, CallAssumption
<1> QED
  BY <1>4, <1>5, <1>6, <1>7 DEF TurnedOver, Turned

LEMMA SendAdds ==
    ASSUME AppInv, NEW c \in Clients, NEW under \in 1 .. MaxLogins, NEW q \in Requests,
           NEW previous \in Int \cup {Nil}, SendUnder(c, under, q, previous)
    PROVE  /\ Added(c, First(c), q, under, previous) /\ OtherCalls(c)
           /\ Call(q, under, previous) # Nil
<1> DEFINE r == Call(q, under, previous)
<1>1. First(c) \in Slots /\ calls[c][First(c)] = Nil
  BY FirstVacant DEF SendUnder, Vacant, Out
<1>2. calls \in AllCalls
  BY DEF AppInv, TypeOK, AllCalls
<1>3. r \in Calls
  BY DEF Call, Calls, Nothing
<1>4. calls' = [calls EXCEPT ![c][First(c)] = r]
  BY DEF SendUnder
<1> HIDE DEF r
<1>5. r # Nil
  BY <1>3, CallAssumption
<1>6. calls'[c][First(c)] = r /\ OtherCalls(c) /\ \A j \in Slots \ {First(c)} : calls'[c][j] = calls[c][j]
  BY <1>1, <1>2, <1>4 DEF AllCalls, OtherCalls
<1> QED
  BY <1>1, <1>5, <1>6 DEF Added, r

LEMMA ArrivedGone ==
    ASSUME AppInv, NEW c \in Clients, NEW i \in Slots, NEW moves \in BOOLEAN,
           Arrived(c, i, moves)
    PROVE  Gone(c, i, moves) /\ OtherCalls(c)
<1>1. calls \in AllCalls
  BY DEF AppInv, TypeOK, AllCalls
<1> DEFINE mark(j) == [calls[c][j] EXCEPT !.over = @ \ {i}, !.late = @ \/ j \in calls[c][i].over,
                                          !.moved = @ \/ moves]
<1>2. calls' = [calls EXCEPT ![c] = [j \in Slots |-> IF j = i \/ calls[c][j] = Nil THEN Nil
                                                    ELSE mark(j)]]
  BY DEF Arrived
<1>3. ASSUME NEW j \in Slots, calls[c][j] # Nil
      PROVE  /\ SameCall(mark(j), calls[c][j]) /\ mark(j) # Nil
             /\ mark(j).over = calls[c][j].over \ {i}
             /\ mark(j).late <=> calls[c][j].late \/ j \in calls[c][i].over
             /\ mark(j).moved <=> calls[c][j].moved \/ moves
  <2>1. calls[c][j] \in Calls
    BY <1>1, <1>3 DEF AllCalls
  <2> DEFINE k == calls[c][j]
             o == k.over \ {i}
             l == (k.late \/ j \in calls[c][i].over)
             m == (k.moved \/ moves)
  <2>2. mark(j) = [k EXCEPT !.over = o, !.late = l, !.moved = m]
    OBVIOUS
  <2>3. o \in SUBSET Slots /\ l \in BOOLEAN /\ m \in BOOLEAN
    BY <2>1 DEF Calls
  <2> HIDE DEF mark, o, l, m
  <2>4. /\ SameCall(mark(j), k) /\ mark(j).over = o /\ mark(j) \in Calls
    BY <2>1, <2>2, <2>3 DEF Calls, SameCall
  <2>5. (mark(j).late <=> l) /\ (mark(j).moved <=> m)
    BY <2>1, <2>2, <2>3 DEF Calls
  <2>6. mark(j) # Nil
    BY <2>4, CallAssumption
  <2> QED
    BY <2>4, <2>5, <2>6 DEF o, l, m
<1> HIDE DEF mark
<1>4. /\ calls'[c][i] = Nil /\ OtherCalls(c)
      /\ \A j \in Slots : j # i /\ calls[c][j] = Nil => calls'[c][j] = Nil
      /\ \A j \in Slots : j # i /\ calls[c][j] # Nil => calls'[c][j] = mark(j)
  BY <1>1, <1>2 DEF AllCalls, OtherCalls
<1> QED
  BY <1>3, <1>4 DEF Gone, Marked

-----------------------------------------------------------------------------
(* What keeps the panel current. *)

\* The call is what it was, but for marks that doom it.
Similar(k, j) ==
    SameCall(k, j) /\ k.over \subseteq j.over /\ (j.late => k.late) /\ (k.moved <=> j.moved)

LEMMA CurrentKept ==
    ASSUME NEW c \in Clients, Mine(c) \subseteq Mine(c)', Given(c)' = Given(c),
           \A j \in Mine(c) : Similar(calls'[c][j], calls[c][j]),
           Queued(c) => Queued(c)', Seeded => db' = db, Settled(c) /\ Seeded => Settled(c)',
           Current(c)
    PROVE  Current(c)'
<1>1. CASE Reloads(c)
  <2>1. CASE Queued(c)
    BY <2>1 DEF Reloads, Current
  <2>2. ASSUME NEW i \in Mine(c), calls[c][i].q.op = "list", calls[c][i].stage # "answered"
        PROVE  Reloads(c)'
    BY <2>2 DEF Similar, SameCall, Reloads
  <2> QED
    BY <1>1, <2>1, <2>2 DEF Reloads, Current
<1>2. CASE Doomed(c)
  <2>1. PICK i \in Given(c) : Spoils(calls[c][i])
    BY <1>2 DEF Doomed
  <2>2. i \in Mine(c) /\ Similar(calls'[c][i], calls[c][i])
    BY DEF Given
  <2>3. Spoils(calls'[c][i])
    BY <2>1, <2>2 DEF Similar, SameCall, Spoils
  <2>4. Doomed(c)'
    BY <2>3 DEF Doomed, Spoils
  <2> QED
    BY <2>4 DEF Current
<1>3. CASE Lands(c) /\ Seeded
  <2>1. PICK i \in Given(c) : Lists(calls[c][i]) /\ \A j \in Given(c) : i \in calls[c][j].over => Harmless(calls[c][j])
    BY <1>3 DEF Lands
  <2>2. \A j \in Given(c) : Similar(calls'[c][j], calls[c][j])
    BY DEF Given
  <2>3. db' = db
    BY <1>3
  <2>4. Lists(calls[c][i])'
    BY <2>1, <2>2, <2>3 DEF Lists, Similar, SameCall
  <2>5. ASSUME NEW j \in Given(c), i \in calls'[c][j].over PROVE Harmless(calls[c][j])'
    BY <2>1, <2>2, <2>3, <2>5 DEF Harmless, Similar, SameCall
  <2>6. Lands(c)' /\ Seeded'
    BY <1>3, <2>3, <2>4, <2>5 DEF Lands, Seeded
  <2> QED
    BY <2>6 DEF Current
<1>4. CASE Settled(c) /\ Seeded
  BY <1>4 DEF Current, Seeded
<1> QED
  BY <1>1, <1>2, <1>3, <1>4 DEF Current

LEMMA SettledKept ==
    ASSUME NEW c \in Clients, Given(c)' = Given(c), db' = db, shown'[c] = shown[c],
           \A j \in Mine(c) : Similar(calls'[c][j], calls[c][j]),
           \A n \in Names : AdjustsOf(c, n)' = AdjustsOf(c, n),
           Settled(c)
    PROVE  Settled(c)'
<1>1. \A j \in Given(c) : Harmless(calls[c][j])'
  BY DEF Settled, Given, Similar, SameCall, Harmless
<1>2. ASSUME NEW n \in Names PROVE Unsure(c, n) => Unsure(c, n)'
  <2> SUFFICES ASSUME NEW i \in AdjustsOf(c, n), Mends(calls[c][i], n) PROVE Unsure(c, n)'
    BY DEF Unsure
  <2>1. Similar(calls'[c][i], calls[c][i])
    BY DEF AdjustsOf
  <2>2. Mends(calls[c][i], n)'
    BY <2>1 DEF Mends, Similar, SameCall
  <2> QED
    BY <1>2, <2>2 DEF Unsure
<1>3. ASSUME NEW n \in Names PROVE Sure(c, n) => Sure(c, n)'
  <2>1. \A i \in AdjustsOf(c, n) : Similar(calls'[c][i], calls[c][i])
    BY DEF AdjustsOf
  <2> QED
    BY <1>3, <2>1 DEF Sure, Similar, SameCall
<1> QED
  BY <1>1, <1>2, <1>3 DEF Settled

\* A call of the server's on a page that is not the one shown, or none.
LEMMA Apart ==
    ASSUME NEW c \in Clients, Mine(c)' = Mine(c),
           \A j \in Mine(c) : Similar(calls'[c][j], calls[c][j]), shown'[c] = shown[c],
           Queued(c) => Queued(c)', Seeded => db' = db, Current(c)
    PROVE  Current(c)'
<1>1. Given(c)' = Given(c)
  BY DEF Given, Similar, SameCall
<1>2. \A n \in Names : AdjustsOf(c, n)' = AdjustsOf(c, n)
  BY DEF AdjustsOf, Similar, SameCall
<1>3. Settled(c) /\ Seeded => Settled(c)'
  BY <1>1, <1>2, SettledKept
<1> QED
  BY <1>1, <1>3, CurrentKept

\* Nothing happens to the page.
LEMMA PageKept ==
    ASSUME NEW c \in Clients, PanelAt(c), calls'[c] = calls[c], cookie'[c] = cookie[c],
           drafts'[c] = drafts[c], shown'[c] = shown[c], blemish[c] => blemish'[c],
           cookie[c] # 0 /\ ~blemish'[c] =>
               Queued(c)' \/ ((Queued(c) => Queued(c)') /\ (Seeded => db' = db))
    PROVE  PanelAt(c)'
<1>1. Mine(c)' = Mine(c) /\ Given(c)' = Given(c)
  BY DEF Mine, Given
<1>2. OverKnown(c)' /\ DraftsOut(c)' /\ Clicked(c)' /\ (OverTotal(c)' <=> OverTotal(c))
  BY <1>1 DEF PanelAt, OverKnown, DraftsOut, Clicked, OverTotal
<1>3. ASSUME cookie[c] # 0, ~blemish'[c] PROVE OverTotal(c)' /\ Current(c)'
  <2>1. OverTotal(c) /\ Current(c)
    BY <1>3 DEF PanelAt, Follows
  <2>2. CASE Queued(c)'
    BY <1>2, <2>1, <2>2 DEF Current, Reloads
  <2>3. CASE (Queued(c) => Queued(c)') /\ (Seeded => db' = db)
    <3>1. \A j \in Mine(c) : Similar(calls'[c][j], calls[c][j])
      BY DEF Similar, SameCall
    <3> QED
      BY <1>1, <1>2, <2>1, <2>3, <3>1, Apart
  <2> QED
    BY <1>3, <2>2, <2>3
<1> QED
  BY <1>2, <1>3 DEF PanelAt, Follows

-----------------------------------------------------------------------------
(* The server's answers. *)

LEMMA OverSlots ==
    ASSUME AppInv, NEW c \in Clients, NEW i \in Slots, calls[c][i] # Nil
    PROVE  calls[c][i].over \subseteq Slots
BY DEF AppInv, TypeOK, Calls

LEMMA TurnedKeeps ==
    ASSUME AppInv, NEW c \in Clients, NEW i \in Slots, NEW code, NEW listing,
           TurnedOn(c, i) \/ TurnedOver(c, i, code, listing),
           cookie'[c] = cookie[c], drafts'[c] = drafts[c], PanelAt(c)
    PROVE  /\ OverKnown(c)' /\ DraftsOut(c)' /\ Clicked(c)' /\ Mine(c)' = Mine(c)
           /\ OverTotal(c) => OverTotal(c)'
           /\ TurnedOn(c, i) => Given(c)' = Given(c)
           /\ TurnedOver(c, i, code, listing) => Given(c)' = Given(c) \cup ({i} \cap Mine(c))
           /\ \A j \in Slots : calls[c][j] # Nil => i \notin calls[c][j].over
<1>1. Turned(c, i) /\ OverKnown(c) /\ DraftsOut(c) /\ Clicked(c)
  BY DEF TurnedOn, TurnedOver, PanelAt
<1>0. ASSUME NEW j \in Slots
      PROVE  /\ calls'[c][j] = Nil <=> calls[c][j] = Nil
             /\ calls[c][j] # Nil => /\ calls'[c][j].q = calls[c][j].q
                                    /\ calls'[c][j].cookie = calls[c][j].cookie
                                    /\ calls'[c][j].previous = calls[c][j].previous
  <2>1. CASE j = i
    BY <1>1, <2>1 DEF Turned
  <2>2. CASE j # i
    BY <1>1, <2>2 DEF Turned
  <2> QED
    BY <2>1, <2>2
<1>2. Mine(c)' = Mine(c)
  BY <1>0 DEF Mine
<1>3. \A j \in Slots : calls[c][j] # Nil => i \notin calls[c][j].over
  BY <1>1 DEF Turned, OverKnown
<1>4. DraftsOut(c)' /\ Clicked(c)'
  <2>1. DraftsOut(c)'
    BY <1>0, <1>1, <1>2 DEF DraftsOut, Mine
  <2>2. Clicked(c)'
    BY <1>0, <1>1 DEF Clicked
  <2> QED
    BY <2>1, <2>2
<1>5. CASE TurnedOn(c, i)
  <2>1. \A j \in Slots : calls[c][j] # Nil =>
            /\ calls'[c][j].over = calls[c][j].over
            /\ calls'[c][j].stage = "answered" <=> calls[c][j].stage = "answered"
    <3> SUFFICES ASSUME NEW j \in Slots, calls[c][j] # Nil
                 PROVE  /\ calls'[c][j].over = calls[c][j].over
                        /\ calls'[c][j].stage = "answered" <=> calls[c][j].stage = "answered"
      OBVIOUS
    <3>1. CASE j = i
      BY <1>5, <3>1 DEF TurnedOn, Turned
    <3>2. CASE j # i
      BY <1>1, <3>2 DEF Turned
    <3> QED
      BY <3>1, <3>2
  <2>2. Given(c)' = Given(c)
    BY <1>2, <2>1 DEF Given, Mine
  <2>3. OverKnown(c)'
    <3> SUFFICES ASSUME NEW x \in Slots, calls'[c][x] # Nil, NEW j \in calls'[c][x].over
                 PROVE  calls'[c][j] # Nil /\ calls'[c][j].stage = "answered"
      BY DEF OverKnown
    <3>1. calls[c][x] # Nil /\ j \in calls[c][x].over
      BY <1>0, <2>1
    <3>2. calls[c][j] # Nil /\ calls[c][j].stage = "answered" /\ j \in Slots
      BY <1>1, <3>1, OverSlots DEF OverKnown
    <3> QED
      BY <1>0, <2>1, <3>2
  <2>4. OverTotal(c) => OverTotal(c)'
    BY <2>1, <2>2 DEF OverTotal, Given, Mine
  <2>5. ~TurnedOver(c, i, code, listing)
    BY <1>5 DEF TurnedOn, TurnedOver
  <2> QED
    BY <1>2, <1>3, <1>4, <1>5, <2>2, <2>3, <2>4, <2>5
<1>6. CASE TurnedOver(c, i, code, listing)
  <2>1. /\ \A j \in Slots \ {i} : calls'[c][j] = calls[c][j]
        /\ calls'[c][i] # Nil /\ calls'[c][i].stage = "answered" /\ calls[c][i].stage # "answered"
    BY <1>6 DEF TurnedOver, Turned
  <2>2. Given(c)' = Given(c) \cup ({i} \cap Mine(c))
    <3>1. \A j \in Mine(c) \ {i} : j \in Given(c)' <=> j \in Given(c)
      BY <1>2, <2>1 DEF Given, Mine
    <3>2. i \in Mine(c) => i \in Given(c)'
      BY <1>2, <2>1 DEF Given
    <3> QED
      BY <1>2, <2>1, <3>1, <3>2 DEF Given
  <2>3. calls'[c][i].over = {j \in Slots : calls[c][j] # Nil /\ calls[c][j].stage = "answered"}
    BY <1>6 DEF TurnedOver
  <2>4. OverKnown(c)'
    <3> SUFFICES ASSUME NEW x \in Slots, calls'[c][x] # Nil, NEW j \in calls'[c][x].over
                 PROVE  calls'[c][j] # Nil /\ calls'[c][j].stage = "answered"
      BY DEF OverKnown
    <3>1. j \in Slots /\ calls[c][j] # Nil /\ calls[c][j].stage = "answered"
      <4>1. CASE x = i
        BY <2>3, <4>1
      <4>2. CASE x # i
        <5>1. calls[c][x] # Nil /\ j \in calls[c][x].over
          BY <2>1, <4>2
        <5> QED
          BY <1>1, <5>1, OverSlots DEF OverKnown
      <4> QED
        BY <4>1, <4>2
    <3> QED
      BY <2>1, <3>1
  <2>5. Given(c) \subseteq calls'[c][i].over /\ i \notin Given(c)
    BY <2>1, <2>3 DEF Given, Mine
  <2>6. OverTotal(c) => OverTotal(c)'
    BY <2>1, <2>2, <2>5 DEF OverTotal, Given, Mine
  <2>7. ~TurnedOn(c, i)
    BY <1>6 DEF TurnedOn, TurnedOver
  <2> QED
    BY <1>2, <1>3, <1>4, <1>6, <2>2, <2>4, <2>6, <2>7
<1> QED
  BY <1>5, <1>6

\* On its way to the handler.
LEMMA PageOn ==
    ASSUME AppInv, NEW c \in Clients, NEW i \in Slots, TurnedOn(c, i), PanelAt(c), db' = db,
           cookie'[c] = cookie[c], drafts'[c] = drafts[c], shown'[c] = shown[c],
           queue'[c] = queue[c], blemish'[c] = blemish[c]
    PROVE  PanelAt(c)'
<1>1. /\ OverKnown(c)' /\ DraftsOut(c)' /\ Clicked(c)' /\ Mine(c)' = Mine(c)
      /\ OverTotal(c) => OverTotal(c)'
  BY TurnedKeeps
<1>2. \A j \in Mine(c) : Similar(calls'[c][j], calls[c][j])
  BY DEF Mine, TurnedOn, Turned, Similar, SameCall
<1>3. Queued(c)' <=> Queued(c)
  BY DEF Queued
<1>4. Current(c) => Current(c)'
  BY <1>1, <1>2, <1>3, Apart
<1> QED
  BY <1>1, <1>4 DEF PanelAt, Follows

\* A refusal, of a page that is shown.
LEMMA Refused ==
    ASSUME AppInv, NEW c \in Clients, NEW i \in Mine(c), NEW code, code # "ok", NEW listing,
           TurnedOver(c, i, code, listing), PanelAt(c), cookie'[c] = cookie[c],
           drafts'[c] = drafts[c], shown'[c] = shown[c],
           Queued(c) => Queued(c)', Seeded => db' = db, Current(c)
    PROVE  Current(c)'
<1>0. i \in Slots
  BY DEF Mine
<1>1. /\ Mine(c)' = Mine(c) /\ Given(c)' = Given(c) \cup {i}
      /\ \A j \in Slots : calls[c][j] # Nil => i \notin calls[c][j].over
  BY <1>0, TurnedKeeps
<1>2. /\ \A j \in Slots \ {i} : calls'[c][j] = calls[c][j]
      /\ calls'[c][i].q = calls[c][i].q /\ calls'[c][i].code # "ok"
      /\ calls'[c][i].previous = calls[c][i].previous /\ calls'[c][i].moved = calls[c][i].moved
      /\ calls[c][i].stage # "answered" /\ i \notin Given(c)
  BY DEF TurnedOver, Turned, Given
<1>3. CASE Reloads(c)
  <2>1. CASE Queued(c)
    BY <2>1 DEF Reloads, Current
  <2>2. ASSUME NEW j \in Mine(c), calls[c][j].q.op = "list", calls[c][j].stage # "answered"
        PROVE  Current(c)'
    <3>1. CASE j = i
      <4>1. Spoils(calls'[c][i])
        BY <1>2, <2>2, <3>1 DEF Spoils
      <4>2. Doomed(c)'
        BY <1>1, <4>1 DEF Doomed, Spoils
      <4> QED
        BY <4>2 DEF Current
    <3>2. CASE j # i
      <4>1. calls'[c][j] = calls[c][j]
        BY <1>2, <3>2 DEF Mine
      <4> QED
        BY <1>1, <2>2, <4>1 DEF Current, Reloads
    <3> QED
      BY <3>1, <3>2
  <2> QED
    BY <1>3, <2>1, <2>2 DEF Reloads
<1>4. CASE Doomed(c)
  <2>1. PICK j \in Given(c) : Spoils(calls[c][j])
    BY <1>4 DEF Doomed
  <2>2. calls'[c][j] = calls[c][j]
    BY <1>2 DEF Given, Mine
  <2>3. Doomed(c)'
    BY <1>1, <2>1, <2>2 DEF Doomed, Spoils
  <2> QED
    BY <2>3 DEF Current
<1>5. ASSUME Seeded PROVE db' = db /\ Seeded'
  BY <1>5 DEF Seeded
<1>6. \A j \in Given(c) : calls'[c][j] = calls[c][j]
  BY <1>2 DEF Given, Mine
<1>7. CASE Lands(c) /\ Seeded
  <2>1. PICK j \in Given(c) : Lists(calls[c][j]) /\ \A x \in Given(c) : j \in calls[c][x].over => Harmless(calls[c][x])
    BY <1>7 DEF Lands
  <2>2. Lists(calls[c][j])'
    BY <1>5, <1>6, <1>7, <2>1 DEF Lists
  <2>3. \A x \in Given(c)' : j \in calls'[c][x].over => Harmless(calls[c][x])'
    BY <1>1, <1>2, <1>5, <1>6, <1>7, <2>1 DEF Harmless
  <2>4. Lands(c)'
    BY <1>1, <2>2, <2>3 DEF Lands
  <2> QED
    BY <1>5, <1>7, <2>4 DEF Current
<1>8. CASE Settled(c) /\ Seeded /\ calls[c][i].q.op = "adjust" /\ calls[c][i].moved
  <2>1. Spoils(calls'[c][i])
    BY <1>2, <1>8 DEF Spoils
  <2>2. Doomed(c)'
    BY <1>1, <2>1 DEF Doomed, Spoils
  <2> QED
    BY <2>2 DEF Current
<1>9. CASE Settled(c) /\ Seeded /\ ~(calls[c][i].q.op = "adjust" /\ calls[c][i].moved)
  <2>1. \A j \in Given(c)' : Harmless(calls[c][j])'
    BY <1>1, <1>2, <1>5, <1>6, <1>9 DEF Settled, Harmless
  <2>2. \A n \in Names : AdjustsOf(c, n)' = AdjustsOf(c, n)
    BY <1>1, <1>2 DEF AdjustsOf, Mine
  <2>3. ASSUME NEW n \in Names, Unsure(c, n) PROVE Unsure(c, n)'
    <3>1. PICK j \in AdjustsOf(c, n) : Mends(calls[c][j], n)
      BY <2>3 DEF Unsure
    <3>2. Mends(calls[c][j], n)'
      BY <1>2, <1>5, <1>9, <3>1 DEF Mends, AdjustsOf, Mine
    <3> QED
      BY <2>2, <3>2 DEF Unsure
  <2>4. ASSUME NEW n \in Names, Sure(c, n) PROVE Sure(c, n)'
    <3>1. \A j \in AdjustsOf(c, n) : calls'[c][j].moved = calls[c][j].moved /\ calls'[c][j].previous = calls[c][j].previous
      BY <1>2 DEF AdjustsOf, Mine
    <3> QED
      BY <1>5, <1>9, <2>2, <2>4, <3>1 DEF Sure
  <2>5. Settled(c)'
    BY <1>5, <1>9, <2>1, <2>3, <2>4 DEF Settled
  <2> QED
    BY <1>5, <1>9, <2>5 DEF Current
<1> QED
  BY <1>3, <1>4, <1>7, <1>8, <1>9 DEF Current

\* A listing, of a page that is shown.
LEMMA Listed ==
    ASSUME AppInv, NEW c \in Clients, NEW i \in Mine(c), calls[c][i].q.op = "list", db \in Sound,
           db' = Opened(db), TurnedOver(c, i, "ok", Listing(db')), PanelAt(c),
           cookie'[c] = cookie[c], drafts'[c] = drafts[c]
    PROVE  Current(c)'
<1>1. i \in Slots
  BY DEF Mine
<1>2. /\ Given(c)' = Given(c) \cup {i}
      /\ \A j \in Slots : calls[c][j] # Nil => i \notin calls[c][j].over
  BY <1>1, TurnedKeeps
<1>3. /\ \A j \in Slots \ {i} : calls'[c][j] = calls[c][j]
      /\ calls'[c][i].q = calls[c][i].q /\ calls'[c][i].code = "ok"
      /\ calls'[c][i].listing = Listing(db') /\ i \notin calls'[c][i].over
  BY DEF TurnedOver, Turned
<1>4. Lists(calls[c][i])'
  BY <1>3 DEF Lists
<1>5. \A j \in Given(c)' : i \notin calls'[c][j].over
  BY <1>2, <1>3 DEF Given, Mine
<1>6. Lands(c)'
  BY <1>2, <1>4, <1>5 DEF Lands
<1>7. Seeded'
  BY OpenedOnce DEF Seeded
<1> QED
  BY <1>6, <1>7 DEF Current

\* The answer to a call is given.
LEMMA PageOver ==
    ASSUME AppInv, NEW c \in Clients, NEW i \in Slots, NEW code, NEW listing,
           TurnedOver(c, i, code, listing), PanelAt(c),
           cookie'[c] = cookie[c], drafts'[c] = drafts[c], shown'[c] = shown[c],
           blemish[c] => blemish'[c],
           cookie[c] # 0 /\ ~blemish'[c] =>
               \/ Queued(c)'
               \/ code # "ok" /\ (Queued(c) => Queued(c)') /\ (Seeded => db' = db)
               \/ /\ code = "ok" /\ calls[c][i].q.op = "list" /\ listing = Listing(db')
                  /\ db' = Opened(db) /\ (Queued(c) => Queued(c)')
    PROVE  PanelAt(c)'
<1>1. /\ OverKnown(c)' /\ DraftsOut(c)' /\ Clicked(c)' /\ Mine(c)' = Mine(c)
      /\ OverTotal(c) => OverTotal(c)'
  BY TurnedKeeps
<1>2. ASSUME cookie[c] # 0, ~blemish'[c] PROVE OverTotal(c)' /\ Current(c)'
  <2>1. OverTotal(c) /\ Current(c)
    BY <1>2 DEF PanelAt, Follows
  <2>2. CASE Queued(c)'
    BY <1>1, <2>1, <2>2 DEF Current, Reloads
  <2>3. CASE i \notin Mine(c) /\ (Queued(c) => Queued(c)') /\ (Seeded => db' = db)
    <3>1. \A j \in Mine(c) : Similar(calls'[c][j], calls[c][j])
      BY <2>3 DEF TurnedOver, Turned, Similar, SameCall, Mine
    <3> QED
      BY <1>1, <2>1, <2>3, <3>1, Apart
  <2>4. CASE i \in Mine(c) /\ code # "ok" /\ (Queued(c) => Queued(c)') /\ (Seeded => db' = db)
    BY <1>1, <2>1, <2>4, Refused
  <2>5. CASE /\ i \in Mine(c) /\ code = "ok" /\ calls[c][i].q.op = "list"
             /\ listing = Listing(db') /\ db' = Opened(db)
    <3>1. db \in Sound
      BY DEF AppInv
    <3> QED
      BY <1>1, <2>1, <2>5, <3>1, Listed
  <2> QED
    BY <1>2, <2>2, <2>3, <2>4, <2>5 DEF Seeded
<1> QED
  BY <1>1, <1>2 DEF PanelAt, Follows

\* A page that is shown is told of the supplies, or blemished.
LEMMA PublishTells ==
    ASSUME AppInv, NEW event \in {"supplies", "other"}, Publish(event), NEW c \in Clients
    PROVE  /\ blemish[c] => blemish'[c]
           /\ Queued(c) => Queued(c)'
           /\ event = "supplies" /\ cookie[c] # 0 /\ ~blemish'[c] => Queued(c)'
<1>1. queue[c] \in Seq({"supplies", "other"})
  BY DEF AppInv, TypeOK
<1>2. /\ queue'[c] = IF stream[c] = "open" THEN Append(queue[c], event) ELSE queue[c]
      /\ blemish'[c] <=> blemish[c] \/ (event = "supplies" /\ cookie[c] # 0 /\ stream[c] # "open")
  BY DEF Publish
<1>3. /\ Len(Append(queue[c], event)) = Len(queue[c]) + 1 /\ Len(queue[c]) \in Nat
      /\ Append(queue[c], event)[Len(queue[c]) + 1] = event
      /\ \A n \in 1 .. Len(queue[c]) : Append(queue[c], event)[n] = queue[c][n]
  BY <1>1
<1>4. \A n \in 1 .. Len(queue[c]) : n \in 1 .. Len(queue[c]) + 1
  BY <1>3
<1>5. Len(queue[c]) + 1 \in 1 .. Len(queue[c]) + 1
  BY <1>3
<1>6. Queued(c) => Queued(c)'
  BY <1>2, <1>3, <1>4 DEF Queued
<1>7. event = "supplies" /\ stream[c] = "open" => Queued(c)'
  BY <1>2, <1>3, <1>5 DEF Queued
<1> QED
  BY <1>2, <1>6, <1>7

LEMMA HandleCurrent ==
    ASSUME AppInv, PanelInv, NEW c \in Clients, NEW i \in Slots, Handle(c, i)
    PROVE  PanelInv'
<1> DEFINE q == calls[c][i].q
           granted == Granted(db, q) /\ Announced(q)
<1>1. /\ UNCHANGED <<cookie, shown, drafts, stream>>
      /\ calls[c][i] # Nil /\ calls[c][i].stage # "answered" /\ db' = After(db, q)
  BY DEF Handle
<1>2. q \in Requests /\ db \in Sound
  BY <1>1 DEF AppInv, TypeOK, Calls
<1>3. db' \in Databases
  BY <1>1, <1>2, AfterSound DEF Sound
<1>4. Told(db', q) \in [Names -> Nat \cup {Nil}] /\ Nothing \in [Names -> Nat \cup {Nil}]
  BY <1>2, <1>3, ToldTyped DEF Nothing
<1>5. PICK code, listing :
        /\ TurnedOver(c, i, code, listing) /\ OtherCalls(c)
        /\ IF Granted(db, q) THEN code = "ok" /\ listing = Told(db', q) ELSE code # "ok"
  <2>1. CASE Granted(db, q)
    <3>1. Reply(c, i, "ok", Told(db', q))
      BY <1>1, <2>1 DEF Handle
    <3>2. TurnedOver(c, i, "ok", Told(db', q)) /\ OtherCalls(c)
      BY <1>1, <1>4, <3>1, ReplyTurns
    <3> QED
      BY <2>1, <3>2
  <2>2. CASE ~Granted(db, q)
    <3>1. Reply(c, i, "refused", Nothing)
      BY <2>2 DEF Handle
    <3>2. TurnedOver(c, i, "refused", Nothing) /\ OtherCalls(c)
      BY <1>1, <1>4, <3>1, ReplyTurns
    <3> QED
      BY <2>2, <3>2
  <2> QED
    BY <2>1, <2>2
<1>6. granted => Publish("supplies")
  BY DEF Handle
<1>7. ~granted => UNCHANGED <<queue, blemish>>
  BY DEF Handle
<1>8. ~granted => /\ Seeded => db' = db
                  /\ Granted(db, q) => q.op = "list" /\ db' = Opened(db)
  BY <1>1, <1>2, AfterUnannounced, RequestFields DEF Announced, Seeded
<1>9. \A d \in Clients :
        /\ blemish[d] => blemish'[d]
        /\ granted /\ cookie[d] # 0 /\ ~blemish'[d] => Queued(d)'
        /\ Queued(d) => Queued(d)'
  <2> HIDE DEF granted
  <2>1. CASE granted
    BY <1>6, <2>1, PublishTells
  <2>2. CASE ~granted
    BY <1>7, <2>2 DEF Queued
  <2> QED
    BY <2>1, <2>2
<1>10. ASSUME NEW d \in Clients \ {c} PROVE PanelAt(d)'
  <2>1. /\ calls'[d] = calls[d] /\ cookie'[d] = cookie[d] /\ drafts'[d] = drafts[d]
        /\ shown'[d] = shown[d] /\ PanelAt(d)
    BY <1>1, <1>5 DEF OtherCalls, PanelInv
  <2> HIDE DEF granted
  <2> QED
    BY <1>8, <1>9, <2>1, PageKept
<1>11. PanelAt(c)'
  <2>1. q.op = "list" => Told(db', q) = Listing(db')
    BY DEF Told
  <2>2. cookie'[c] = cookie[c] /\ drafts'[c] = drafts[c] /\ shown'[c] = shown[c] /\ PanelAt(c)
    BY <1>1 DEF PanelInv
  <2>3. cookie[c] # 0 /\ ~blemish'[c] =>
               \/ Queued(c)'
               \/ code # "ok" /\ (Queued(c) => Queued(c)') /\ (Seeded => db' = db)
               \/ /\ code = "ok" /\ q.op = "list" /\ listing = Listing(db')
                  /\ db' = Opened(db) /\ (Queued(c) => Queued(c)')
    BY <1>5, <1>8, <1>9, <2>1
  <2> QED
    BY <1>5, <1>9, <2>2, <2>3, PageOver
<1> QED
  BY <1>10, <1>11 DEF PanelInv

LEMMA GuardCurrent ==
    ASSUME AppInv, PanelInv, NEW c \in Clients, NEW i \in Slots, Guard(c, i) \/ Check(c, i)
    PROVE  PanelInv'
<1>1. /\ UNCHANGED <<db, access, session, page, queue, used>> /\ calls[c][i] # Nil
      /\ calls[c][i].stage # "answered"
  BY DEF Guard, Check
<1>2. Nothing \in [Names -> Nat \cup {Nil}]
  BY DEF Nothing
<1>3. \/ \E stage \in {"guarded", "checked"} : Goto(c, i, stage)
      \/ \E code \in {"refused", "unauthorized"} : Reply(c, i, code, Nothing)
  BY DEF Guard, Check
<1>4. \A d \in Clients : Queued(d)' <=> Queued(d)
  BY <1>1 DEF Queued
<1>5. PanelAt(c)' /\ OtherCalls(c)
  <2>0. PanelAt(c)
    BY DEF PanelInv
  <2>1. ASSUME NEW stage \in {"guarded", "checked"}, Goto(c, i, stage)
        PROVE  PanelAt(c)' /\ OtherCalls(c)
    <3>1. TurnedOn(c, i) /\ OtherCalls(c)
      BY <1>1, <2>1, GotoTurns
    <3> QED
      BY <1>1, <2>0, <3>1, PageOn DEF page
  <2>2. ASSUME NEW code \in {"refused", "unauthorized"}, Reply(c, i, code, Nothing)
        PROVE  PanelAt(c)' /\ OtherCalls(c)
    <3>1. TurnedOver(c, i, code, Nothing) /\ OtherCalls(c)
      BY <1>1, <1>2, <2>2, ReplyTurns
    <3> QED
      BY <1>1, <1>4, <2>0, <3>1, PageOver DEF page
  <2> QED
    BY <1>3, <2>1, <2>2
<1>6. ASSUME NEW d \in Clients \ {c} PROVE PanelAt(d)'
  BY <1>1, <1>4, <1>5, PageKept DEF page, OtherCalls, PanelInv
<1> QED
  BY <1>5, <1>6 DEF PanelInv

LEMMA AccessCurrent ==
    ASSUME AppInv, PanelInv, NEW c \in Clients, ChangeAccess(c)
    PROVE  PanelInv'
<1>1. UNCHANGED <<db, cookie, shown, drafts, calls, stream>> /\ Publish("other")
  BY DEF ChangeAccess
<1> SUFFICES ASSUME NEW d \in Clients PROVE PanelAt(d)'
  BY DEF PanelInv
<1>2. (blemish[d] => blemish'[d]) /\ (Queued(d) => Queued(d)')
  BY <1>1, PublishTells
<1> QED
  BY <1>1, <1>2, PageKept DEF PanelInv

LEMMA CrashCurrent ==
    ASSUME AppInv, PanelInv, Crash
    PROVE  PanelInv'
<1>1. /\ UNCHANGED <<access, session, cookie, shown, drafts>>
      /\ blemish' = [c \in Clients |-> blemish[c] \/ cookie[c] # 0]
  BY DEF Crash
<1>2. calls \in AllCalls
  BY DEF AppInv, TypeOK, AllCalls
<1> SUFFICES ASSUME NEW c \in Clients PROVE PanelAt(c)'
  BY DEF PanelInv
<1>3. ASSUME NEW i \in Slots
      PROVE  /\ calls'[c][i] = Nil <=> calls[c][i] = Nil
             /\ calls[c][i] # Nil =>
                  /\ calls'[c][i].q = calls[c][i].q /\ calls'[c][i].cookie = calls[c][i].cookie
                  /\ calls'[c][i].previous = calls[c][i].previous
                  /\ calls'[c][i].over = calls[c][i].over /\ calls'[c][i].stage = "answered"
  <2> DEFINE k == calls[c][i]
             r == [k EXCEPT !.stage = "answered", !.code = "failed"]
  <2>1. calls'[c][i] = IF k = Nil \/ k.stage = "answered" THEN k ELSE r
    BY DEF Crash
  <2>2. ASSUME k # Nil
        PROVE  /\ r.q = k.q /\ r.cookie = k.cookie /\ r.previous = k.previous /\ r.over = k.over
               /\ r.stage = "answered" /\ r # Nil
    <3>1. k \in Calls
      BY <1>2, <2>2 DEF AllCalls
    <3> HIDE DEF k
    <3>2. r \in Calls
      BY <3>1 DEF Calls
    <3> QED
      BY <3>1, <3>2, CallAssumption DEF Calls
  <2> HIDE DEF r
  <2> QED
    BY <2>1, <2>2
<1>4. Mine(c)' = Mine(c)
  BY <1>1, <1>3 DEF Mine
<1>5. OverKnown(c)'
  BY <1>3, OverSlots DEF PanelInv, PanelAt, OverKnown
<1>6. DraftsOut(c)'
  BY <1>1, <1>3, <1>4 DEF PanelInv, PanelAt, DraftsOut, Mine
<1>7. Clicked(c)'
  BY <1>3 DEF PanelInv, PanelAt, Clicked
<1>8. Follows(c)'
  BY <1>1 DEF Follows
<1> QED
  BY <1>5, <1>6, <1>7, <1>8 DEF PanelAt

-----------------------------------------------------------------------------
(* The browsers. *)

LEMMA AddedKeeps ==
    ASSUME AppInv, NEW c \in Clients, NEW i, NEW q, NEW under, NEW previous,
           Added(c, i, q, under, previous), Call(q, under, previous) # Nil,
           q.op = "adjust" => previous # Nil, PanelAt(c)
    PROVE  /\ OverKnown(c)' /\ Clicked(c)' /\ i \in Slots
           /\ calls'[c][i] # Nil /\ calls'[c][i].q = q /\ calls'[c][i].cookie = under
           /\ calls'[c][i].previous = previous /\ calls'[c][i].stage = "sent" /\ ~calls'[c][i].moved
           /\ cookie'[c] = cookie[c] =>
                /\ under = cookie[c] => Mine(c)' = Mine(c) \cup {i} /\ i \notin Mine(c)
                /\ Given(c)' = Given(c) /\ (OverTotal(c) => OverTotal(c)')
                /\ \A j \in Mine(c) : calls'[c][j] = calls[c][j]
<1>1. /\ calls'[c][i] # Nil /\ calls'[c][i].q = q /\ calls'[c][i].cookie = under
      /\ calls'[c][i].previous = previous /\ calls'[c][i].stage = "sent" /\ ~calls'[c][i].moved
      /\ calls'[c][i].over = {}
      /\ i \in Slots /\ calls[c][i] = Nil /\ \A j \in Slots \ {i} : calls'[c][j] = calls[c][j]
  BY DEF Added, Call
<1>2. OverKnown(c)'
  <2> SUFFICES ASSUME NEW x \in Slots, calls'[c][x] # Nil, NEW j \in calls'[c][x].over
               PROVE  calls'[c][j] # Nil /\ calls'[c][j].stage = "answered"
    BY DEF OverKnown
  <2>1. x # i /\ calls[c][x] # Nil /\ j \in calls[c][x].over
    BY <1>1
  <2>2. j \in Slots /\ calls[c][j] # Nil /\ calls[c][j].stage = "answered"
    BY <2>1, OverSlots DEF PanelAt, OverKnown
  <2> QED
    BY <1>1, <2>2
<1>3. Clicked(c)'
  BY <1>1 DEF PanelAt, Clicked
<1>4. ASSUME cookie'[c] = cookie[c]
      PROVE  /\ under = cookie[c] => Mine(c)' = Mine(c) \cup {i} /\ i \notin Mine(c)
             /\ Given(c)' = Given(c) /\ (OverTotal(c) => OverTotal(c)')
             /\ \A j \in Mine(c) : calls'[c][j] = calls[c][j]
  <2>1. \A j \in Slots \ {i} : j \in Mine(c)' <=> j \in Mine(c)
    BY <1>1, <1>4 DEF Mine
  <2>2. under = cookie[c] => i \in Mine(c)'
    BY <1>1, <1>4 DEF Mine
  <2>3. i \notin Mine(c) /\ Mine(c) \subseteq Slots /\ Mine(c)' \subseteq Slots
    BY <1>1 DEF Mine
  <2>4. under = cookie[c] => Mine(c)' = Mine(c) \cup {i}
    BY <1>1, <2>1, <2>2, <2>3
  <2>5. \A j \in Mine(c) : calls'[c][j] = calls[c][j]
    BY <1>1, <2>3
  <2>6. Given(c)' = Given(c)
    BY <1>1, <2>1, <2>3, <2>5 DEF Given
  <2>7. OverTotal(c) => OverTotal(c)'
    BY <2>5, <2>6 DEF OverTotal, Given
  <2> QED
    BY <2>3, <2>4, <2>5, <2>6, <2>7
<1> QED
  BY <1>1, <1>2, <1>3, <1>4

\* A form, or the load after an event, is sent under the page's session.
LEMMA SendCurrent ==
    ASSUME AppInv, NEW c \in Clients, NEW i, NEW q, NEW previous, Added(c, i, q, cookie[c], previous),
           Call(q, cookie[c], previous) # Nil, q.op = "adjust" => previous # Nil, PanelAt(c),
           cookie'[c] = cookie[c], blemish'[c] = blemish[c], db' = db,
           drafts'[c] \subseteq drafts[c] \cup (IF q.op = "create" THEN {i} ELSE {}),
           q.op = "list" \/ (Queued(c) => Queued(c)'),
           q.op = "list" \/ (q.op # "adjust" /\ shown'[c] = shown[c]) \/ (Settled(c) => Settled(c)')
    PROVE  PanelAt(c)'
<1>1. /\ OverKnown(c)' /\ Clicked(c)' /\ i \in Slots
      /\ calls'[c][i] # Nil /\ calls'[c][i].q = q /\ calls'[c][i].stage = "sent"
      /\ Mine(c)' = Mine(c) \cup {i} /\ i \notin Mine(c)
      /\ Given(c)' = Given(c) /\ (OverTotal(c) => OverTotal(c)')
      /\ \A j \in Mine(c) : calls'[c][j] = calls[c][j]
  BY AddedKeeps
<1>2. DraftsOut(c)'
  BY <1>1 DEF PanelAt, DraftsOut
<1>3. \A j \in Mine(c) : Similar(calls'[c][j], calls[c][j])
  BY <1>1 DEF Similar, SameCall
<1>4. ASSUME Current(c) PROVE Current(c)'
  <2>1. CASE q.op = "list"
    BY <1>1, <2>1 DEF Current, Reloads
  <2>2. CASE q.op # "list"
    <3>1. Settled(c) => Settled(c)'
      <4>1. ASSUME q.op # "adjust", shown'[c] = shown[c], Settled(c) PROVE Settled(c)'
        <5>1. \A n \in Names : AdjustsOf(c, n)' = AdjustsOf(c, n)
          BY <1>1, <4>1 DEF AdjustsOf
        <5> QED
          BY <1>1, <1>3, <4>1, <5>1, SettledKept
      <4> QED
        BY <2>2, <4>1
    <3> QED
      BY <1>1, <1>3, <1>4, <2>2, <3>1, CurrentKept
  <2> QED
    BY <2>1, <2>2
<1> QED
  BY <1>1, <1>2, <1>4 DEF PanelAt, Follows

\* A click on a row that is right makes a call that puts it right if refused.
LEMMA ClickSettled ==
    ASSUME AppInv, NEW c \in Clients, NEW i, NEW q, q.op = "adjust", q.name \in Names, q.change \in Int,
           shown[c][q.name] # Nil, Added(c, i, q, cookie[c], shown[c][q.name]),
           Call(q, cookie[c], shown[c][q.name]) # Nil, PanelAt(c),
           cookie'[c] = cookie[c], db' = db,
           shown' = [shown EXCEPT ![c][q.name] = @ + q.change], Settled(c)
    PROVE  Settled(c)'
<1>1. /\ calls'[c][i].q = q /\ calls'[c][i].previous = shown[c][q.name]
      /\ calls'[c][i].stage = "sent" /\ ~calls'[c][i].moved
      /\ Mine(c)' = Mine(c) \cup {i} /\ i \notin Mine(c) /\ Given(c)' = Given(c)
      /\ \A j \in Mine(c) : calls'[c][j] = calls[c][j]
  BY AddedKeeps
<1>2. \A j \in Given(c)' : Harmless(calls[c][j])'
  BY <1>1 DEF Settled, Harmless, Given
<1>3. shown \in [Clients -> [Names -> Int \cup {Nil}]]
  BY DEF AppInv, TypeOK
<1>4. shown'[c][q.name] # Nil /\ \A n \in Names \ {q.name} : shown'[c][n] = shown[c][n]
  BY <1>3, ItemsAssumption
<1>5. ASSUME NEW n \in Names
      PROVE  (shown'[c][n] = Nil <=> Listing(db')[n] = Nil) /\ (Unsure(c, n)' \/ Sure(c, n)')
  <2>1. (shown[c][n] = Nil <=> Listing(db)[n] = Nil) /\ (Unsure(c, n) \/ Sure(c, n))
    BY DEF Settled
  <2>2. shown'[c][n] = Nil <=> Listing(db')[n] = Nil
    BY <1>4, <2>1
  <2>3. Unsure(c, n) => Unsure(c, n)'
    BY <1>1 DEF Unsure, AdjustsOf, Mends
  <2>4. CASE n = q.name /\ Sure(c, n)
    <3>1. Mends(calls[c][i], n)'
      BY <1>1, <2>4 DEF Sure, Mends
    <3>2. i \in AdjustsOf(c, n)'
      BY <1>1, <2>4 DEF AdjustsOf
    <3> QED
      BY <2>2, <3>1, <3>2 DEF Unsure
  <2>5. CASE n # q.name /\ Sure(c, n)
    <3>1. AdjustsOf(c, n)' = AdjustsOf(c, n)
      BY <1>1, <2>5 DEF AdjustsOf
    <3>2. Sure(c, n)'
      BY <1>1, <1>4, <2>5, <3>1 DEF Sure, AdjustsOf
    <3> QED
      BY <2>2, <3>2
  <2> QED
    BY <2>1, <2>2, <2>3, <2>4, <2>5
<1> QED
  BY <1>2, <1>5 DEF Settled

\* A form is sent, and the panel stays right if it was.
LEMMA FormCurrent ==
    ASSUME AppInv, PanelInv, NEW c \in Clients, User(c), NEW q \in Requests,
           NEW previous \in Int \cup {Nil}, Send(c, q, previous), q.op # "list",
           q.op = "adjust" => previous # Nil,
           \A d \in Clients \ {c} : shown'[d] = shown[d] /\ drafts'[d] = drafts[d],
           drafts'[c] \subseteq drafts[c] \cup (IF q.op = "create" THEN {First(c)} ELSE {}),
           \/ q.op # "adjust" /\ shown'[c] = shown[c]
           \/ Added(c, First(c), q, cookie[c], previous) /\ Settled(c) => Settled(c)'
    PROVE  PanelInv'
<1>1. /\ UNCHANGED <<db, access, session, cookie, stream, queue, blemish>>
      /\ SendUnder(c, cookie[c], q, previous) /\ PanelAt(c)
  BY DEF User, Send, PanelInv
<1>2. cookie[c] \in 1 .. MaxLogins
  BY BoundsAssumption DEF AppInv, TypeOK, User
<1>3. /\ Added(c, First(c), q, cookie[c], previous) /\ OtherCalls(c)
      /\ Call(q, cookie[c], previous) # Nil
  BY <1>1, <1>2, SendAdds
<1>4. \A d \in Clients : Queued(d) => Queued(d)'
  BY <1>1 DEF Queued
<1>5. PanelAt(c)'
  BY <1>1, <1>3, <1>4, SendCurrent
<1>6. ASSUME NEW d \in Clients \ {c} PROVE PanelAt(d)'
  BY <1>1, <1>3, <1>4, PageKept DEF OtherCalls, PanelInv
<1> QED
  BY <1>5, <1>6 DEF PanelInv

LEMMA AdjustCurrent ==
    ASSUME AppInv, PanelInv, NEW c \in Clients, NEW q \in Adjustments(Changes),
           Adjust(c, q.name, q.change)
    PROVE  PanelInv'
<1>1. /\ q = [op |-> "adjust", name |-> q.name, change |-> q.change] /\ q \in Requests
      /\ q.op = "adjust" /\ q.name \in Names /\ q.change \in Int
  BY BoundsAssumption DEF Adjustments, Requests
<1>2. /\ User(c) /\ shown[c][q.name] # Nil /\ UNCHANGED drafts
      /\ shown' = [shown EXCEPT ![c][q.name] = @ + q.change]
      /\ Send(c, q, shown[c][q.name])
  BY <1>1 DEF Adjust
<1>3. shown[c][q.name] \in Int
  BY <1>1, <1>2 DEF AppInv, TypeOK
<1>4. /\ SendUnder(c, cookie[c], q, shown[c][q.name]) /\ cookie[c] \in 1 .. MaxLogins
      /\ cookie' = cookie /\ db' = db
  BY <1>2, BoundsAssumption DEF AppInv, TypeOK, User, Send
<1>5. Call(q, cookie[c], shown[c][q.name]) # Nil
  BY <1>1, <1>3, <1>4, SendAdds
<1>6. Added(c, First(c), q, cookie[c], shown[c][q.name]) /\ Settled(c) => Settled(c)'
  BY <1>1, <1>2, <1>4, <1>5, ClickSettled DEF PanelInv
<1>7. \A d \in Clients \ {c} : shown'[d] = shown[d] /\ drafts'[d] = drafts[d]
  BY <1>2 DEF AppInv, TypeOK
<1> QED
  BY <1>1, <1>2, <1>3, <1>6, <1>7, FormCurrent

LEMMA FormsCurrent ==
    ASSUME AppInv, PanelInv, NEW c \in Clients,
           \/ \E q \in Adjustments(Changes) : Adjust(c, q.name, q.change)
           \/ \E q \in Creations(Quantities) : Create(c, q)
           \/ \E q \in Runs(Quantities) : Run(c, q)
    PROVE  PanelInv'
<1>1. drafts \in [Clients -> SUBSET Slots]
  BY DEF AppInv, TypeOK
<1>2. ASSUME NEW q \in Creations(Quantities), Create(c, q)
      PROVE  PanelInv'
  <2>1. q \in Requests /\ q.op = "create"
    BY DEF Requests, Creations
  <2>2. /\ User(c) /\ Send(c, q, Nil) /\ UNCHANGED shown
        /\ drafts' = [drafts EXCEPT ![c] = @ \cup {First(c)}]
    BY <1>2 DEF Create
  <2>3. /\ drafts'[c] = drafts[c] \cup {First(c)}
        /\ \A d \in Clients \ {c} : drafts'[d] = drafts[d]
    BY <1>1, <2>2
  <2> QED
    BY <2>1, <2>2, <2>3, FormCurrent
<1>3. ASSUME NEW q \in Runs(Quantities), Run(c, q)
      PROVE  PanelInv'
  <2>1. q \in Requests /\ q.op = "run"
    BY DEF Requests, Runs
  <2> QED
    BY <1>3, <2>1, FormCurrent DEF Run
<1> QED
  BY <1>2, <1>3, AdjustCurrent

LEMMA SignInCurrent ==
    ASSUME AppInv, PanelInv, NEW c \in Clients, SignIn(c)
    PROVE  PanelInv'
<1> DEFINE n == used.logins + 1
<1>1. /\ UNCHANGED <<db, access, shown, drafts, queue, blemish>> /\ cookie[c] = 0
      /\ cookie' = [cookie EXCEPT ![c] = n] /\ SendUnder(c, n, List, Nil) /\ PanelAt(c)
  BY DEF SignIn, PanelInv
<1>2. /\ used.logins \in Nat /\ cookie \in [Clients -> 0 .. MaxLogins]
      /\ MaxLogins \in Nat /\ used.logins < MaxLogins
  BY BoundsAssumption DEF AppInv, TypeOK, SignIn
<1>3. n \in 1 .. MaxLogins /\ n # 0
  BY <1>2
<1>4. cookie'[c] = n /\ \A d \in Clients \ {c} : cookie'[d] = cookie[d]
  BY <1>1, <1>2
<1>5. List \in Requests /\ List.op = "list"
  BY DEF Requests, List
<1>6. Added(c, First(c), List, n, Nil) /\ OtherCalls(c) /\ Call(List, n, Nil) # Nil
  BY <1>1, <1>3, <1>5, SendAdds
<1>7. \A d \in Clients : Queued(d) => Queued(d)'
  BY <1>1 DEF Queued
<1>8. PanelAt(c)'
  <2> HIDE DEF n
  <2> DEFINE i == First(c)
  <2>1. /\ OverKnown(c)' /\ Clicked(c)' /\ i \in Slots
        /\ calls'[c][i] # Nil /\ calls'[c][i].q = List /\ calls'[c][i].cookie = n
        /\ calls'[c][i].stage = "sent"
    BY <1>1, <1>5, <1>6, AddedKeeps
  <2>2. \A j \in Slots : calls[c][j] # Nil =>
          calls[c][j].cookie \in 1 .. MaxLogins /\ calls[c][j].cookie <= used.logins
    BY DEF AppInv, TypeOK, NumbersIssued, Calls
  <2>3. Mine(c) = {}
    BY <1>1, <1>2, <2>2 DEF Mine
  <2>4. Mine(c)' = {i}
    <3>1. \A j \in Slots \ {i} : calls'[c][j] = calls[c][j]
      BY <1>6 DEF Added
    <3>2. \A j \in Slots : calls[c][j] # Nil => calls[c][j].cookie # n
      BY <1>2, <2>2 DEF n
    <3>3. \A j \in Slots \ {i} : j \notin Mine(c)'
      BY <1>4, <3>1, <3>2 DEF Mine
    <3>4. i \in Mine(c)'
      BY <1>4, <2>1 DEF Mine
    <3> QED
      BY <3>3, <3>4 DEF Mine
  <2>5. drafts[c] = {}
    BY <1>1, <2>3 DEF PanelAt, DraftsOut
  <2>6. DraftsOut(c)'
    BY <1>1, <2>5 DEF DraftsOut
  <2>7. OverTotal(c)'
    BY <2>1, <2>4 DEF OverTotal, Given
  <2>8. Reloads(c)'
    BY <1>5, <2>1, <2>4 DEF Reloads
  <2> QED
    BY <2>1, <2>6, <2>7, <2>8 DEF PanelAt, Follows, Current
<1>9. ASSUME NEW d \in Clients \ {c} PROVE PanelAt(d)'
  BY <1>1, <1>4, <1>6, <1>7, PageKept DEF OtherCalls, PanelInv
<1> QED
  BY <1>8, <1>9 DEF PanelInv

LEMMA StreamCurrent ==
    ASSUME AppInv, PanelInv, NEW c \in Clients, Connect(c) \/ Subscribe(c) \/ Deliver(c) \/ Beat(c)
    PROVE  PanelInv'
<1>1. UNCHANGED <<db, cookie, shown, drafts, blemish>>
  BY DEF Connect, Subscribe, Deliver, Beat, page
<1>2. queue \in [Clients -> Seq({"supplies", "other"})]
  BY DEF AppInv, TypeOK
<1>3. ASSUME UNCHANGED calls, \A d \in Clients : Queued(d) => Queued(d)'
      PROVE  PanelInv'
  BY <1>1, <1>3, PageKept DEF PanelInv
<1>4. CASE Connect(c) \/ Subscribe(c)
  <2>1. UNCHANGED <<queue, calls>>
    BY <1>4 DEF Connect, Subscribe
  <2> QED
    BY <1>3, <2>1 DEF Queued
<1>5. CASE Beat(c)
  <2>1. queue[c] = <<>> /\ queue' = [queue EXCEPT ![c] = <<"other">>] /\ UNCHANGED calls
    BY <1>5 DEF Beat
  <2>2. ~Queued(c) /\ \A d \in Clients \ {c} : queue'[d] = queue[d]
    BY <1>2, <2>1 DEF Queued
  <2>3. \A d \in Clients : Queued(d) => Queued(d)'
    BY <2>2 DEF Queued
  <2> QED
    BY <1>3, <2>1, <2>3
<1>6. CASE Deliver(c)
  <2>1. /\ queue[c] # <<>> /\ queue' = [queue EXCEPT ![c] = Tail(@)]
        /\ IF Head(queue[c]) = "supplies" THEN Send(c, List, Nil) ELSE UNCHANGED calls
    BY <1>6 DEF Deliver
  <2>2. queue'[c] = Tail(queue[c]) /\ \A d \in Clients \ {c} : queue'[d] = queue[d]
    BY <1>2, <2>1
  <2>3. \A d \in Clients \ {c} : Queued(d) => Queued(d)'
    BY <2>2 DEF Queued
  <2>4. CASE Head(queue[c]) # "supplies"
    <3>1. Queued(c) => Queued(c)'
      <4> SUFFICES ASSUME NEW m \in 1 .. Len(queue[c]), queue[c][m] = "supplies"
                   PROVE  Queued(c)'
        BY DEF Queued
      <4>1. queue[c] \in Seq({"supplies", "other"}) /\ m # 1
        BY <1>2, <2>1, <2>4
      <4>2. m - 1 \in 1 .. Len(Tail(queue[c])) /\ Tail(queue[c])[m - 1] = queue[c][m]
        BY <2>1, <4>1
      <4> QED
        BY <2>2, <4>2 DEF Queued
    <3> QED
      BY <1>3, <2>1, <2>3, <2>4, <3>1
  <2>5. CASE Head(queue[c]) = "supplies"
    <3>1. cookie[c] \in 1 .. MaxLogins /\ PanelAt(c)
      BY <2>1, BoundsAssumption DEF AppInv, TypeOK, StreamsOfPages, PanelInv
    <3>2. List \in Requests /\ List.op = "list"
      BY DEF Requests, List
    <3>3. Added(c, First(c), List, cookie[c], Nil) /\ OtherCalls(c) /\ Call(List, cookie[c], Nil) # Nil
      BY <2>1, <2>5, <3>1, <3>2, SendAdds DEF Send
    <3>4. PanelAt(c)'
      BY <1>1, <3>1, <3>2, <3>3, SendCurrent
    <3>5. ASSUME NEW d \in Clients \ {c} PROVE PanelAt(d)'
      BY <1>1, <2>3, <3>3, PageKept DEF OtherCalls, PanelInv
    <3> QED
      BY <3>4, <3>5 DEF PanelInv
  <2> QED
    BY <2>4, <2>5
<1> QED
  BY <1>4, <1>5, <1>6

-----------------------------------------------------------------------------
(* Answers arrive. *)

LEMMA GoneKeeps ==
    ASSUME AppInv, NEW c \in Clients, NEW i \in Slots, NEW moves, Gone(c, i, moves), PanelAt(c)
    PROVE  /\ OverKnown(c)' /\ Clicked(c)'
           /\ cookie'[c] = cookie[c] =>
                /\ Mine(c)' = Mine(c) \ {i} /\ Given(c)' = Given(c) \ {i}
                /\ OverTotal(c) => OverTotal(c)'
                /\ drafts'[c] \subseteq drafts[c] \ {i} => DraftsOut(c)'
                /\ \A j \in Mine(c) \ {i} : Marked(c, j, i, moves)
<1>1. OverKnown(c) /\ Clicked(c) /\ DraftsOut(c)
  BY DEF PanelAt
<1>2. ASSUME NEW j \in Slots, calls'[c][j] # Nil
      PROVE  /\ j # i /\ calls[c][j] # Nil /\ SameCall(calls'[c][j], calls[c][j])
             /\ calls'[c][j].over = calls[c][j].over \ {i}
  BY <1>2 DEF Gone, Marked
<1>3. OverKnown(c)'
  <2> SUFFICES ASSUME NEW x \in Slots, calls'[c][x] # Nil, NEW j \in calls'[c][x].over
               PROVE  calls'[c][j] # Nil /\ calls'[c][j].stage = "answered"
    BY DEF OverKnown
  <2>1. calls[c][x] # Nil /\ j \in calls[c][x].over /\ j # i
    BY <1>2
  <2>2. j \in Slots /\ calls[c][j] # Nil /\ calls[c][j].stage = "answered"
    BY <1>1, <2>1, OverSlots DEF OverKnown
  <2> QED
    BY <2>1, <2>2 DEF Gone, Marked, SameCall
<1>4. Clicked(c)'
  BY <1>1, <1>2 DEF Clicked, SameCall
<1>5. ASSUME cookie'[c] = cookie[c]
      PROVE  /\ Mine(c)' = Mine(c) \ {i} /\ Given(c)' = Given(c) \ {i}
             /\ OverTotal(c) => OverTotal(c)'
             /\ drafts'[c] \subseteq drafts[c] \ {i} => DraftsOut(c)'
             /\ \A j \in Mine(c) \ {i} : Marked(c, j, i, moves)
  <2>1. \A j \in Mine(c) \ {i} : calls'[c][j] # Nil /\ Marked(c, j, i, moves)
    BY DEF Gone, Mine
  <2>2. \A j \in Mine(c) \ {i} : j \in Mine(c)'
    BY <1>5, <2>1 DEF Mine, Marked, SameCall
  <2>3. \A j \in Mine(c)' : j \in Mine(c) \ {i}
    BY <1>2, <1>5 DEF Mine, SameCall
  <2>4. Mine(c)' = Mine(c) \ {i}
    BY <2>2, <2>3
  <2>5. Given(c)' = Given(c) \ {i}
    BY <2>1, <2>4 DEF Given, Marked, SameCall
  <2>6. OverTotal(c) => OverTotal(c)'
    <3> SUFFICES ASSUME OverTotal(c), NEW x \in Given(c) \ {i}, NEW y \in Given(c) \ {i}, x # y
                 PROVE  x \in calls'[c][y].over \/ y \in calls'[c][x].over
      BY <2>5 DEF OverTotal
    <3>1. x \in Mine(c) \ {i} /\ y \in Mine(c) \ {i}
      BY DEF Given
    <3> QED
      BY <2>1, <3>1 DEF OverTotal, Marked
  <2>7. drafts'[c] \subseteq drafts[c] \ {i} => DraftsOut(c)'
    BY <1>1, <2>1, <2>4 DEF DraftsOut, Marked, SameCall
  <2> QED
    BY <2>1, <2>4, <2>5, <2>6, <2>7
<1> QED
  BY <1>3, <1>4, <1>5

\* An answer concerns the page that asked, and its draft goes.
LEMMA OthersShow ==
    ASSUME AppInv, NEW c \in Clients, NEW i \in Slots, calls[c][i] # Nil, Shows(c, i), PanelAt(c)
    PROVE  /\ \A d \in Clients \ {c} : shown'[d] = shown[d] /\ drafts'[d] = drafts[d]
           /\ drafts'[c] \subseteq drafts[c] \ {i}
<1> DEFINE k == calls[c][i]
           q == k.q
<1>1. /\ shown \in [Clients -> [Names -> Int \cup {Nil}]] /\ drafts \in [Clients -> SUBSET Slots]
      /\ q \in Requests
  BY DEF AppInv, TypeOK, Calls
<1>2. q.op # "create" => i \notin drafts[c]
  BY DEF PanelAt, DraftsOut
<1>3. CASE q.op = "list" /\ k.code = "ok"
  <2>1. shown' = [shown EXCEPT ![c] = k.listing] /\ drafts' = [drafts EXCEPT ![c] = {}]
    BY <1>3 DEF Shows
  <2> QED
    BY <1>1, <2>1
<1>4. CASE q.op = "adjust"
  <2> DEFINE v == IF k.code = "ok" THEN k.listing[q.name] ELSE k.previous
  <2>1. Row(c, q.name, v) /\ UNCHANGED drafts
    BY <1>4 DEF Shows
  <2> HIDE DEF v
  <2> QED
    BY <1>1, <1>2, <1>4, <2>1 DEF Row
<1>5. CASE q.op = "create"
  <2>1. /\ drafts' = [drafts EXCEPT ![c] = @ \ {i}]
        /\ \/ shown' = shown \/ shown' = [shown EXCEPT ![c][q.name] = k.listing[q.name]]
    BY <1>5 DEF Shows
  <2>2. drafts'[c] = drafts[c] \ {i} /\ \A d \in Clients \ {c} : drafts'[d] = drafts[d]
    BY <1>1, <2>1
  <2>3. \A d \in Clients \ {c} : shown'[d] = shown[d]
    BY <1>1, <2>1
  <2> QED
    BY <2>2, <2>3
<1>6. CASE q.op = "run" \/ (q.op = "list" /\ k.code # "ok")
  BY <1>2, <1>6 DEF Shows
<1> QED
  BY <1>1, <1>3, <1>4, <1>5, <1>6, RequestFields

\* What an answer that blemishes nothing shows.
LEMMA ShownIs ==
    ASSUME AppInv, NEW c \in Clients, NEW i \in Slots, calls[c][i] # Nil, Shows(c, i),
           ~Spoils(calls[c][i])
    PROVE  LET k == calls[c][i]
           IN  /\ k.q.op = "list" => k.code = "ok" /\ shown'[c] = k.listing
               /\ k.q.op = "adjust" /\ k.code # "ok" =>
                    /\ \A n \in Names \ {k.q.name} : shown'[c][n] = shown[c][n]
                    /\ k.q.name \in Names /\ ~k.moved
                    /\ shown'[c][k.q.name] = IF shown[c][k.q.name] = Nil THEN Nil ELSE k.previous
               /\ k.q.op = "run" \/ (k.q.op = "create" /\ k.code # "ok") => shown'[c] = shown[c]
<1> DEFINE k == calls[c][i]
           q == k.q
<1>1. shown \in [Clients -> [Names -> Int \cup {Nil}]] /\ q \in Requests
  BY DEF AppInv, TypeOK, Calls
<1>2. ASSUME q.op = "list" PROVE k.code = "ok" /\ shown'[c] = k.listing
  <2>1. k.code = "ok"
    BY <1>2 DEF Spoils
  <2>2. shown' = [shown EXCEPT ![c] = k.listing]
    BY <1>2, <2>1 DEF Shows
  <2> QED
    BY <1>1, <2>1, <2>2
<1>3. ASSUME q.op = "adjust", k.code # "ok"
      PROVE  /\ \A n \in Names \ {q.name} : shown'[c][n] = shown[c][n]
             /\ q.name \in Names /\ ~k.moved
             /\ shown'[c][q.name] = IF shown[c][q.name] = Nil THEN Nil ELSE k.previous
  <2>1. q.name \in Names
    BY <1>1, <1>3, RequestFields
  <2>2. Row(c, q.name, k.previous)
    BY <1>3 DEF Shows
  <2>3. ~k.moved
    BY <1>3 DEF Spoils
  <2> HIDE DEF k, q
  <2> QED
    BY <1>1, <2>1, <2>2, <2>3 DEF Row
<1>4. ASSUME q.op = "run" \/ (q.op = "create" /\ k.code # "ok") PROVE shown'[c] = shown[c]
  BY <1>4 DEF Shows
<1> QED
  BY <1>2, <1>3, <1>4

\* An answer comes to a page: no row is put wrong for good.
LEMMA ReceiveKeeps ==
    ASSUME AppInv, NEW c \in Clients, NEW i \in Slots, Receive(c, i), PanelAt(c),
           cookie[c] # 0, ~blemish'[c]
    PROVE  OverTotal(c) /\ Current(c)'
<1> DEFINE k == calls[c][i]
<1>1. /\ k # Nil /\ k.stage = "answered" /\ k.cookie = cookie[c] /\ k.code # "unauthorized"
      /\ Arrived(c, i, TRUE) /\ Shows(c, i) /\ UNCHANGED <<db, cookie, queue>>
  BY DEF Receive
<1>2. ~blemish[c] /\ ~Spoils(k)
  <2> DEFINE spoilt == \/ k.late
                       \/ k.code # "ok" /\ (k.q.op = "list" \/ (k.q.op = "adjust" /\ k.moved))
  <2>1. blemish \in [Clients -> BOOLEAN] /\ blemish' = [blemish EXCEPT ![c] = blemish[c] \/ spoilt]
    BY DEF Receive, AppInv, TypeOK
  <2>2. spoilt <=> Spoils(k)
    BY <1>1 DEF Spoils
  <2> HIDE DEF spoilt
  <2>3. blemish'[c] <=> blemish[c] \/ spoilt
    BY <2>1
  <2> QED
    BY <2>2, <2>3
<1>3. OverTotal(c) /\ Current(c)
  BY <1>2 DEF PanelAt, Follows
<1>4. i \in Given(c)
  BY <1>1 DEF Given, Mine
<1>5. Gone(c, i, TRUE)
  BY <1>1, ArrivedGone
<1>6. /\ Mine(c)' = Mine(c) \ {i} /\ Given(c)' = Given(c) \ {i}
      /\ \A j \in Mine(c) \ {i} :
           /\ SameCall(calls'[c][j], calls[c][j])
           /\ calls'[c][j].over = calls[c][j].over \ {i}
           /\ calls'[c][j].late <=> calls[c][j].late \/ j \in k.over
           /\ calls'[c][j].moved
  <2>1. /\ Mine(c)' = Mine(c) \ {i} /\ Given(c)' = Given(c) \ {i}
        /\ \A j \in Mine(c) \ {i} : Marked(c, j, i, TRUE)
    BY <1>1, <1>5, GoneKeeps
  <2> QED
    BY <2>1 DEF Marked
<1>7. \A j \in Given(c) \ {i} : j \in Mine(c) \ {i} /\ j \in Given(c)'
  BY <1>6 DEF Given
<1>8. /\ k.q.op = "list" => k.code = "ok" /\ shown'[c] = k.listing
      /\ k.q.op = "adjust" /\ k.code # "ok" =>
           /\ \A n \in Names \ {k.q.name} : shown'[c][n] = shown[c][n]
           /\ k.q.name \in Names /\ ~k.moved
           /\ shown'[c][k.q.name] = IF shown[c][k.q.name] = Nil THEN Nil ELSE k.previous
      /\ k.q.op = "run" \/ (k.q.op = "create" /\ k.code # "ok") => shown'[c] = shown[c]
  BY <1>1, <1>2, ShownIs
<1>9. k.q.op \in {"list", "adjust", "create", "run"}
  BY <1>1, RequestFields DEF AppInv, TypeOK, Calls
<1>10. ASSUME NEW j \in Given(c) \ {i}, Harmless(calls[c][j]) PROVE Harmless(calls[c][j])'
  BY <1>1, <1>6, <1>7, <1>10 DEF Harmless, SameCall
<1>11. ASSUME NEW n \in Names, shown'[c][n] = Listing(db)[n]
       PROVE  (shown'[c][n] = Nil <=> Listing(db')[n] = Nil) /\ Sure(c, n)'
  BY <1>1, <1>6, <1>11 DEF Sure, AdjustsOf
<1> HIDE DEF k
<1>12. CASE Reloads(c)
  <2>1. Queued(c) => Queued(c)'
    BY <1>1 DEF Queued
  <2>2. ASSUME NEW j \in Mine(c), calls[c][j].q.op = "list", calls[c][j].stage # "answered"
        PROVE  Reloads(c)'
    <3>1. j # i
      BY <1>4, <2>2 DEF Given
    <3> QED
      BY <1>6, <2>2, <3>1 DEF SameCall, Reloads
  <2> QED
    BY <1>3, <1>12, <2>1, <2>2 DEF Reloads, Current
<1>13. CASE Doomed(c)
  <2>1. PICK j \in Given(c) : Spoils(calls[c][j])
    BY <1>13 DEF Doomed
  <2>2. j \in Given(c) \ {i}
    BY <1>2, <2>1 DEF k
  <2>3. Spoils(calls'[c][j])
    BY <1>6, <1>7, <2>1, <2>2 DEF Spoils, SameCall
  <2>4. Doomed(c)'
    BY <1>7, <2>2, <2>3 DEF Doomed, Spoils
  <2> QED
    BY <1>3, <2>4 DEF Current
<1>14. CASE Lands(c) /\ Seeded
  <2>1. PICK x \in Given(c) : Lists(calls[c][x]) /\ \A j \in Given(c) : x \in calls[c][j].over => Harmless(calls[c][j])
    BY <1>14 DEF Lands
  <2>2. CASE x # i
    <3>1. x \in Given(c) \ {i}
      BY <2>2
    <3>2. Lists(calls[c][x])'
      BY <1>1, <1>6, <1>7, <2>1, <3>1 DEF Lists, SameCall
    <3>3. ASSUME NEW j \in Given(c)', x \in calls'[c][j].over PROVE Harmless(calls[c][j])'
      <4>1. j \in Given(c) \ {i} /\ x \in calls[c][j].over
        BY <1>6, <1>7, <3>3
      <4> QED
        BY <1>10, <2>1, <4>1
    <3>4. Lands(c)'
      BY <1>7, <3>1, <3>2, <3>3 DEF Lands
    <3> QED
      BY <1>1, <1>3, <1>14, <3>4 DEF Current, Seeded
  <2>3. CASE x = i
    <3>1. shown'[c] = Listing(db)
      BY <1>8, <2>1, <2>3 DEF Lists, k
    <3>2. ASSUME NEW j \in Given(c) \ {i}, j \in k.over PROVE Current(c)'
      <4>1. calls'[c][j].late
        BY <1>6, <1>7, <3>2
      <4>2. Doomed(c)'
        BY <1>7, <3>2, <4>1 DEF Doomed, Spoils
      <4> QED
        BY <4>2 DEF Current
    <3>3. ASSUME \A j \in Given(c) \ {i} : j \notin k.over PROVE Current(c)'
      <4>1. \A j \in Given(c) \ {i} : Harmless(calls[c][j])
        BY <1>3, <1>4, <2>1, <2>3, <3>3 DEF OverTotal, k
      <4>2. \A j \in Given(c)' : Harmless(calls[c][j])'
        BY <1>6, <1>10, <4>1
      <4>3. Settled(c)'
        BY <1>11, <3>1, <4>2 DEF Settled
      <4> QED
        BY <1>1, <1>14, <4>3 DEF Current, Seeded
    <3> QED
      BY <1>3, <3>2, <3>3
  <2> QED
    BY <2>2, <2>3
<1>15. CASE Settled(c) /\ Seeded
  <2>1. \A j \in Given(c)' : Harmless(calls[c][j])'
    BY <1>6, <1>10, <1>15 DEF Settled
  <2>2. Harmless(k)
    BY <1>4, <1>15 DEF Settled, k
  <2>3. ASSUME ~Doomed(c)', NEW n \in Names, NEW j \in AdjustsOf(c, n), j # i, Mends(calls[c][j], n)
        PROVE  Unsure(c, n)'
    <3>1. /\ j \in Mine(c) \ {i} /\ j \in AdjustsOf(c, n)'
          /\ SameCall(calls'[c][j], calls[c][j]) /\ calls'[c][j].moved
          /\ calls[c][j].q.op = "adjust"
      BY <1>6, <2>3 DEF AdjustsOf, SameCall
    <3>2. CASE calls[c][j].stage # "answered"
      BY <3>1, <3>2 DEF Unsure, Mends, SameCall
    <3>3. CASE calls[c][j].stage = "answered"
      <4>1. calls[c][j].code # "ok" /\ j \in Given(c) \ {i}
        BY <2>3, <3>1, <3>3 DEF Mends, Given
      <4>2. Spoils(calls'[c][j])
        BY <3>1, <4>1 DEF Spoils, SameCall
      <4>3. Doomed(c)'
        BY <1>7, <4>1, <4>2 DEF Doomed, Spoils
      <4> QED
        BY <2>3, <4>3
    <3> QED
      BY <3>2, <3>3
  <2>4. ASSUME ~Doomed(c)', NEW n \in Names
        PROVE  (shown'[c][n] = Nil <=> Listing(db')[n] = Nil) /\ (Unsure(c, n)' \/ Sure(c, n)')
    <3>1. (shown[c][n] = Nil <=> Listing(db)[n] = Nil) /\ (Unsure(c, n) \/ Sure(c, n))
      BY <1>15 DEF Settled
    <3>2. CASE k.q.op = "list"
      <4>1. shown'[c][n] = Listing(db)[n]
        BY <1>8, <2>2, <3>2 DEF Harmless
      <4> QED
        BY <1>11, <4>1
    <3>3. ASSUME shown'[c][n] = shown[c][n], k.q.op = "adjust" => k.q.name # n
          PROVE  (shown'[c][n] = Nil <=> Listing(db')[n] = Nil) /\ (Unsure(c, n)' \/ Sure(c, n)')
      <4>1. CASE Unsure(c, n)
        <5>1. PICK j \in AdjustsOf(c, n) : Mends(calls[c][j], n)
          BY <4>1 DEF Unsure
        <5>2. j # i
          BY <3>3 DEF AdjustsOf, k
        <5> QED
          BY <1>1, <2>3, <2>4, <3>1, <3>3, <5>1, <5>2
      <4>2. CASE Sure(c, n)
        BY <1>11, <3>3, <4>2 DEF Sure
      <4> QED
        BY <3>1, <4>1, <4>2
    <3>4. CASE k.q.op = "run" \/ k.q.op = "create"
      <4>1. shown'[c] = shown[c]
        BY <1>8, <2>2, <3>4 DEF Harmless
      <4> QED
        BY <3>3, <3>4, <4>1
    <3>5. CASE k.q.op = "adjust" /\ k.q.name # n
      <4>1. shown'[c][n] = shown[c][n]
        BY <1>8, <2>2, <3>5 DEF Harmless
      <4> QED
        BY <3>3, <3>5, <4>1
    <3>6. CASE k.q.op = "adjust" /\ k.q.name = n
      <4>1. /\ k.code # "ok" /\ ~k.moved
            /\ shown'[c][n] = IF shown[c][n] = Nil THEN Nil ELSE k.previous
        BY <1>8, <2>2, <3>6 DEF Harmless
      <4>2. k.previous # Nil
        BY <1>1, <3>6 DEF PanelAt, Clicked, k
      <4>3. i \in AdjustsOf(c, n)
        BY <1>4, <3>6 DEF Given, AdjustsOf, k
      <4>4. ASSUME k.previous = Listing(db)[n]
            PROVE  (shown'[c][n] = Nil <=> Listing(db')[n] = Nil) /\ Sure(c, n)'
        BY <1>11, <3>1, <4>1, <4>4
      <4>5. CASE Sure(c, n)
        BY <4>1, <4>3, <4>4, <4>5 DEF Sure, k
      <4>6. CASE Unsure(c, n)
        <5>1. PICK j \in AdjustsOf(c, n) : Mends(calls[c][j], n)
          BY <4>6 DEF Unsure
        <5>2. CASE j = i
          BY <1>1, <4>1, <4>4, <5>1, <5>2 DEF Mends, k
        <5>3. CASE j # i
          BY <1>1, <2>3, <2>4, <3>1, <4>1, <4>2, <5>1, <5>3
        <5> QED
          BY <5>2, <5>3
      <4> QED
        BY <3>1, <4>5, <4>6
    <3> QED
      BY <1>9, <3>2, <3>4, <3>5, <3>6
  <2>5. CASE ~Doomed(c)'
    <3>1. Settled(c)'
      BY <2>1, <2>4, <2>5 DEF Settled
    <3> QED
      BY <1>1, <1>3, <1>15, <3>1 DEF Current, Seeded
  <2>6. CASE Doomed(c)'
    BY <1>3, <2>6 DEF Current
  <2> QED
    BY <2>5, <2>6
<1> QED
  BY <1>3, <1>12, <1>13, <1>14, <1>15 DEF Current

\* The page is gone, or was never there.
LEMMA LeftCurrent ==
    ASSUME AppInv, PanelInv, NEW c \in Clients, Leave(c), UNCHANGED db,
           \A d \in Clients \ {c} : calls'[d] = calls[d], OverKnown(c)' /\ Clicked(c)'
    PROVE  PanelInv'
<1>1. /\ cookie' = [cookie EXCEPT ![c] = 0] /\ shown' = [shown EXCEPT ![c] = Nothing]
      /\ drafts' = [drafts EXCEPT ![c] = {}] /\ queue' = [queue EXCEPT ![c] = <<>>]
      /\ blemish' = [blemish EXCEPT ![c] = FALSE]
  BY DEF Leave
<1>2. TypeOK
  BY DEF AppInv
<1>3. cookie'[c] = 0 /\ drafts'[c] = {}
  BY <1>1, <1>2 DEF TypeOK
<1>4. \A d \in Clients \ {c} :
        /\ cookie'[d] = cookie[d] /\ shown'[d] = shown[d] /\ drafts'[d] = drafts[d]
        /\ queue'[d] = queue[d] /\ blemish'[d] = blemish[d]
  BY <1>1, <1>2 DEF TypeOK
<1>5. PanelAt(c)'
  BY <1>3 DEF PanelAt, DraftsOut, Follows
<1>6. ASSUME NEW d \in Clients \ {c} PROVE PanelAt(d)'
  <2>1. Queued(d) => Queued(d)'
    BY <1>4 DEF Queued
  <2> QED
    BY <1>4, <2>1, PageKept DEF PanelInv
<1> QED
  BY <1>5, <1>6 DEF PanelInv

LEMMA InvalidatedCurrent ==
    ASSUME AppInv, PanelInv, NEW c \in Clients, Invalidated(c)
    PROVE  PanelInv'
<1>1. Leave(c) /\ UNCHANGED <<db, calls>>
  BY DEF Invalidated
<1>2. OverKnown(c)' /\ Clicked(c)'
  BY <1>1 DEF PanelInv, PanelAt, OverKnown, Clicked
<1> QED
  BY <1>1, <1>2, LeftCurrent

LEMMA ArriveCurrent ==
    ASSUME AppInv, PanelInv, NEW c \in Clients, NEW i \in Slots, Arrive(c, i)
    PROVE  PanelInv'
<1>1. PanelAt(c)
  BY DEF PanelInv
<1>2. CASE Forget(c, i)
  <2>1. /\ UNCHANGED <<db, page, queue>> /\ Arrived(c, i, FALSE)
        /\ calls[c][i] # Nil /\ calls[c][i].cookie # cookie[c]
    BY <1>2 DEF Forget
  <2>2. Gone(c, i, FALSE) /\ OtherCalls(c)
    BY <2>1, ArrivedGone
  <2>3. cookie' = cookie /\ shown' = shown /\ drafts' = drafts /\ blemish' = blemish
    BY <2>1 DEF page
  <2>4. \A d \in Clients : Queued(d) => Queued(d)'
    BY <2>1 DEF Queued
  <2>5. i \notin Mine(c)
    BY <2>1 DEF Mine
  <2>6. drafts[c] \subseteq drafts[c] \ {i}
    BY <1>1, <2>5 DEF PanelAt, DraftsOut
  <2>7. /\ OverKnown(c)' /\ Clicked(c)' /\ DraftsOut(c)' /\ Mine(c)' = Mine(c) \ {i}
        /\ OverTotal(c) => OverTotal(c)'
        /\ \A j \in Mine(c) \ {i} : Marked(c, j, i, FALSE)
    BY <1>1, <2>2, <2>3, <2>6, GoneKeeps
  <2>8. Mine(c)' = Mine(c) /\ \A j \in Mine(c) : Similar(calls'[c][j], calls[c][j])
    BY <2>5, <2>7 DEF Similar, Marked
  <2>9. Current(c) => Current(c)'
    BY <2>1, <2>3, <2>4, <2>8, Apart
  <2>10. PanelAt(c)'
    BY <1>1, <2>3, <2>7, <2>9 DEF PanelAt, Follows
  <2>11. ASSUME NEW d \in Clients \ {c} PROVE PanelAt(d)'
    BY <2>1, <2>2, <2>3, <2>4, PageKept DEF OtherCalls, PanelInv
  <2> QED
    BY <2>10, <2>11 DEF PanelInv
<1>3. CASE Receive(c, i)
  <2>1. /\ UNCHANGED <<db, cookie, queue>> /\ Arrived(c, i, TRUE) /\ Shows(c, i)
        /\ calls[c][i] # Nil
    BY <1>3 DEF Receive
  <2>2. Gone(c, i, TRUE) /\ OtherCalls(c)
    BY <2>1, ArrivedGone
  <2>3. \A d \in Clients \ {c} : blemish'[d] = blemish[d]
    BY <1>3 DEF Receive, AppInv, TypeOK
  <2>4. /\ \A d \in Clients \ {c} : shown'[d] = shown[d] /\ drafts'[d] = drafts[d]
        /\ drafts'[c] \subseteq drafts[c] \ {i}
    BY <1>1, <2>1, OthersShow
  <2>5. OverKnown(c)' /\ Clicked(c)' /\ DraftsOut(c)' /\ (OverTotal(c) => OverTotal(c)')
    BY <1>1, <2>1, <2>2, <2>4, GoneKeeps
  <2>6. Follows(c)'
    BY <1>1, <1>3, <2>1, <2>5, ReceiveKeeps DEF Follows
  <2>7. PanelAt(c)'
    BY <2>5, <2>6 DEF PanelAt
  <2>8. ASSUME NEW d \in Clients \ {c} PROVE PanelAt(d)'
    <3>1. Queued(d) => Queued(d)'
      BY <2>1 DEF Queued
    <3> QED
      BY <2>1, <2>2, <2>3, <2>4, <3>1, PageKept DEF OtherCalls, PanelInv
  <2> QED
    BY <2>7, <2>8 DEF PanelInv
<1>4. CASE ReceiveOut(c, i)
  <2>1. Arrived(c, i, FALSE) /\ Leave(c) /\ UNCHANGED db
    BY <1>4 DEF ReceiveOut
  <2>2. Gone(c, i, FALSE) /\ OtherCalls(c)
    BY <2>1, ArrivedGone
  <2>3. OverKnown(c)' /\ Clicked(c)'
    BY <1>1, <2>2, GoneKeeps
  <2> QED
    BY <2>1, <2>2, <2>3, LeftCurrent DEF OtherCalls
<1> QED
  BY <1>2, <1>3, <1>4 DEF Arrive

-----------------------------------------------------------------------------

LEMMA PanelInvInit ==
    ASSUME Init
    PROVE  PanelInv
BY DEF Init, PanelInv, PanelAt, OverKnown, DraftsOut, Clicked, Follows

LEMMA PanelInvStep ==
    ASSUME AppInv, PanelInv, [Next]_vars
    PROVE  PanelInv'
<1>1. CASE UNCHANGED vars
  <2>1. \A c \in Clients : Queued(c) => Queued(c)'
    BY <1>1 DEF vars, Queued
  <2> QED
    BY <1>1, <2>1, PageKept DEF vars, PanelInv
<1>2. ASSUME NEW c \in Clients, NEW i \in Slots, Serve(c, i) \/ Arrive(c, i)
      PROVE  PanelInv'
  BY <1>2, GuardCurrent, HandleCurrent, ArriveCurrent DEF Serve
<1>3. ASSUME NEW c \in Clients, Listen(c) \/ Beat(c) \/ Users(c) \/ ChangeAccess(c)
      PROVE  PanelInv'
  BY <1>3, StreamCurrent, InvalidatedCurrent, SignInCurrent, FormsCurrent, AccessCurrent
     DEF Users, Listen
<1>4. CASE Crash
  BY <1>4, CrashCurrent
<1> QED
  BY <1>1, <1>2, <1>3, <1>4 DEF Next

\* At rest nothing is on its way, so the page is settled and no refusal is out.
LEMMA AtRest ==
    ASSUME AppInv, PanelInv
    PROVE  PanelTrue
<1> SUFFICES ASSUME NEW c \in Clients, Quiet(c), ~blemish[c]
             PROVE  shown[c] = Listing(db) /\ drafts[c] = {}
  BY DEF PanelTrue
<1>1. cookie[c] # 0 /\ queue[c] = <<>> /\ \A i \in Slots : calls[c][i] = Nil
  BY DEF Quiet, Out
<1>2. Mine(c) = {} /\ PanelAt(c)
  BY <1>1 DEF Mine, PanelInv
<1>3. ~Reloads(c) /\ ~Doomed(c) /\ ~Lands(c)
  BY <1>1, <1>2 DEF Reloads, Queued, Doomed, Lands, Given
<1>4. Settled(c)
  BY <1>1, <1>2, <1>3 DEF PanelAt, Follows, Current
<1>5. \A n \in Names : ~Unsure(c, n)
  BY <1>2 DEF Unsure, AdjustsOf
<1>6. \A n \in Names : shown[c][n] = Listing(db)[n]
  BY <1>4, <1>5 DEF Settled, Sure
<1>7. shown[c] \in [Names -> Int \cup {Nil}] /\ Listing(db) \in [Names -> Nat \cup {Nil}]
  BY ListingTyped DEF AppInv, TypeOK
<1>8. shown[c] = Listing(db)
  BY <1>6, <1>7
<1>9. drafts[c] = {}
  BY <1>2 DEF PanelAt, DraftsOut
<1> QED
  BY <1>8, <1>9

\* A panel at rest shows the stock, for any number of browsers, calls and rows,
\* unless one of the answers it took had been overtaken, was a refusal that put
\* back an old row or of a load, or a change was published past its stream.
THEOREM PanelCorrect == Spec => []PanelTrue
<1>1. AppInv /\ PanelInv => PanelTrue
  BY AtRest
<1>2. Init => PanelInv
  BY PanelInvInit
<1>3. AppInv /\ PanelInv /\ [Next]_vars => PanelInv'
  BY PanelInvStep
<1> QED
  BY <1>1, <1>2, <1>3, AppInvHolds, PTL DEF Spec
=============================================================================
