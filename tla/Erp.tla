--------------------------------- MODULE Erp ---------------------------------
(* The supplies and the production of one organization of the example          *)
(* (examples/pokemon-erp/apps/api/src/erp.service.ts).  A handler is           *)
(* synchronous, so no other one runs between its statements; but a statement   *)
(* outside a transaction is durable when it returns, and the process can die   *)
(* after it.  Units lists the states of the database that a request leaves     *)
(* behind one after the other.                                                 *)
(*                                                                             *)
(* An organization's supplies never lose or change their names, which are      *)
(* unique, so a name stands for the row's id; an id of another organization    *)
(* is one that the statements do not find.                                     *)
EXTENDS Integers, Sequences

CONSTANTS
    Names,
    Shell,          \* 'Poké Ball Shell', the material of every product
    Blank,          \* a name or category of spaces
    SeedItems,      \* the names and quantities that seed inserts
    Nil             \* no row, no answer

Rows == [quantity : Nat, seeded : BOOLEAN]

\* ordered: the units of all orders.  given: the shells seeded, created and
\* adjusted, less those taken out by hand.
Databases == [stock : [Names -> Rows \cup {Nil}], ordered : Nat, given : Int]

Adjustments(cs) == [op : {"adjust"}, name : Names, change : cs]
Creations(qs) == [op : {"create"}, name : Names \cup {Blank}, quantity : qs]
Runs(qs) == [op : {"run"}, quantity : qs]
List == [op |-> "list"]

Empty(d) == \A n \in Names : d.stock[n] = Nil

Insert(d, name, quantity, seeded) ==
    [d EXCEPT !.stock[name] = [quantity |-> quantity, seeded |-> seeded],
              !.given = IF name = Shell THEN @ + quantity ELSE @]

SeedPrefix(d, k) ==
    LET put[i \in 0 .. Len(SeedItems)] ==
            IF i = 0 THEN d ELSE Insert(put[i - 1], SeedItems[i][1], SeedItems[i][2], TRUE)
    IN  put[k]

\* Mutant of SeedUnits: the material comes last.
SeedBackwards(d) ==
    IF Empty(d)
    THEN [k \in 1 .. Len(SeedItems) |->
             LET put[i \in 0 .. Len(SeedItems)] ==
                     IF i = 0 THEN d
                     ELSE LET x == SeedItems[Len(SeedItems) + 1 - i]
                          IN  Insert(put[i - 1], x[1], x[2], TRUE)
             IN  put[k]]
    ELSE <<>>

\* seed: one insert after the other, where there is no supply yet.
SeedUnits(d) ==
    IF Empty(d) THEN [k \in 1 .. Len(SeedItems) |-> SeedPrefix(d, k)] ELSE <<>>

LastOf(d, units) == IF units = <<>> THEN d ELSE units[Len(units)]

\* The checks before the first statement.
Valid(q) ==
    CASE q.op = "create" -> q.name # Blank /\ q.quantity >= 0
      [] q.op = "adjust" -> q.change # 0
      [] q.op = "run"    -> q.quantity >= 1
      [] OTHER           -> TRUE

\* Mutant of InStock: the adjustment is by the id alone.
AnyStock(d, name, change) == d.stock[name] # Nil /\ change \in Int

InStock(d, name, change) == d.stock[name] # Nil /\ d.stock[name].quantity + change >= 0

Adjusted(d, name, change) ==
    [d EXCEPT !.stock[name].quantity = @ + change, !.given = IF name = Shell THEN @ + change ELSE @]

\* Mutant of Produced: each statement commits on its own.
ProducedApart(d, quantity) ==
    LET taken == [d EXCEPT !.stock[Shell].quantity = @ - 2 * quantity]
    IN  <<taken, [taken EXCEPT !.ordered = @ + quantity]>>

\* The transaction of runProduction: the order and its material, or nothing.
Produced(d, quantity) ==
    <<[d EXCEPT !.stock[Shell].quantity = @ - 2 * quantity, !.ordered = @ + quantity]>>

\* listSupplies and runProduction seed first.
Opened(d) == LastOf(d, SeedUnits(d))

\* The request does what it asks: else it answers an error.  A second supply of
\* a name fails the UNIQUE constraint, and a production that finds no shell row
\* reads a property of undefined.
Granted(d, q) ==
    /\ Valid(q)
    /\ q.op = "create" => d.stock[q.name] = Nil
    /\ q.op = "adjust" => InStock(d, q.name, q.change)
    /\ q.op = "run" => InStock(Opened(d), Shell, - 2 * q.quantity)

Seeds(q) == q.op = "list" \/ (q.op = "run" /\ Valid(q))

Units(d, q) ==
    (IF Seeds(q) THEN SeedUnits(d) ELSE <<>>) \o
    (IF ~Granted(d, q) THEN <<>>
     ELSE CASE q.op = "create" -> <<Insert(d, q.name, q.quantity, FALSE)>>
            [] q.op = "adjust" -> <<Adjusted(d, q.name, q.change)>>
            [] q.op = "run"    -> Produced(Opened(d), q.quantity)
            [] OTHER           -> <<>>)

After(d, q) == LastOf(d, Units(d, q))

\* The supplies as they are listed.
Listing(d) == [n \in Names |-> IF d.stock[n] = Nil THEN Nil ELSE d.stock[n].quantity]
=============================================================================
