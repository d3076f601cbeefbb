------------------------------- MODULE ErpApp -------------------------------
(* The example application: browsers that show the supplies                    *)
(* (apps/web/src/components/SuppliesPanel.tsx, api.ts, realtime.ts) and the    *)
(* API server that guards, answers and announces (packages/nest/src/index.ts,  *)
(* apps/api/src/supplies.controller.ts, production.controller.ts,              *)
(* session.service.ts, updates.controller.ts, updates.service.ts) over Erp.    *)
(*                                                                             *)
(* A call goes through the guard, which loads the session and then the roles,  *)
(* through the controller, which loads the session again, and through the      *)
(* service; answers of one browser's calls arrive in any order, the events of  *)
(* its stream in theirs.  A change of a member's access deletes its sessions   *)
(* in the same transaction, as IamService does.                                *)
EXTENDS Erp, Functions

CONSTANTS
    Clients,        \* browsers, each of a member of the organization
    Slots,          \* bound: the calls that a browser has out, numbered
    Changes, Quantities,  \* the inputs of the forms
    MaxCalls,       \* bound: calls that users make
    MaxLogins, MaxCrashes, MaxAccess  \* bounds of the actions they name

ASSUME BoundsAssumption ==
    /\ Slots \subseteq Nat
    /\ {MaxCalls, MaxLogins, MaxCrashes, MaxAccess} \subseteq Nat
    /\ Changes \subseteq Int /\ Quantities \subseteq Int
\* The seeded supplies are written in the source: the shells first, no name twice.
ASSUME ItemsAssumption ==
    /\ Shell \in Names /\ Blank \notin Names
    /\ SeedItems \in Seq(Names \X Nat)
    /\ SeedItems # <<>> => SeedItems[1][1] = Shell
    /\ \A i, j \in 1 .. Len(SeedItems) : SeedItems[i][1] = SeedItems[j][1] => i = j
    /\ Nil \notin Rows /\ Nil \notin Int

Requests == UNION {{List}, Adjustments(Changes), Creations(Quantities), Runs(Quantities)}

VARIABLES
    db,
    access,     \* the member's roles allow it the supplies and the production
    session,    \* the session of the browser that the server knows; 0: none
    cookie,     \* the session that the browser believes in; 0: signed out
    shown,      \* the supplies in the panel
    drafts,     \* the slots of creations shown before they are answered
    calls,      \* the calls of each browser
    stream,     \* the event stream of each browser
    queue,      \* the events that wait for their session check
    blemish,    \* why the panel may be wrong, see PanelTrue
    used        \* how often each bounded action was taken

page == <<cookie, shown, drafts, stream, blemish>>
vars == <<db, access, session, cookie, shown, drafts, calls, stream, queue, blemish, used>>

Nothing == [n \in Names |-> Nil]

\* listing: what the answer tells of the stock.  over: the calls of the browser
\* whose answers were given earlier and had not arrived.  late: an answer given
\* after this one arrived before it.  moved: the panel took another answer
\* since the call was made.
Calls == [q : Requests, cookie : 1 .. MaxLogins, previous : Int \cup {Nil},
          stage : {"sent", "guarded", "checked", "answered"},
          code : {"none", "ok", "refused", "unauthorized", "failed"},
          listing : [Names -> Nat \cup {Nil}],
          over : SUBSET Slots, late : BOOLEAN, moved : BOOLEAN]

ASSUME CallAssumption == Nil \notin Calls

\* The type invariant; that no supply is ever negative is part of it.
TypeOK ==
    /\ db \in Databases
    /\ access \in [Clients -> BOOLEAN]
    /\ session \in [Clients -> 0 .. MaxLogins] /\ cookie \in [Clients -> 0 .. MaxLogins]
    /\ shown \in [Clients -> [Names -> Int \cup {Nil}]]
    /\ drafts \in [Clients -> SUBSET Slots]
    /\ calls \in [Clients -> [Slots -> Calls \cup {Nil}]]
    /\ stream \in [Clients -> {"off", "connecting", "admitted", "open", "closed"}]
    /\ queue \in [Clients -> Seq({"supplies", "other"})]
    /\ blemish \in [Clients -> BOOLEAN]
    /\ used \in [calls : Nat, logins : Nat, crashes : Nat, changes : Nat]

Init ==
    /\ db = [stock |-> [n \in Names |-> Nil], ordered |-> 0, given |-> 0]
    /\ access = [c \in Clients |-> TRUE]
    /\ session = [c \in Clients |-> 0] /\ cookie = [c \in Clients |-> 0]
    /\ shown = [c \in Clients |-> Nothing] /\ drafts = [c \in Clients |-> {}]
    /\ calls = [c \in Clients |-> [i \in Slots |-> Nil]]
    /\ stream = [c \in Clients |-> "off"] /\ queue = [c \in Clients |-> <<>>]
    /\ blemish = [c \in Clients |-> FALSE]
    /\ used = [calls |-> 0, logins |-> 0, crashes |-> 0, changes |-> 0]

-----------------------------------------------------------------------------
(* The API server. *)

Out(c) == {i \in Slots : calls[c][i] # Nil}
Known(c, k) == k.cookie = session[c]

Goto(c, i, stage) == calls' = [calls EXCEPT ![c][i].stage = stage]

Reply(c, i, code, listing) ==
    calls' = [calls EXCEPT ![c][i] =
        [@ EXCEPT !.stage = "answered", !.code = code, !.listing = listing,
                  !.over = {j \in Out(c) : calls[c][j].stage = "answered"}]]

\* PermissionGuard: the session, then the roles that the database has then.
Guard(c, i) ==
    LET k == calls[c][i]
    IN  /\ k # Nil /\ k.stage = "sent"
        /\ \/ Known(c, k) /\ access[c] /\ Goto(c, i, "guarded")
           \/ ~Known(c, k) /\ Reply(c, i, "unauthorized", Nothing)
           \/ Known(c, k) /\ ~access[c] /\ Reply(c, i, "refused", Nothing)
        /\ UNCHANGED <<db, access, session, page, queue, used>>

\* SessionService.active in the controller.
Check(c, i) ==
    LET k == calls[c][i]
    IN  /\ k # Nil /\ k.stage = "guarded"
        /\ \/ Known(c, k) /\ Goto(c, i, "checked")
           \/ ~Known(c, k) /\ Reply(c, i, "unauthorized", Nothing)
        /\ UNCHANGED <<db, access, session, page, queue, used>>

\* UpdatesService.publish: a stream that is not open misses the event.
Publish(event) ==
    /\ queue' = [c \in Clients |-> IF stream[c] = "open" THEN Append(queue[c], event) ELSE queue[c]]
    /\ blemish' = [c \in Clients |->
         blemish[c] \/ (event = "supplies" /\ cookie[c] # 0 /\ stream[c] # "open")]

\* Mutant of Announced: a production tells of its order only.
AnnouncedSupply(q) == q.op \in {"adjust", "create"}

\* The requests that publish the topic "supplies".
Announced(q) == q.op \in {"adjust", "create", "run"}

Told(d, q) ==
    CASE q.op = "list" -> Listing(d)
      [] q.op = "run"  -> Nothing
      [] OTHER         -> [Nothing EXCEPT ![q.name] = Listing(d)[q.name]]

\* The service and the rest of the controller, without an await.
Handle(c, i) ==
    LET q == calls[c][i].q
    IN  /\ calls[c][i] # Nil /\ calls[c][i].stage = "checked"
        /\ db' = After(db, q)
        /\ IF Granted(db, q)
           THEN /\ Reply(c, i, "ok", Told(After(db, q), q))
                /\ IF Announced(q) THEN Publish("supplies") ELSE UNCHANGED <<queue, blemish>>
           ELSE /\ Reply(c, i, "refused", Nothing)
                /\ UNCHANGED <<queue, blemish>>
        /\ UNCHANGED <<access, session, cookie, shown, drafts, stream, used>>

\* Mutant of SignedOut: the sessions outlive the change.
StillSignedIn(c) == session' = [session EXCEPT ![c] = session[c]]

SignedOut(c) == session' = [session EXCEPT ![c] = 0]

\* A mutation of a role or of the member's roles, and the hook after it.
ChangeAccess(c) ==
    /\ used.changes < MaxAccess
    /\ used' = [used EXCEPT !.changes = @ + 1]
    /\ access' = [access EXCEPT ![c] = ~@]
    /\ SignedOut(c)
    /\ Publish("other")
    /\ UNCHANGED <<db, cookie, shown, drafts, calls, stream>>

\* The process dies, perhaps between two statements of a handler, and starts
\* again: calls fail, and the browsers' streams connect again.
Crash ==
    /\ used.crashes < MaxCrashes
    /\ used' = [used EXCEPT !.crashes = @ + 1]
    /\ \/ db' = db
       \/ \E c \in Clients : \E i \in Out(c) :
            /\ calls[c][i].stage = "checked"
            /\ \E d \in Range(Units(db, calls[c][i].q)) : db' = d
    /\ calls' = [c \in Clients |-> [i \in Slots |->
         IF calls[c][i] = Nil \/ calls[c][i].stage = "answered" THEN calls[c][i]
         ELSE [calls[c][i] EXCEPT !.stage = "answered", !.code = "failed"]]]
    /\ stream' = [c \in Clients |->
         IF stream[c] \in {"admitted", "open"} THEN "connecting" ELSE stream[c]]
    /\ queue' = [c \in Clients |-> <<>>]
    /\ blemish' = [c \in Clients |-> blemish[c] \/ cookie[c] # 0]
    /\ UNCHANGED <<access, session, cookie, shown, drafts>>

-----------------------------------------------------------------------------
(* The browser. *)

Call(q, under, previous) ==
    [q |-> q, cookie |-> under, previous |-> previous, stage |-> "sent", code |-> "none",
     listing |-> Nothing, over |-> {}, late |-> FALSE, moved |-> FALSE]

Vacant(c) == Slots \ Out(c)
First(c) == CHOOSE i \in Vacant(c) : \A j \in Vacant(c) : i <= j

SendUnder(c, under, q, previous) ==
    /\ Vacant(c) # {}
    /\ calls' = [calls EXCEPT ![c][First(c)] = Call(q, under, previous)]

Send(c, q, previous) == SendUnder(c, cookie[c], q, previous)

\* The page is loaded again: the panel asks for the supplies and opens its
\* stream.  Answers to earlier calls have nowhere to go.
SignIn(c) ==
    /\ cookie[c] = 0 /\ used.logins < MaxLogins
    /\ used' = [used EXCEPT !.logins = @ + 1]
    /\ cookie' = [cookie EXCEPT ![c] = used.logins + 1]
    /\ session' = [session EXCEPT ![c] = used.logins + 1]
    /\ stream' = [stream EXCEPT ![c] = "connecting"]
    /\ SendUnder(c, used.logins + 1, List, Nil)
    /\ UNCHANGED <<db, access, shown, drafts, queue, blemish>>

\* authClient.signOut: the panel goes, and with it its stream.  The user's own
\* sign-out does the same and is left out.
Leave(c) ==
    /\ cookie' = [cookie EXCEPT ![c] = 0]
    /\ session' = [session EXCEPT ![c] = 0]
    /\ shown' = [shown EXCEPT ![c] = Nothing] /\ drafts' = [drafts EXCEPT ![c] = {}]
    /\ stream' = [stream EXCEPT ![c] = "off"] /\ queue' = [queue EXCEPT ![c] = <<>>]
    /\ blemish' = [blemish EXCEPT ![c] = FALSE]

User(c) ==
    /\ cookie[c] # 0 /\ used.calls < MaxCalls /\ Vacant(c) # {}
    /\ used' = [used EXCEPT !.calls = @ + 1]
    /\ UNCHANGED <<db, access, session, cookie, stream, queue, blemish>>

\* The buttons of a row show the new quantity at once; -1 is off at zero.
Adjust(c, name, change) ==
    /\ User(c)
    /\ shown[c][name] # Nil /\ (shown[c][name] = 0 => change # -1)
    /\ shown' = [shown EXCEPT ![c][name] = @ + change]
    /\ Send(c, [op |-> "adjust", name |-> name, change |-> change], shown[c][name])
    /\ UNCHANGED drafts

\* The form shows the new supply at once, under an id of its own.
Create(c, q) ==
    /\ User(c)
    /\ drafts' = [drafts EXCEPT ![c] = @ \cup {First(c)}]
    /\ Send(c, q, Nil)
    /\ UNCHANGED shown

\* The production panel, in another window of the browser.
Run(c, q) == User(c) /\ Send(c, q, Nil) /\ UNCHANGED <<shown, drafts>>

\* The slot is free, and the calls that were overtaken are marked.
Arrived(c, i, moves) ==
    calls' = [calls EXCEPT ![c] = [j \in Slots |->
        IF j = i \/ calls[c][j] = Nil THEN Nil
        ELSE [calls[c][j] EXCEPT !.over = @ \ {i}, !.late = @ \/ j \in calls[c][i].over,
                                 !.moved = @ \/ moves]]]

Row(c, name, quantity) ==
    shown' = [shown EXCEPT ![c][name] = IF @ = Nil THEN Nil ELSE quantity]

Shows(c, i) ==
    LET k == calls[c][i]
        q == k.q
        ok == k.code = "ok"
    IN  CASE q.op = "list" /\ ok ->
               shown' = [shown EXCEPT ![c] = k.listing] /\ drafts' = [drafts EXCEPT ![c] = {}]
          [] q.op = "adjust" ->
               Row(c, q.name, IF ok THEN k.listing[q.name] ELSE k.previous) /\ UNCHANGED drafts
          [] q.op = "create" ->
               /\ drafts' = [drafts EXCEPT ![c] = @ \ {i}]
               /\ shown' = IF ok /\ i \in drafts[c]
                           THEN [shown EXCEPT ![c][q.name] = k.listing[q.name]] ELSE shown
          [] OTHER -> UNCHANGED <<shown, drafts>>

\* An answer arrives where its page is gone.
Forget(c, i) ==
    LET k == calls[c][i]
    IN  /\ k # Nil /\ k.stage = "answered" /\ k.cookie # cookie[c]
        /\ Arrived(c, i, FALSE)
        /\ UNCHANGED <<db, access, session, page, queue, used>>

\* A refused call puts back the row as it was when the call was made.
Receive(c, i) ==
    LET k == calls[c][i]
        spoilt == \/ k.late
                  \/ k.code # "ok" /\ (k.q.op = "list" \/ (k.q.op = "adjust" /\ k.moved))
    IN  /\ k # Nil /\ k.stage = "answered" /\ k.cookie = cookie[c] /\ k.code # "unauthorized"
        /\ Arrived(c, i, TRUE)
        /\ Shows(c, i)
        /\ blemish' = [blemish EXCEPT ![c] = @ \/ spoilt]
        /\ UNCHANGED <<db, access, session, cookie, stream, queue, used>>

\* api: an answer 401 signs out.
ReceiveOut(c, i) ==
    LET k == calls[c][i]
    IN  /\ k # Nil /\ k.stage = "answered" /\ k.cookie = cookie[c] /\ k.code = "unauthorized"
        /\ Arrived(c, i, FALSE)
        /\ Leave(c)
        /\ UNCHANGED <<db, access, used>>

-----------------------------------------------------------------------------
(* The event stream. *)

\* The server asks for the session; an EventSource that is answered 401 does
\* not try again.
Connect(c) ==
    /\ stream[c] = "connecting"
    /\ stream' = [stream EXCEPT ![c] = IF cookie[c] = session[c] THEN "admitted" ELSE "closed"]
    /\ UNCHANGED <<db, access, session, cookie, shown, drafts, calls, queue, blemish, used>>

\* Then it subscribes the stream: what is published before goes past it, even
\* what tells that the session is gone.
Subscribe(c) ==
    /\ stream[c] = "admitted"
    /\ stream' = [stream EXCEPT ![c] = "open"]
    /\ UNCHANGED <<db, access, session, cookie, shown, drafts, calls, queue, blemish, used>>

\* The interval of 25 seconds.  Its event changes something only where the check
\* finds the session gone; the others are left out.
Beat(c) ==
    /\ stream[c] = "open" /\ queue[c] = <<>> /\ cookie[c] # session[c]
    /\ queue' = [queue EXCEPT ![c] = <<"other">>]
    /\ UNCHANGED <<db, access, session, page, calls, used>>

\* Mutant of Lapsed: only events with topics are checked.
LapsedBusy(c) == cookie[c] # session[c] /\ Head(queue[c]) = "supplies"

Lapsed(c) == cookie[c] # session[c]

\* Each event is checked in its turn; the supplies are loaded again.
Deliver(c) ==
    /\ queue[c] # <<>> /\ ~Lapsed(c)
    /\ queue' = [queue EXCEPT ![c] = Tail(@)]
    /\ IF Head(queue[c]) = "supplies" THEN Send(c, List, Nil) ELSE UNCHANGED calls
    /\ UNCHANGED <<db, access, session, page, used>>

Invalidated(c) ==
    /\ queue[c] # <<>> /\ Lapsed(c)
    /\ Leave(c)
    /\ UNCHANGED <<db, access, calls, used>>

-----------------------------------------------------------------------------

Serve(c, i) == Guard(c, i) \/ Check(c, i) \/ Handle(c, i)
Arrive(c, i) == Forget(c, i) \/ Receive(c, i) \/ ReceiveOut(c, i)
Listen(c) == Connect(c) \/ Subscribe(c) \/ Deliver(c) \/ Invalidated(c)

Users(c) ==
    \/ SignIn(c)
    \/ \E q \in Adjustments(Changes) : Adjust(c, q.name, q.change)
    \/ \E q \in Creations(Quantities) : Create(c, q)
    \/ \E q \in Runs(Quantities) : Run(c, q)

Next ==
    \/ \E c \in Clients :
         \/ \E i \in Slots : Serve(c, i) \/ Arrive(c, i)
         \/ Listen(c) \/ Beat(c) \/ Users(c) \/ ChangeAccess(c)
    \/ Crash

Spec == Init /\ [][Next]_vars

\* The server works on what it was asked, answers and events arrive, and the
\* interval goes on; users and administrators need do nothing.
FairSpec ==
    /\ Spec
    /\ \A c \in Clients :
         /\ \A i \in Slots : WF_vars(Serve(c, i)) /\ WF_vars(Arrive(c, i))
         /\ WF_vars(Listen(c)) /\ WF_vars(Beat(c))

-----------------------------------------------------------------------------

\* Each completed order has taken its material, two shells a unit, and nothing
\* else takes any: an order is never stored without its material or the
\* material taken without an order, wherever the process dies.
OrdersPaid ==
    db.given = 2 * db.ordered + (IF db.stock[Shell] = Nil THEN 0 ELSE db.stock[Shell].quantity)

\* An organization that has any of the seeded supplies has the shells, though
\* seed inserts one row after the other outside a transaction, starts only
\* where there is none and is never finished later: production lacks its row
\* only where a supply was created by hand before the first listing.
ShellWithSeeds ==
    (\E n \in Names : db.stock[n] # Nil /\ db.stock[n].seeded) =>
        db.stock[Shell] # Nil /\ db.stock[Shell].seeded

\* The guard's decision is good until the controller loads the session again:
\* a call that it let through is either still allowed or has lost its session.
\* So only the step between that and the handler, which awaits no more of the
\* database, can outlive a change of the member's roles.
GuardHolds ==
    \A c \in Clients : \A i \in Out(c) :
        calls[c][i].stage = "guarded" /\ Known(c, calls[c][i]) => access[c]

Quiet(c) == cookie[c] # 0 /\ stream[c] = "open" /\ queue[c] = <<>> /\ Out(c) = {}

\* A panel at rest shows the stock of the server, whoever changed it and in
\* whatever order answers and events met, unless since it was opened an answer
\* was overtaken by a later one, a refusal put back a row over an answer that
\* came since the click, a load was refused, or a change was published while
\* its stream was not open: nothing loads the supplies again then.
PanelTrue ==
    \A c \in Clients : Quiet(c) /\ ~blemish[c] => shown[c] = Listing(db) /\ drafts[c] = {}

\* A browser whose session a change of access deleted leaves by itself, at the
\* latest with the next event of the interval; unless it had to connect its
\* stream again meanwhile and was refused, which the page does not notice.
SignsOut ==
    \A c \in Clients : []<>(cookie[c] \in {0, session[c]} \/ stream[c] = "closed")
=============================================================================
