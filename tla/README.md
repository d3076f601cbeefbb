# TLA+ models of better-auth-ac

better-auth-ac adds roles, permissions and audited role administration to Better Auth: a core of pure
rules, a plugin that stores roles in the Better Auth database, a CASL generator with a command line, a
Nest guard, and an example application. This directory holds TLA+ models of it, the TLC runs that
check them and the proofs that TLAPS checks. Paths below are relative to the repository; `index.ts`
alone is `packages/plugin/src/index.ts`, and panels without a path are in
`examples/pokemon-erp/apps/web/src/components`.

## 1. The system

| Component | State | Operations | What is hard | What makes it correct | Module |
| --- | --- | --- | --- | --- | --- |
| Core rules, `packages/core/src/index.ts` | none | `evaluate`, `assertRoleMutation`, `assertKnownEffects`, `diffEffects`, `defineCatalog` | order of the roles, denial, `*`, tenant and team together | the decision is a function of the set of the tenant's effects; a denial wins; the trace explains it | `AcCore`, `AcEvaluate`, `Catalog` |
| IamService and store, `index.ts` 143-710 | tables `iamRole`, `iamRoleName`, `iamRolePermission`, `iamMemberRole`, `member.iamRoleVersion` | create, update, delete a role; set its permissions; set and read a member's roles; ability | many statements per transaction, interleaved with other requests; checks made on rows read earlier; failures in between | names reserved; assignments live and of the tenant; versions and audit agree; nobody changes what it may not; sessions end when decisions change | `IamService`, `RoleRegistry` |
| Endpoints, actor, schema, `index.ts` 732-981 | the service, the artifact and its ETag | one endpoint per method, catalog, artifact | untrusted ids and versions | every id is resolved within the actor's organization | `IamService`, `Catalog`, `PolicyFile` |
| Database and Better Auth (external) | rows, sessions | transactions, compare-and-set, cascades, session deletion | isolation level, locks | transactions are all or nothing | `IamService` |
| CASL rules and module, `packages/casl/src/index.ts` | none | `toCaslRules`, policy tree, module, ETag | CASL's rule order; colliding names | the client's rules decide what `evaluate` decides | `Catalog`, `Ability` |
| CASL command line, `packages/casl/src/cli.ts` | policy file, configuration, temporary file | `init`, `pull`, `check` | a kill around the rename, 304, concurrent commands, foreign answers | a file is always whole, and what a command reports was true while it ran | `PolicyFile` |
| Nest guard and discovery, `packages/nest/src/index.ts` | the catalog | `onModuleInit`, `canActivate` | catalog used before discovery; group keys | a handler is entered only by a decision that allows it | `Catalog`, `Ability`, `ErpApp` |
| Example API, supplies and production | SQLite rows, one connection | list, create, adjust, run, seed | statements outside a transaction, seeding, a kill in between | stock, orders and seeds agree | `Erp` |
| Example API, sessions and updates | sessions, streams | guard, session check, publish, interval | access that changes during a call; events checked one at a time | a session that was deleted gets nothing and its page leaves | `ErpApp` |
| Example web client | panels, drafts, stream | optimistic edits, reloads on events | rolling back over later answers, predicted versions, answers out of order | the panel converges to the server's state; a save replaces what its user saw | `ErpApp`, `Panels` |

Interactions: an endpoint resolves the actor and calls one `IamService` method; the method runs in one
transaction of the store; the store calls the adapter, the audit callback and Better Auth's session
deletion inside it. The Nest guard and `ability` call `evaluate` on the same tables. The example
publishes an update after a successful mutation, upon which clients load their ability and panels again.
The catalog that Nest discovers is what the plugin evaluates and serves as a policy module, and the
command line installs that module in the frontend.

## 2. The modules

| Module | Models | Role |
| --- | --- | --- |
| `AcCore` | the pure rules | operators, no variables |
| `AcEvaluate` | `evaluate` as its loop | detailed against `AcCore`'s `Decide` |
| `IamService` | the service over the store and the database | the core: one action per statement |
| `RoleRegistry` | what the service promises | abstract: one action per change; `IamService` implements it |
| `Catalog` | discovery, `defineCatalog`, the policy tree | one action per handler, definition and key |
| `Ability` | the guard against the client's CASL rules | composes `Catalog` and `AcCore` |
| `PolicyFile` | the command line, its files and the server's artifact | one action per await |
| `Erp` | supplies and production, statement by statement | operators, no variables |
| `ErpApp` | browsers, calls, guard, session, stream over `Erp` | composition |
| `Panels` | the role and member panels over `RoleRegistry` | composition |
| `AcEvaluate_proofs`, `IamService_proofs`, `IamTables_proofs`, `IamRegistry_proofs`, `Ability_proofs`, `PolicyFile_proofs`, `ErpApp_proofs`, `Panels_proofs` | | theorems |
| `MCAcEvaluate`, `MCIamService`, `MCAbility`, `MCPolicyFile`, `MCErp`, `MCPanels` | | instances for TLC |

### Rules: AcCore, AcEvaluate

`AcCore` writes a role's stored effects as a table from keys (and `*`) to ALLOW, DENY or NONE.
`Decide` states the decision of `evaluate` without order. `AcEvaluate` is the code's loop: `Bypass`
(lines 187-195), `Consider` (one role, 200-223) and `Conclude` (the team check, 225-250).

### The service: IamService, RoleRegistry

`IamService` gives each request in flight a process. `pc` names the statement the request runs next,
and the action of that name is the statement:

| Label | Action | Code |
| --- | --- | --- |
| boundary | `ReadBoundary` | `actorBoundary` and `require`, 471-498, and createRole's `assertRoleMutation` |
| target | `ReadTarget` | `getRole`, whose row `target` keeps, and `assertRoleMutation`, 547-552, 571-573, 594-599 |
| current | `ReadCurrent` | the row that the store's updateRole reads, 219-222 |
| search | `Search` | the search for a role of the same name, 187-194 and 223-231 |
| reserve | `Reserve` | the insert of an iamRoleName row, after createRole's role row, 195-215 and 232-245 |
| before | `ReadBefore` | the effects stored before, 600-605 |
| roles, assigned | `ReadRoles`, `ReadAssigned` | setMemberRoles' checks and its early answer, 631-649; memberRoles, 673 |
| version | `ReadVersion` | 675 |
| list | `ListMembers` | `listMemberIdsForRole`: before deleteRole's writes, 575, after setRolePermissions', 607 |
| cas | `CasRole`, `CasMember` | the compare-and-set, 246, 264, 272, 333-360 |
| cascade | `Cascade` | the foreign keys that deleteRole sets off, 780-808 |
| clear, assign | `ClearRoles`, `AssignRoles` | the member's rows deleted, then inserted, 362-372 |
| invalidate | `Invalidate` | 405: one user's sessions; `SignOut` puts the members in the order in which their rows came, which is any |
| commit | `CommitCreate` ... `CommitMember` | the commit, with the rows, cascades and audit event the transaction wrote |

A transaction's writes are private until its commit, so the tables change in the Commit actions only,
and the locks that its writes hold meanwhile are read off its `pc` (`HoldsRole`, `HoldsMember`,
`HoldsName`, `Frees`, `References`, `Cascaded`, `Cleared`, `Deleted`). A statement that needs a row another transaction has locked
waits for it (`Waits`). `Isolation` is `"serial"` for the
single SQLite connection, where a request begins only when no other is in flight, and `"readCommitted"` for
PostgreSQL's default, where each statement reads what is committed when it runs. `Abort` is a failure at
any statement: of the database (a deadlock's victim included), of the audit callback, or of the process.

A request may expect any version: the endpoints take any number, `docs/security.md:7` counts versions among the
untrusted input, and RolesPanel.tsx:91,120 and MembersPanel.tsx:88 send versions that they predict. So the row that
`ReadTarget` checked, or that the store's updateRole read, need not be the row that the compare-and-set finds at
the expected version. `ReadAtExpected` says that it was read at that version, and the properties say what then holds.

`RoleRegistry` has no requests: `CreateRole`, `UpdateRole`, `SetRolePermissions`, `DeleteRole` and
`SetMemberRoles` each happen at once, at the version they expect, under a free name, with one audit event that
tells the change. `IamService` instantiates it over its committed tables (`Registry`).
`ImplementsRegistry` says that each commit is one such change and no other statement is any; it holds of one
transaction at a time. `CommitsAreChanges` says it of READ COMMITTED, but for commits that change a role by what they read
of it at another version, and for those made while the reservations are in a disorder that such a commit left.

What the model leaves out or joins:

- The reads of `actorBoundary`, those of setMemberRoles' loop over the roles and its inserts are one
  statement each; so are createRole's role row, which nobody else can see or name, and its reservation;
  setMemberRoles' read of the member with the compare-and-set that follows, which repeats its condition; and
  invalidateSessions' read of the member rows, of which only the user is used, with the statement before. The rows
  that are written under the lock a compare-and-set took (effects, the old reservation) appear with the commit.
- The rows that one statement deletes (a member's assignments, a cascade, one user's sessions) are locked together.
  Locked one by one, a cascade and a clearing that share two rows could also wait for each other; that is a
  circle of the same two operations that `DeadlocksKnown` names.
- Where the order of a cascade's deletions decides whether a competing insert waits or fails at once, the model
  waits; the failure at once is `Abort`.
- Colours, dates and correlation ids; `listRoles`, which changes nothing; the limits of 100 and 10 000 rows.
- Sessions are per member, deletion is per user. Owners' abilities are always everything and not kept.
  A wildcard actor that reads its own row gets an empty answer, which the model does not tell from a refusal.
- A role id created is new, and ids that a request names existed once (`IdsKnown`); the organization of a request is the
  one in the actor's verified session. `Asked` is the set of requests that a run makes.
- Organization owners leave no rows in `iamRole`; members and organizations are neither created nor deleted.

### From decorators to decisions: Catalog, Ability

`Catalog` runs an application's start: `Discover` takes the methods one by one as `onModuleInit` does, `Define`
is the loop of `defineCatalog`, `Initialize` the plugin taking the catalog, `PlaceKey` one insertion into
the policy tree in the order of the sort, `Listen` the end. `Fail` keeps the fault that the error names. A key is the
sequence of its segments, and `NameOf` gives the identifier a segment becomes, so that two spellings can
meet. `LocaleRank` and `CodeRank` are the two orders in which the code sorts keys.

`Ability` adds the client: `AskAbility` starts with an actor, `Emit` appends the rule of one key as
`toCaslRules` does, and `Can` reads the list backwards as CASL does (external). `GuardAllows` is
`canActivate` with the example's resolver, which turns an owner into a role that allows the catalog.

### The command line: PolicyFile

A command's `pc` is the await it is at: `LookForConfig`, `Overwrite`, `AskInputs`, `Propose`, `OfferPull`
(init), `ReadConfig`, `ReadLocal`, `Respond` or `RespondBadly` (the server and whatever stands before it),
`Receive`, then `MakeTemp`, `FillTemp`, `Rename`, `Clean` of `atomicWrite`. `WriteFails` and `ReadFails` are
errors of the disk, `Undo` the finally block after them, whose `rm` may fail too (`unremoved`), as that of `Clean` may, `Crash` a kill.
A question of init may be answered with what is neither yes nor no, upon which init fails. A request has a validator only
where the local file is valid (`Conditional`); to any other a cache may answer 304. `Edit` is a person or another program that changes
a file, `Redeploy` another catalog at the server. A text is a record of what the checks look at: its size,
version, marks and format. `since` is a ghost of what the server served since a command began, `touched`
one of an output changed under it.

### The example: Erp, ErpApp, Panels

A handler of the supplies service is synchronous, so no other handler runs between its statements, but each statement
outside a transaction is durable by itself: `Units` lists the databases a request leaves behind one after the
other, and `ErpApp`'s `Crash` stops after any of them. `ErpApp` follows a call through `Guard` (session,
then roles), `Check` (the controller's own session lookup), `Handle` (the service and the publication) and `Forget`, `Receive` or
`ReceiveOut` (the browser takes the answer: a 401 leaves). `Connect`, `Subscribe`, `Deliver`, `Beat` and `Invalidated` are the
stream: the request that opens it, the controller that subscribes after its session check, an event whose session check passes, the 25 s interval, and
an event to a session that is gone.

`Panels` runs over `RoleRegistry` instead of the statements of `IamService`: saves are shown at once with the
version counted up, and put back when refused (`Restored`); `Others` are other clients; `Deliver` is the event
that makes a panel load again. Ghosts: `rows` and `boxes` are what the panel showed when a save was
sent, `answered` whether the server had said so, `blemish` whether one of the cases named at `PanelTrue` occurred.

## 3. The runs

Bounds in `IamService`: no row is changed at version `MaxVersion`, so each row is changed that many times, and expected versions
range over all below it, those that the row has yet to reach included; `Asked` leaves out of each run what its question does not need; two
requests in flight suffice for every race of one statement against another transaction, and each request may
begin again any number of times within the version bound. Deadlock checking is off for `evaluate`, `catalog`,
`policy`, `erp` and `panels`, which end or use up their bounds; it is on for every run of `IamService`.

| Run | Instance | Shows |
| --- | --- | --- |
| `evaluate` | two keys, one of team scope, up to two roles of two organizations, all tables | `LoopAgrees`, `EvaluateAgrees`, `TraceExplains` |
| `iam_members` | an administrator, by wildcard, assigns, deletes and renames two roles that two signed-in members share, and names a member of another organization; members that never had a version; READ COMMITTED, fairness | `AssignmentsLive`, `AuditTellsVersions`, `DeadlocksKnown`, `Answered` |
| `iam_targets` | an owner and a manager rename, re-rank and re-permit one role, the owner creates and deletes; two versions, any expected; READ COMMITTED | `NamesKept`, `TargetStillAllowed`, `AuditTellsChange`, `CommitsAreChanges` |
| `iam_serial` | an owner, a manager whose client is signed in, an administrator in two organizations; two versions, any expected; one transaction at a time | `SessionsFresh`, `RankCeiling`, `NoLostUpdate`, `LowerRanksOnly`, `ImplementsRegistry` |
| `catalog` | every application of up to three methods out of thirteen, in every order, then actors of every table of two effects, pairs of roles that disagree, owners and wildcard actors | `StartDecided`, `TreeWhole`, `ClientAgrees`, `NothingForNothing` |
| `policy` | two commands at once, two catalogs, one deployment, one edit by hand, a foreign page, failures and kills anywhere | `FilesWhole`, `TempRemoved`, `PullDelivers`, `WritesServed`, `CheckTells` |
| `erp` | one browser with two calls out, two seeded supplies, two calls, two sign-ins, one change of access, one kill; fairness | `OrdersPaid`, `ShellWithSeeds`, `GuardHolds`, `PanelTrue`, `SignsOut` |
| `panels` | one role that exists or not, two members, two calls out, two user actions, one change by another client | `SavesSeen`, `MemberSavesSeen`, `PanelTrue` |

In `catalog` three methods suffice, as a conflict, a collision or a shadowed rule takes two; its methods were chosen so that keys
coincide, nest, and differ in spelling only. In `policy` two commands suffice, as a command meets another only
through the files; one deployment tells old from new. In `erp` and `panels` two calls out are the least that overtake each other. Larger
instances were checked once and hold: `erp` with adjustments up and down (517 562 states, the run takes down only), `panels` with two
role ids (5.3 million), and, other bounds reduced, with three calls out and with two changes by others.

The properties of the service, in the words of the code:

- `NamesKept`: every live role has the reservation of its own name and there is no other reservation
  (`NamesReserved`). A commit that finds it so leaves it so, unless the store's updateRole read the row at another version.
- `AssignmentsLive`: every assignment is to a live role of the member's organization.
- `AuditTellsVersions`: a row at version n has exactly one audit event for each version up to n.
- `AuditTellsChange`: the event of a permission change carries the difference of the tables around its commit, where
  the role was read at the version expected.
- `TargetStillAllowed`: a role changes only by a request that names it, and where it was read at the version
  expected, what is replaced and what is put there is such as the actor's boundary allows.
- `LowerRanksOnly`: the same without that condition. It holds of one transaction at a time; `iam_predicted` refutes it of two.
- `CommitsAreChanges`, `ImplementsRegistry`: each commit is one change of `RoleRegistry`, as said above.
- `RankCeiling`: no call of a non-owner gives any member the actor's rank or a better one.
- `SessionsFresh`: no signed-in session holds decisions that the tables no longer give.
- `NoLostUpdate`: who saves with the version it loaded replaces the roles it loaded, less deleted ones.
- `DeadlocksKnown`: transactions wait for each other in a circle only in two ways. setMemberRoles, which locks the
  assignment rows before the roles they name, meets deleteRole, which locks the role before its assignment rows; or two
  requests delete the sessions of the same members, one user at a time, in different orders.
  PostgreSQL aborts one of the two, and its caller gets an error.
- `Answered`: every request ends, by its commit, a refusal or as the victim of such a deadlock.

Of the rest:

- `StartDecided`, `TreeWhole`: whether an application starts depends on what it declares, not on the order of
  discovery; the error names a fault that is there; the policy tree has a leaf for each key.
- `ClientAgrees`, `NothingForNothing`: CASL's answer is the guard's wherever no other permission shares the question's
  subject and action; where one does, the client shows something only if one of them is allowed.
- `FilesWhole`, `TempRemoved`: no half-written file, and no temporary file but of a command that was killed or
  whose removal of it failed.
- `PullDelivers`, `WritesServed`, `CheckTells`: success, "current" and "stale" were true while the command ran,
  except for a 304 that `pull` takes over an invalid file (`TakenOnTrust`).
- `OrdersPaid`, `ShellWithSeeds`: material and orders agree after a kill at any statement; seeded shells come first.
- `GuardHolds`: between the guard and the controller's session lookup a call is still allowed or has lost its session.
- `PanelTrue` (`ErpApp`, `Panels`): a panel at rest shows the server's state, but for the cases its comment lists.
- `SignsOut`: a page whose session was deleted leaves, unless its stream was refused on reconnecting.
- `SavesSeen`, `MemberSavesSeen`: a save that is taken replaces exactly what the server had answered.

Fairness. `IamService`'s `FairSpec` is strong fairness of `Step(p)`, which includes neither `Begin`, `LoadAbility`
nor `Abort`: the server runs a request it began, and the database grants a lock to a transaction that keeps waiting
while others come and go. It adds weak fairness of aborting some transaction of a circle (`Deadlocked`), which
is what PostgreSQL's deadlock detection does. No other failure is relied on. `ErpApp`'s `FairSpec` is weak fairness
of the server's steps on a call, of arrivals, of the stream and of its interval: an event loop runs what is ready,
and setInterval goes on. Nothing is assumed of users, administrators or failures.

Four runs end in a violation, each a place where code and documentation disagree:

- `iam_predicted`: `docs/security.md:16` and `README.md:31` let a manager change lower-ranked roles only. The check reads the
  row (index.ts:549, 594) and the compare-and-set finds the version that the client named, ahead of the row read and
  reached meanwhile by an owner's update: a manager's write lands on a role just raised to its rank.
  The version of the row checked is not compared with the expected one.
- `iam_rename_schema`: `docs/postgres-schema.sql:16` makes `roleId` UNIQUE in `IamRoleName`; updateRole inserts the
  new reservation before it deletes the old, so no rename succeeds over that schema.
- `iam_sessions_race`: under READ COMMITTED the members to sign out are listed, and their sessions deleted,
  before the commit; a member assigned or a session loaded in between stays stale, against
  `docs/security.md:23-24`.
- `iam_lost_update`: memberRoles reads the roles, then the version. Under READ COMMITTED it can answer old roles
  with a new version, and a save with it overwrites a change, against `README.md:33`. Serial transactions
  exclude it, as `iam_serial` shows.

Observed while modelling, and not a run of its own (each is an exception spelled out in a property, or outside every
run's instance):

- A rename whose store read the row before the version expected came up deletes the reservation of a name
  the role no longer has, and leaves that of the name it had: `NamesKept` excepts it. A permission change read so records
  a difference to effects that were no longer there (`AuditTellsChange`).
- pull over an invalid or empty policy file sends no validator; a cache that answers 304 nevertheless is believed, and pull says
  "unchanged" over the invalid file, where the comment at cli.ts:254 says that it replaces it (`PullDelivers`).
- An EventSource that is answered 401 closes for good. A page whose session was deleted while its stream was
  connecting again stays until its next call (`SignsOut`).
- Updates published between the stream's session check and its subscription do not reach it; the supplies
  stay as they are until the next one (`Subscribe`).
- A refused save of a role, or a refused deletion, puts back the row or list of the click over what a load brought since; two refused saves
  put back a row that was only expected (`blemish` in `Panels`). A second save over one that is refused can replace content
  the user never saw: the expected version then coincides (`SavesSeen` holds for answered rows only).
- loadMemberRoles' answer is taken whichever member is selected by then. A save then gives one member the boxes
  of another, and the versions, counted per member, may let it pass (`MemberSavesSeen` excepts it).
- saveEffects sends the catalog's keys only, so saving a role's boxes drops its `*` row.
- A save of a member's roles that changes nothing leaves the version alone, but the panel counts it up; the next
  save is refused, and shows the error, until a load.
- Where two permissions share a subject and action, the last rule wins and the client may show a button
  that the guard refuses, or hide one (`ClientAgrees` excepts shared questions).
- production expects the shells that seed inserts; an organization whose first supply was created by hand has none
  (`ShellWithSeeds` covers seeded organizations).

## 4. The proofs

Proved by TLAPS for every value of the constants that meets the modules' assumptions:

- `AcEvaluate_proofs`: `TypeCorrect`, `LoopCorrect`, `EvaluateCorrect` and `TraceCorrect`. The loop invariant `LoopAgrees` is
  inductive: one more role adds one table to the set, and `Absorb` is what `Resolve` does with one more element. `TraceInv`
  says that the trace has a denial exactly when one is resolved, and the allowance that is resolved.
- `PolicyFile_proofs`: `TypeCorrect`, `FilesCorrect`, `TempCorrect`, `WritesCorrect`, and under `DistinctTags` (valid
  texts have distinct hashes) `PullCorrect` and `CheckCorrect`, for any number of commands. The invariant adds to the
  safety properties what each label knows: `SourceOK` (what is to be written was answered), `TempOK` (the
  temporary file holds it whole before the rename, and is gone when a command ends otherwise than killed or unable to remove it), `OutputKept`
  (an untouched output is the text read, then the text written) and `NotModifiedOK` (a 304 to a request with a validator
  is about the local text).
- `IamService_proofs`: `TypeCorrect` and `DeadlocksCorrect`. Types alone are not inductive: a commit needs the row it changes
  to be live. The invariant is `TypeOK /\ LocksOK /\ FreshOK`: past its compare-and-set a transaction alone holds its row,
  still at the expected version; ids are new when created and do not come back. `WaitsFor` lists who can wait for whom.
  Whoever waits does so for a transaction at a later statement, with two exceptions: setMemberRoles, clearing or inserting, and
  deleteRole cascading wait for each other, and so do two transactions deleting sessions. A circle without the former
  pair has no last statement but the deletion of sessions, so some request there waits for another one, and both have
  deleted some.
- `IamTables_proofs`: `AssignmentsCorrect` and `AuditCorrect`. `AssignOK` follows setMemberRoles: the roles it checked are live
  in the actor's organization or retired for good, and once it has inserted its rows the foreign keys keep the roles from
  deletion (`Referenced`: they are live and nobody deletes them). `MemberLocks` says of member rows what `LocksOK` says of
  roles; `Untold` that a role never created has no events; `NumberedNext` is the step: one event from n to n + 1
  extends the numbering. No assumption on expected versions.
  With `Isolation = "serial"` (SQLite, one transaction at a time; under read committed the three are
  false, which `iam_sessions_race` and `iam_lost_update` show of two of them): `FreshCorrect`, `SavesCorrect` and `RanksCorrect`.
  While a request is in flight no other step is taken, so what it checked (`RolesOK`, `RowOK`) and whom it
  listed (`Listed`) hold when it commits; `ViewsOK` ties what a client was shown to the committed version for as long as the client keeps it.
- `IamRegistry_proofs`, whatever versions clients expect: `NamesCorrect`, `TargetCorrect`, `ChangeCorrect` and
  `RegistryImplemented` at either isolation level, and `LowerRanksCorrect` and `SerialImplements` with `Isolation = "serial"`.
  `RowsOK` says that a row read is the committed one unless the version moved on (`Remembers`), so that a row read at the
  version that the compare-and-set then finds, and whose lock it keeps, is the committed row at the commit; `NamesHeld` that a
  reservation inserted and not committed is nobody else's. `AllowedOK` and `SeenOK` say that what ReadTarget
  and ReadBefore found holds of the committed row as long as that row is at the version read. With one transaction
  at a time no other step is taken while a request is in flight (`Current`), so what it read is the committed row, at whatever
  version. The refinement takes each commit in turn: its row, name, effects, roles and event satisfy the
  action of `RoleRegistry`, and every other step leaves the committed tables alone.
- `Ability_proofs`: `TypeCorrect`, `StartCorrect`, `TreeCorrect`, `ClientCorrect` and `NothingCorrect`, for applications, catalogs, roles and tables of
  any size. `DiscoveryOK` and `DefinitionsOK` say what each loop has made of the methods, or definitions, before its position; as a
  catalog maps each key to one of the definitions found, it is a function of their set and the order of discovery drops out. `NodesOK` says
  that the tree is closed under prefixes and that keys and their places correspond, from which the collision that is reported is real, and
  a key in whose way nothing is gets a leaf (`TreeGrows`). `RulesOK` says that the rules so far are those of the permissions taken so far; a question that one permission
  answers alone is then matched by its rule or by none, wherever it is in the list (`MatchShares`), and `GuardDecides` is the server's side.
- `ErpApp_proofs`: `TypeCorrect`, `OrdersCorrect`, `SeedsCorrect`, `GuardCorrect` and `PanelCorrect`, for any number of browsers, calls in
  flight and supplies. `AppInv` adds to the properties that the database is `Sound`, that streams belong to pages and that no cookie holds a number
  the server has not issued. A request commits unit by unit and may die after each, so soundness is proved of every database on
  the way (`UnitsSound`), for seed of every prefix of its inserts. The prefix is a recursive function, whose
  values are established by the least counterexample (`LeastNat`) as induction over data cannot be stated to the prover.
  `PanelInv` says why a page that has lost nothing ends up right: it is going to load (`Reloads`), or an answer is out that will blemish or
  end it (`Doomed`), or a true listing is on its way and no answer given after it undoes it (`Lands`), or it shows the stock but for clicks
  whose answers put the row right or blemish the page (`Settled`). An answer overtaken on its way dooms the page, so the order in which answers
  were given (`OverTotal`) decides which of them counts last. TLC checked `PanelInv` before its proof: on the instance
  of `erp`, and with three calls out.
- `Panels_proofs`: `TypeCorrect`, `SavesCorrect`, `MemberSavesCorrect` and `PanelCorrect`, for any number of roles, members and calls. `Ages` says that
  the registry only grows older: a version rises with each change and a deleted role does not return. Therefore rows that the server
  answered stay true of the version they carry (`RowTrue`, `FormTrue`), in the panel and in every call in flight (`CallTrue`), and a save that
  is taken carries the version of the row it replaces. `PanelCorrect` needs why a panel comes to rest where the registry is (`RestInv`): it is
  going to load (`Reloads`), or an answer is out that will be a blemish (`Doomed`), or a true load is on its way and what comes after
  it does not undo it unnoticed (`Lands`), or what it shows is the registry but for its own saves (`Settled`). Of
  those at most one, made while no other was out, can be put back unnoticed, since a second one was not made alone (`AloneOnce`): where it is out, its
  row is the registry's (`RowsSure`); any other is `Rash`, and makes the panel load when taken and is a blemish when refused. The
  member panel counts its version ahead by the saves that no load has overtaken (`BoxesSure`, `Counted`). TLC checked `RestInv` before its
  proof, on the instance of `panels`.

Assumptions on constants beyond types: clients' slots are numbers (`Slots \subseteq Nat`), and a panel has one to load with (`BoundsAssumption`); the seeded supplies are named once
each with the shells first, as erp.service.ts:138 writes them; the value for "no row" is no row
(`Nil`, `Absent`), nor a definition, actor, fault, call or number.

Theorems about the service hold at either isolation level, except the five for one transaction at a time, with any number of requests,
organizations, members and roles. The runs check the same properties on small instances.

Only model-checked: `Answered` and `SignsOut`, as liveness under fairness is out of the prover's reach, and what the four runs of `IamService` refute.

## 5. Plan

Done: the rules, the service with its abstract registry, the catalog and the ability, the command line, the
example's API and panels, and the proofs above. Left:

1. `ErpApp` over `IamService` instead of its one change of access, if an instance small enough keeps the races of both.

## 6. Not modelled

- The SQLite connection that all requests of the example share. Whether a raw statement of one request can run
  inside the transaction of another depends on the awaits inside the adapter, which is not in the repository.
- Adding a member by mail, the audit panel and listing, the list of production orders: one read or one insert
  each, with nothing that the properties could relate to it.
- The order of App's reloads of the ability (App.tsx:31): the answer that comes last is kept, and no later event
  need follow, so no property holds of the view; the guard does not rely on it.
- init looks for a configuration before its questions and renames over it after them (cli.ts:356). `PolicyFile` has both steps; a
  file that appears in between is replaced, as `--force` is not asked again.
- permission-context.ts:74 gives owners the catalog as a role with ALLOW, which does not pass a permission of
  team scope on a route without a team, while the plugin's ability gives owners everything. `ClientAgrees`
  therefore speaks of organization scope.
- In `Panels`: loads that fail, drafts while they are typed, and memberRoles' two statements, which `IamService` has.
- Quantities with fractions; hash collisions of catalogs (`DistinctTags`); the reads' limits of 100 and 10 000 rows.
- Correlation ids, the mapping of errors to HTTP status, prompts' wording, text layout of the generated
  module, React rendering, the benchmark, the fixtures of `packages/testing` and the release scripts: pure functions of their
  input or input and output without state that the properties could relate.
