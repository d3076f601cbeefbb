------------------------------- MODULE Catalog -------------------------------
(* How an application's permissions come to be: the decorated handlers that    *)
(* PermissionCatalogService discovers (packages/nest/src/index.ts), the        *)
(* catalog that defineCatalog makes of them (packages/core/src/index.ts) and   *)
(* the policy tree that the plugin builds from the catalog it is given         *)
(* (packages/casl/src/index.ts).  The application serves when all three loops  *)
(* are done, or refuses to start at the first fault.                           *)
(*                                                                             *)
(* A key is the sequence of its dotted segments.                               *)
EXTENDS AcCore, SequencesExt

CONSTANTS
    Segments,
    NameOf,         \* policyName: the identifier of a segment
    LocaleRank,     \* the place of a key in the order of localeCompare
    CodeRank,       \* its place in the order of code units
    Groups,         \* what @PermissionGroup carries
    Leaves,         \* what @Permission carries
    Apps,           \* bound: the applications enumerated
    Nil

ASSUME NameAssumption == NameOf \in [Segments -> STRING]
ASSUME KeyAssumption == Keys \subseteq Seq(Segments) \ {<<>>}
ASSUME RankAssumption ==
    /\ LocaleRank \in [Keys -> Nat] /\ CodeRank \in [Keys -> Nat]
    /\ \A j, k \in Keys : LocaleRank[j] = LocaleRank[k] \/ CodeRank[j] = CodeRank[k] => j = k

\* valid: the texts and fields pass assertPermissionDefinition.
ASSUME MetadataAssumption ==
    /\ \A g \in Groups : DOMAIN g = {"path", "name"}
    /\ \A l \in Leaves : DOMAIN l = {"path", "text", "subject", "action", "fields", "valid"}
    /\ \A l \in Leaves : l.valid \in BOOLEAN
    /\ \A g \in Groups, l \in Leaves : g.path \o l.path \in Keys

\* An application: its controllers' methods, in the order of discovery, each with
\* its own @Permission and its controller's @PermissionGroup, if any.  A
\* controller without an instance is passed over.
Methods == [made : BOOLEAN, group : Groups \cup {Nil}, leaf : Leaves \cup {Nil}]

ASSUME AppAssumption == Apps \subseteq Seq(Methods)
ASSUME NilAssumption == Nil \notin Groups /\ Nil \notin Leaves /\ Nil \notin Keys

\* composePermission.
Compose(m) ==
    [key |-> m.group.path \o m.leaf.path, group |-> m.group.name, text |-> m.leaf.text,
     subject |-> m.leaf.subject, action |-> m.leaf.action, fields |-> m.leaf.fields,
     valid |-> m.leaf.valid]

Definitions == {Compose(m) : m \in [made : BOOLEAN, group : Groups, leaf : Leaves]}

ASSUME DefinitionAssumption == Nil \notin Definitions

NoPermissions == [k \in Keys |-> Nil]
KeysOf(c) == {k \in Keys : c[k] # Nil}

\* The next key of a sorted list.
Foremost(S, rank) == CHOOSE k \in S : \A j \in S : rank[k] <= rank[j]

\* The place of a key in the policy tree, and the other nodes on the way to it.
Place(k) == [i \in 1 .. Len(k) |-> NameOf[k[i]]]
Way(k) == {SubSeq(Place(k), 1, n) : n \in 1 .. Len(k) - 1}

VARIABLES
    app,        \* the application
    phase,      \* the loop that is running
    at,         \* the position of the loop
    found,      \* the definitions discovered
    defined,    \* byKey
    catalog,    \* what getCatalog returns
    plugin,     \* the catalog that the plugin was given
    tree,       \* the policy tree: its nodes, with the key at each
    todo,       \* the keys to be placed
    fault       \* the error that start ends with

catalogVars == <<app, phase, at, found, defined, catalog, plugin, tree, todo, fault>>

Phases == {"discover", "define", "initialize", "place", "serve", "failed"}
Faults ==
    [kind : {"group"}] \cup [kind : {"invalid", "conflict"}, key : Keys] \cup
    [kind : {"collision"}, other : Keys, key : Keys]
Catalogs == [Keys -> Definitions \cup {Nil}]

ASSUME FaultAssumption == Nil \notin Faults

CatalogTypeOK ==
    /\ app \in Apps /\ phase \in Phases
    /\ at \in Nat
    /\ fault = Nil => at \in 1 .. (IF phase = "discover" THEN Len(app) ELSE Len(found)) + 1
    /\ found \in Seq(Definitions)
    /\ defined \in Catalogs /\ catalog \in Catalogs /\ plugin \in Catalogs
    /\ \A n \in DOMAIN tree : tree[n] \in Keys \cup {Nil}
    /\ todo \subseteq Keys
    /\ fault \in Faults \cup {Nil}

CatalogInit ==
    /\ app \in Apps
    /\ phase = "discover" /\ at = 1 /\ found = <<>>
    /\ defined = NoPermissions /\ catalog = NoPermissions /\ plugin = NoPermissions
    /\ tree = <<>> /\ todo = {} /\ fault = Nil

\* An exception ends the start of the application.
Fail(f) ==
    /\ phase' = "failed" /\ fault' = f
    /\ UNCHANGED <<app, at, found, defined, catalog, plugin, tree, todo>>

-----------------------------------------------------------------------------
(* onModuleInit. *)

Discover ==
    /\ phase = "discover" /\ at <= Len(app)
    /\ LET m == app[at]
       IN  \/ /\ ~m.made \/ m.leaf = Nil
              /\ at' = at + 1
              /\ UNCHANGED <<found, phase, fault, app, defined, catalog, plugin, tree, todo>>
           \/ /\ m.made /\ m.leaf # Nil /\ m.group # Nil
              /\ found' = Append(found, Compose(m))
              /\ at' = at + 1
              /\ UNCHANGED <<phase, fault, app, defined, catalog, plugin, tree, todo>>
           \/ /\ m.made /\ m.leaf # Nil /\ m.group = Nil
              /\ Fail([kind |-> "group"])

\* Mutant of Discovered: the second loop goes on where the first one ended.
DiscoveredOn ==
    /\ phase = "discover" /\ at > Len(app)
    /\ phase' = "define" /\ at' = at
    /\ UNCHANGED <<app, found, defined, catalog, plugin, tree, todo, fault>>

Discovered ==
    /\ phase = "discover" /\ at > Len(app)
    /\ phase' = "define" /\ at' = 1
    /\ UNCHANGED <<app, found, defined, catalog, plugin, tree, todo, fault>>

Conflicts(d) == defined[d.key] \notin {Nil, d}

\* One turn of defineCatalog.
Define ==
    /\ phase = "define" /\ at <= Len(found)
    /\ LET d == found[at]
       IN  \/ ~d.valid /\ Fail([kind |-> "invalid", key |-> d.key])
           \/ d.valid /\ Conflicts(d) /\ Fail([kind |-> "conflict", key |-> d.key])
           \/ /\ d.valid /\ ~Conflicts(d)
              /\ defined' = [defined EXCEPT ![d.key] = d]
              /\ at' = at + 1
              /\ UNCHANGED <<app, phase, found, catalog, plugin, tree, todo, fault>>

Defined ==
    /\ phase = "define" /\ at > Len(found)
    /\ catalog' = defined
    /\ phase' = "initialize"
    /\ UNCHANGED <<app, at, found, defined, plugin, tree, todo, fault>>

-----------------------------------------------------------------------------
(* AuthService.initialize, which makes the plugin of the catalog. *)

\* Mutant of Given: the plugin is made before the modules are initialized.
GivenEarly == NoPermissions

Given == catalog

Initialize ==
    /\ phase = "initialize"
    /\ plugin' = Given
    /\ todo' = KeysOf(plugin')
    /\ phase' = "place"
    /\ UNCHANGED <<app, at, found, defined, catalog, tree, fault>>

\* Mutant of InTheWay: only the place itself is looked at.
SamePlace(k) == {Place(k)} \cap DOMAIN tree

\* The nodes that make a key collide: a permission on the way, and the place of
\* the key itself.
InTheWay(k) ==
    {n \in Way(k) \cap DOMAIN tree : tree[n] # Nil} \cup ({Place(k)} \cap DOMAIN tree)

\* firstPermissionKey: the first key placed at or below a node.
FirstBelow(n) == Foremost({tree[m] : m \in {x \in DOMAIN tree : tree[x] # Nil /\ IsPrefix(n, x)}}, CodeRank)

\* One turn of policyTree.
PlaceKey ==
    /\ phase = "place" /\ todo # {}
    /\ LET k == Foremost(todo, CodeRank)
       IN  \/ /\ InTheWay(k) # {}
              /\ \E n \in InTheWay(k) :
                   Fail([kind |-> "collision", other |-> FirstBelow(n), key |-> k])
           \/ /\ InTheWay(k) = {}
              /\ tree' = [n \in DOMAIN tree \cup Way(k) \cup {Place(k)} |->
                            IF n = Place(k) THEN k ELSE IF n \in DOMAIN tree THEN tree[n] ELSE Nil]
              /\ todo' = todo \ {k}
              /\ UNCHANGED <<app, phase, at, found, defined, catalog, plugin, fault>>

\* The tree is rendered, the tables are migrated and the server listens.
Listen ==
    /\ phase = "place" /\ todo = {}
    /\ phase' = "serve"
    /\ UNCHANGED <<app, at, found, defined, catalog, plugin, tree, todo, fault>>

CatalogNext ==
    Discover \/ Discovered \/ Define \/ Defined \/ Initialize \/ PlaceKey \/ Listen

-----------------------------------------------------------------------------
(* What the application declares, in no order. *)

Decorated == {app[i] : i \in {x \in 1 .. Len(app) : app[x].made /\ app[x].leaf # Nil}}
Declared == {Compose(m) : m \in {x \in Decorated : x.group # Nil}}

Ungrouped == \E m \in Decorated : m.group = Nil
Conflicting(k) == \E d, e \in Declared : d.key = k /\ e.key = k /\ d # e
Collide(j, k) == j # k /\ (IsPrefix(Place(j), Place(k)) \/ IsPrefix(Place(k), Place(j)))

\* The fault is there, and is the one reported.
Real(f) ==
    CASE f.kind = "group"     -> Ungrouped
      [] f.kind = "invalid"   -> \E d \in Declared : d.key = f.key /\ ~d.valid
      [] f.kind = "conflict"  -> Conflicting(f.key)
      [] f.kind = "collision" ->
           /\ {f.key, f.other} \subseteq {d.key : d \in Declared}
           /\ Collide(f.key, f.other)

\* Whether an application starts, and with which catalog, depends on what it
\* declares and not on the order of discovery: it serves the permissions
\* declared, each under its own key, if every method has a group, every
\* definition is valid, no key has two definitions and no two keys collide in the
\* policy tree; otherwise it does not start, and names a fault that it has.
StartDecided ==
    /\ phase = "serve" =>
         /\ ~Ungrouped /\ \A d \in Declared : d.valid
         /\ \A d, e \in Declared : d = e \/ (d.key # e.key /\ ~Collide(d.key, e.key))
         /\ {plugin[k] : k \in KeysOf(plugin)} = Declared
    /\ phase = "failed" => Real(fault)

\* No branch of the policy tree is empty, and each key placed has a node of its
\* own that is a leaf: firstPermissionKey always finds a key, and two permissions
\* never share an identifier.
TreeWhole ==
    /\ \A n \in DOMAIN tree : \E m \in DOMAIN tree : IsPrefix(n, m) /\ tree[m] # Nil
    /\ \A n, m \in DOMAIN tree : tree[n] # Nil /\ IsPrefix(n, m) => n = m
    /\ phase \in {"place", "serve"} =>
         {tree[n] : n \in DOMAIN tree} \ {Nil} = KeysOf(plugin) \ todo
=============================================================================
