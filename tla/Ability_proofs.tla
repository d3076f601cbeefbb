---------------------------- MODULE Ability_proofs ----------------------------
(* From the decorated methods to the client's rules, for applications,         *)
(* catalogs, roles and tables of any size.                                     *)
EXTENDS Ability, TLAPS, WellFoundedInduction

-----------------------------------------------------------------------------
(* Sorted lists and paths. *)

LEMMA ForemostIn ==
    ASSUME NEW S \in SUBSET Keys, S # {}, NEW rank \in [Keys -> Nat]
    PROVE  Foremost(S, rank) \in S
<1> DEFINE R == OpToRel(<, Nat)
           ranks == {rank[k] : k \in S}
<1>1. IsWellFoundedOn(R, Nat)
  BY NatLessThanWellFounded
<1>2. \A x, y \in Nat : <<y, x>> \in R <=> y < x
  BY DEF OpToRel
<1>3. ranks \subseteq Nat /\ ranks # {}
  OBVIOUS
<1> HIDE DEF R
<1>4. PICK x \in ranks : \A y \in ranks : ~(<<y, x>> \in R)
  BY <1>1, <1>3, WFMin
<1>5. PICK k \in S : rank[k] = x
  BY <1>4
<1>6. ASSUME NEW j \in S PROVE rank[k] <= rank[j]
  <2>1. rank[j] \in ranks /\ rank[j] \in Nat /\ x \in Nat
    BY <1>3
  <2>2. ~(rank[j] < x)
    BY <1>2, <1>4, <2>1
  <2> QED
    BY <1>5, <2>1, <2>2
<1> QED
  BY <1>6 DEF Foremost

\* The nodes of a policy tree: paths of identifiers.
Paths == Seq(STRING) \ {<<>>}

LEMMA PlacePath ==
    ASSUME NEW k \in Keys
    PROVE  Place(k) \in Paths /\ Len(Place(k)) = Len(k)
<1>1. k \in Seq(Segments) /\ k # <<>>
  BY KeyAssumption
<1>2. Len(k) \in Nat \ {0} /\ \A i \in 1 .. Len(k) : k[i] \in Segments
  BY <1>1
<1>3. Place(k) \in [1 .. Len(k) -> STRING]
  BY <1>2, NameAssumption DEF Place
<1>4. Place(k) \in Seq(STRING) /\ Len(Place(k)) = Len(k)
  BY <1>2, <1>3
<1> QED
  BY <1>2, <1>4 DEF Paths

\* IsPrefix, element by element.
LEMMA PrefixIs ==
    ASSUME NEW s \in Paths, NEW t \in Paths
    PROVE  IsPrefix(s, t) <=> Len(s) <= Len(t) /\ \A i \in 1 .. Len(s) : s[i] = t[i]
<1>1. /\ s \in Seq(STRING) /\ t \in Seq(STRING) /\ Len(s) \in Nat /\ Len(t) \in Nat
      /\ s = [i \in 1 .. Len(s) |-> s[i]]
  BY DEF Paths
<1>2. SubSeq(s, 1, Len(s)) = s
  BY <1>1
<1>3. ASSUME Len(s) <= Len(t)
      PROVE  SubSeq(t, 1, Len(s)) = [i \in 1 .. Len(s) |-> t[i]]
  BY <1>1, <1>3
<1>4. ASSUME Len(s) <= Len(t), \A i \in 1 .. Len(s) : s[i] = t[i]
      PROVE  s = [i \in 1 .. Len(s) |-> t[i]]
  BY <1>1, <1>4
<1> QED
  BY <1>1, <1>2, <1>3, <1>4 DEF IsPrefix

\* Paths of one length are the same if one is a prefix of the other.
LEMMA PrefixSame ==
    ASSUME NEW s \in Paths, NEW t \in Paths, IsPrefix(s, t), Len(t) <= Len(s)
    PROVE  s = t
<1>1. s \in Seq(STRING) /\ t \in Seq(STRING) /\ Len(s) \in Nat /\ Len(t) \in Nat
  BY DEF Paths
<1>2. Len(s) = Len(t) /\ \A i \in 1 .. Len(s) : s[i] = t[i]
  BY <1>1, PrefixIs
<1> QED
  BY <1>1, <1>2

LEMMA PrefixReflexive == \A s \in Paths : IsPrefix(s, s)
<1> SUFFICES ASSUME NEW s \in Paths PROVE IsPrefix(s, s)
  OBVIOUS
<1>1. Len(s) \in Nat
  BY DEF Paths
<1> QED
  BY <1>1, PrefixIs

LEMMA PrefixTransitive ==
    ASSUME NEW s \in Paths, NEW t \in Paths, NEW u \in Paths, IsPrefix(s, t), IsPrefix(t, u)
    PROVE  IsPrefix(s, u)
<1>1. Len(s) \in Nat /\ Len(t) \in Nat /\ Len(u) \in Nat
  BY DEF Paths
<1> QED
  BY <1>1, PrefixIs

\* The way to a key is its place's proper prefixes.
LEMMA WayIs ==
    ASSUME NEW k \in Keys
    PROVE  /\ Way(k) \subseteq Paths
           /\ \A n \in Paths : n \in Way(k) <=> IsPrefix(n, Place(k)) /\ n # Place(k)
<1> DEFINE P == Place(k)
<1>1. P \in Paths /\ P \in Seq(STRING) /\ Len(P) = Len(k) /\ Len(k) \in Nat
  BY PlacePath DEF Paths
<1> HIDE DEF P
<1>2. ASSUME NEW i \in 1 .. Len(k) - 1
      PROVE  /\ SubSeq(P, 1, i) \in Paths /\ Len(SubSeq(P, 1, i)) = i
             /\ \A j \in 1 .. i : SubSeq(P, 1, i)[j] = P[j]
  <2>1. i \in Nat \ {0} /\ i < Len(P)
    BY <1>1
  <2>2. SubSeq(P, 1, i) \in Seq(STRING) /\ Len(SubSeq(P, 1, i)) = i
        /\ \A j \in 1 .. i : SubSeq(P, 1, i)[j] = P[j]
    BY <1>1, <2>1
  <2> QED
    BY <2>1, <2>2 DEF Paths
<1>3. Way(k) = {SubSeq(P, 1, i) : i \in 1 .. Len(k) - 1}
  BY DEF Way, P
<1>4. ASSUME NEW n \in Paths, n \in Way(k) PROVE IsPrefix(n, P) /\ n # P
  <2>1. PICK i \in 1 .. Len(k) - 1 : n = SubSeq(P, 1, i)
    BY <1>3, <1>4
  <2>2. Len(n) = i /\ Len(n) < Len(P) /\ \A j \in 1 .. Len(n) : n[j] = P[j]
    BY <1>1, <1>2, <2>1
  <2> QED
    BY <1>1, <2>2, PrefixIs
<1>5. ASSUME NEW n \in Paths, IsPrefix(n, P), n # P PROVE n \in Way(k)
  <2>1. n \in Seq(STRING) /\ Len(n) \in Nat \ {0}
    BY DEF Paths
  <2>2. Len(n) <= Len(P) /\ \A j \in 1 .. Len(n) : n[j] = P[j]
    BY <1>1, <1>5, PrefixIs
  <2>3. Len(n) # Len(P)
    BY <1>1, <1>5, PrefixSame
  <2>4. Len(n) \in 1 .. Len(k) - 1
    BY <1>1, <2>1, <2>2, <2>3
  <2>5. SubSeq(P, 1, Len(n)) \in Seq(STRING) /\ Len(SubSeq(P, 1, Len(n))) = Len(n)
        /\ \A j \in 1 .. Len(n) : SubSeq(P, 1, Len(n))[j] = n[j]
    BY <1>2, <2>2, <2>4 DEF Paths
  <2>6. n = SubSeq(P, 1, Len(n))
    BY <2>1, <2>5
  <2> QED
    BY <1>3, <2>4, <2>6
<1> QED
  BY <1>2, <1>3, <1>4, <1>5 DEF P

-----------------------------------------------------------------------------
(* The start of the application. *)

LEMMA ComposeTyped ==
    ASSUME NEW m \in Methods, m.group # Nil, m.leaf # Nil
    PROVE  Compose(m) \in Definitions
<1>1. [made |-> m.made, group |-> m.group, leaf |-> m.leaf]
        \in [made : BOOLEAN, group : Groups, leaf : Leaves]
  BY DEF Methods
<1>2. Compose(m) = Compose([made |-> m.made, group |-> m.group, leaf |-> m.leaf])
  BY DEF Compose
<1> QED
  BY <1>1, <1>2 DEF Definitions

LEMMA DefinitionTyped ==
    ASSUME NEW d \in Definitions
    PROVE  d.key \in Keys /\ d # Nil
<1>1. PICK m \in [made : BOOLEAN, group : Groups, leaf : Leaves] : d = Compose(m)
  BY DEF Definitions
<1>2. d.key = m.group.path \o m.leaf.path
  BY <1>1 DEF Compose
<1> QED
  BY <1>1, <1>2, MetadataAssumption, DefinitionAssumption

Wanted(m) == m.made /\ m.leaf # Nil

\* What the first n methods declare, and that each is of a group.
DeclaredBy(n) == {Compose(app[i]) : i \in {x \in 1 .. n : Wanted(app[x])}}
GroupedBy(n) == \A i \in 1 .. n : Wanted(app[i]) => app[i].group # Nil

FoundAll == {found[i] : i \in 1 .. Len(found)}

DiscoveryOK ==
    /\ phase = "discover" =>
         at \in 1 .. Len(app) + 1 /\ FoundAll = DeclaredBy(at - 1) /\ GroupedBy(at - 1)
    /\ phase \notin {"discover", "failed"} => ~Ungrouped /\ FoundAll = Declared

\* byKey after n turns of defineCatalog.
DefinedBy(n) ==
    /\ \A i \in 1 .. n : found[i].valid /\ defined[found[i].key] = found[i]
    /\ \A k \in Keys : defined[k] # Nil =>
         \E i \in 1 .. n : found[i] = defined[k] /\ found[i].key = k

DefinitionsOK ==
    /\ phase = "discover" => defined = NoPermissions
    /\ phase \notin {"discover", "failed"} => at \in 1 .. Len(found) + 1
    /\ phase = "define" => DefinedBy(at - 1)
    /\ phase \in {"initialize", "place", "serve"} => DefinedBy(Len(found)) /\ catalog = defined

PluginOK ==
    /\ phase \in {"place", "serve"} => plugin = catalog
    /\ phase = "serve" => todo = {}
    /\ phase \in {"discover", "define", "initialize"} =>
         plugin = NoPermissions /\ todo = {} /\ DOMAIN tree = {}

\* The tree has the places of the keys placed and the ways to them.
Placed == KeysOf(plugin) \ todo

NodesOK ==
    /\ todo \subseteq KeysOf(plugin) /\ DOMAIN tree \subseteq Paths
    /\ \A n \in DOMAIN tree : tree[n] # Nil => tree[n] \in Placed /\ n = Place(tree[n])
    /\ \A k \in Placed : Place(k) \in DOMAIN tree /\ tree[Place(k)] = k
    /\ \A n \in DOMAIN tree, m \in Paths : IsPrefix(m, n) => m \in DOMAIN tree

TreeOK ==
    /\ \A n \in DOMAIN tree : \E m \in DOMAIN tree : IsPrefix(n, m) /\ tree[m] # Nil
    /\ \A n, m \in DOMAIN tree : tree[n] # Nil /\ IsPrefix(n, m) => n = m

FaultOK == phase = "failed" => fault \in Faults /\ Real(fault)

CatalogInv ==
    /\ CatalogTypeOK /\ DiscoveryOK /\ DefinitionsOK /\ PluginOK
    /\ NodesOK /\ TreeOK /\ FaultOK

LEMMA CatalogInvInit ==
    ASSUME CatalogInit
    PROVE  CatalogInv
<1>1. app \in Seq(Methods) /\ Len(app) \in Nat
  BY AppAssumption DEF CatalogInit
<1>2. found = <<>> /\ Len(found) = 0 /\ DOMAIN tree = {} /\ fault = Nil /\ at = 1 /\ phase = "discover"
  BY DEF CatalogInit
<1>3. NoPermissions \in Catalogs /\ KeysOf(NoPermissions) = {}
  BY DEF NoPermissions, Catalogs, KeysOf
<1>4. CatalogTypeOK
  BY <1>1, <1>2, <1>3 DEF CatalogInit, CatalogTypeOK, Phases
<1>5. DiscoveryOK
  BY <1>1, <1>2 DEF DiscoveryOK, FoundAll, DeclaredBy, GroupedBy
<1>6. DefinitionsOK /\ PluginOK /\ FaultOK
  BY <1>1, <1>2 DEF CatalogInit, DefinitionsOK, PluginOK, FaultOK
<1>7. NodesOK /\ TreeOK
  BY <1>2, <1>3 DEF CatalogInit, NodesOK, TreeOK, Placed
<1> QED
  BY <1>4, <1>5, <1>6, <1>7 DEF CatalogInv

\* The tree's part of the invariant is about these only.
LEMMA TreeKept ==
    ASSUME NodesOK, TreeOK, UNCHANGED <<plugin, tree, todo>>
    PROVE  NodesOK' /\ TreeOK'
BY DEF NodesOK, TreeOK, Placed, KeysOf

\* A fault that is there ends the start.
LEMMA FailInv ==
    ASSUME CatalogInv, NEW f \in Faults, Real(f), Fail(f)
    PROVE  CatalogInv'
<1>1. CatalogTypeOK'
  BY FaultAssumption DEF CatalogInv, CatalogTypeOK, Fail, Phases
<1>2. Real(f)' <=> Real(f)
  BY DEF Fail, Real, Ungrouped, Conflicting, Declared, Decorated
<1>3. FaultOK'
  BY <1>2 DEF FaultOK, Fail, Real, Ungrouped, Conflicting, Declared, Decorated
<1>4. DiscoveryOK' /\ DefinitionsOK' /\ PluginOK'
  BY DEF DiscoveryOK, DefinitionsOK, PluginOK, Fail
<1>5. NodesOK' /\ TreeOK'
  BY TreeKept DEF CatalogInv, Fail
<1> QED
  BY <1>1, <1>3, <1>4, <1>5 DEF CatalogInv

\* One method more is looked at.
LEMMA DeclaredNext ==
    ASSUME NEW n \in Nat
    PROVE  /\ Wanted(app[n + 1]) => DeclaredBy(n + 1) = DeclaredBy(n) \cup {Compose(app[n + 1])}
           /\ ~Wanted(app[n + 1]) => DeclaredBy(n + 1) = DeclaredBy(n)
           /\ GroupedBy(n) /\ (Wanted(app[n + 1]) => app[n + 1].group # Nil) => GroupedBy(n + 1)
<1>1. 1 .. n + 1 = (1 .. n) \cup {n + 1}
  OBVIOUS
<1>2. GroupedBy(n) /\ (Wanted(app[n + 1]) => app[n + 1].group # Nil) => GroupedBy(n + 1)
  BY <1>1 DEF GroupedBy
<1>3. ASSUME Wanted(app[n + 1])
      PROVE  DeclaredBy(n + 1) = DeclaredBy(n) \cup {Compose(app[n + 1])}
  <2>1. {x \in 1 .. n + 1 : Wanted(app[x])} = {x \in 1 .. n : Wanted(app[x])} \cup {n + 1}
    BY <1>1, <1>3
  <2> QED
    BY <2>1 DEF DeclaredBy
<1>4. ASSUME ~Wanted(app[n + 1])
      PROVE  DeclaredBy(n + 1) = DeclaredBy(n)
  <2>1. {x \in 1 .. n + 1 : Wanted(app[x])} = {x \in 1 .. n : Wanted(app[x])}
    BY <1>1, <1>4
  <2> QED
    BY <2>1 DEF DeclaredBy
<1> QED
  BY <1>2, <1>3, <1>4

\* All are looked at.
LEMMA DeclaredByAll ==
    /\ DeclaredBy(Len(app)) = {Compose(m) : m \in Decorated}
    /\ GroupedBy(Len(app)) => ~Ungrouped /\ DeclaredBy(Len(app)) = Declared
<1>1. DeclaredBy(Len(app)) = {Compose(m) : m \in Decorated}
  BY DEF DeclaredBy, Decorated, Wanted
<1>2. ASSUME GroupedBy(Len(app)) PROVE \A m \in Decorated : m.group # Nil
  BY <1>2 DEF GroupedBy, Decorated, Wanted
<1>3. ASSUME GroupedBy(Len(app)) PROVE Declared = {Compose(m) : m \in Decorated}
  BY <1>2, <1>3 DEF Declared
<1> QED
  BY <1>1, <1>2, <1>3 DEF Ungrouped

LEMMA DiscoverInv ==
    ASSUME CatalogInv, Discover
    PROVE  CatalogInv'
<1> DEFINE m == app[at]
<1>0. /\ phase = "discover" /\ at \in Nat \ {0} /\ at <= Len(app) /\ Len(app) \in Nat
      /\ app \in Seq(Methods) /\ m \in Methods /\ found \in Seq(Definitions) /\ Len(found) \in Nat
      /\ FoundAll = DeclaredBy(at - 1) /\ GroupedBy(at - 1)
  BY AppAssumption DEF Discover, CatalogInv, CatalogTypeOK, DiscoveryOK
<1>1. /\ Wanted(m) => DeclaredBy(at) = DeclaredBy(at - 1) \cup {Compose(m)}
      /\ ~Wanted(m) => DeclaredBy(at) = DeclaredBy(at - 1)
      /\ (Wanted(m) => m.group # Nil) => GroupedBy(at)
  <2>1. at - 1 \in Nat /\ (at - 1) + 1 = at
    BY <1>0
  <2> QED
    BY <1>0, <2>1, DeclaredNext
<1> HIDE DEF m
<1>2. CASE Wanted(m) /\ m.group = Nil
  <2>1. Fail([kind |-> "group"])
    BY <1>0, <1>2 DEF Discover, Wanted, m
  <2>2. m \in Decorated
    BY <1>0, <1>2 DEF Decorated, Wanted, m
  <2>3. [kind |-> "group"] \in Faults /\ Real([kind |-> "group"])
    BY <1>2, <2>2 DEF Faults, Real, Ungrouped
  <2> QED
    BY <2>1, <2>3, FailInv
<1>3. ASSUME at' = at + 1, found' \in Seq(Definitions), FoundAll' = DeclaredBy(at), GroupedBy(at),
             UNCHANGED <<phase, fault, app, defined, catalog, plugin, tree, todo>>
      PROVE  CatalogInv'
  <2>1. CatalogTypeOK'
    BY <1>0, <1>3 DEF CatalogInv, CatalogTypeOK
  <2>2. DiscoveryOK'
    <3>1. at' \in 1 .. Len(app) + 1 /\ at' - 1 = at
      BY <1>0, <1>3
    <3>2. \A n : DeclaredBy(n)' = DeclaredBy(n) /\ (GroupedBy(n)' <=> GroupedBy(n))
      BY <1>3 DEF DeclaredBy, GroupedBy
    <3> QED
      BY <1>0, <1>3, <3>1, <3>2 DEF DiscoveryOK
  <2>3. DefinitionsOK' /\ PluginOK' /\ FaultOK'
    BY <1>0, <1>3 DEF CatalogInv, DefinitionsOK, PluginOK, FaultOK
  <2>4. NodesOK' /\ TreeOK'
    BY <1>3, TreeKept DEF CatalogInv
  <2> QED
    BY <2>1, <2>2, <2>3, <2>4 DEF CatalogInv
<1>4. CASE ~Wanted(m)
  <2>1. /\ at' = at + 1 /\ found' = found
        /\ UNCHANGED <<phase, fault, app, defined, catalog, plugin, tree, todo>>
    BY <1>0, <1>4 DEF Discover, Wanted, m
  <2>2. FoundAll' = DeclaredBy(at)
    BY <1>0, <1>1, <1>4, <2>1 DEF FoundAll
  <2> QED
    BY <1>0, <1>1, <1>3, <1>4, <2>1, <2>2
<1>5. CASE Wanted(m) /\ m.group # Nil
  <2>1. /\ at' = at + 1 /\ found' = Append(found, Compose(m))
        /\ UNCHANGED <<phase, fault, app, defined, catalog, plugin, tree, todo>>
    BY <1>0, <1>5 DEF Discover, Wanted, m
  <2>2. Compose(m) \in Definitions
    BY <1>0, <1>5, ComposeTyped DEF Wanted
  <2>3. FoundAll' = FoundAll \cup {Compose(m)}
    <3> DEFINE d == Compose(m)
    <3> HIDE DEF d
    <3>1. /\ Len(found') = Len(found) + 1 /\ found'[Len(found) + 1] = d
          /\ \A i \in 1 .. Len(found) : found'[i] = found[i]
      BY <1>0, <2>1, <2>2 DEF d
    <3>2. 1 .. Len(found') = (1 .. Len(found)) \cup {Len(found) + 1}
      BY <1>0, <3>1
    <3> QED
      BY <3>1, <3>2 DEF FoundAll, d
  <2> QED
    BY <1>0, <1>1, <1>3, <1>5, <2>1, <2>2, <2>3
<1> QED
  BY <1>2, <1>4, <1>5

LEMMA DiscoveredInv ==
    ASSUME CatalogInv, Discovered
    PROVE  CatalogInv'
<1>0. /\ phase = "discover" /\ phase' = "define" /\ at' = 1 /\ Len(app) \in Nat /\ at > Len(app)
      /\ at \in 1 .. Len(app) + 1 /\ found \in Seq(Definitions) /\ Len(found) \in Nat
      /\ UNCHANGED <<app, found, defined, catalog, plugin, tree, todo, fault>>
  BY AppAssumption DEF Discovered, CatalogInv, CatalogTypeOK, DiscoveryOK
<1>1. CatalogTypeOK'
  BY <1>0 DEF CatalogInv, CatalogTypeOK, Phases
<1>2. DiscoveryOK'
  <2>1. at - 1 = Len(app)
    BY <1>0
  <2>2. ~Ungrouped /\ FoundAll = Declared
    BY <1>0, <2>1, DeclaredByAll DEF CatalogInv, DiscoveryOK
  <2> QED
    BY <1>0, <2>2 DEF DiscoveryOK, FoundAll, Ungrouped, Declared, Decorated
<1>3. DefinitionsOK'
  <2>1. defined' = NoPermissions
    BY <1>0 DEF CatalogInv, DefinitionsOK
  <2>2. DefinedBy(0)'
    BY <2>1 DEF DefinedBy, NoPermissions
  <2> QED
    BY <1>0, <2>2 DEF DefinitionsOK
<1>4. PluginOK' /\ FaultOK'
  BY <1>0 DEF CatalogInv, PluginOK, FaultOK
<1>5. NodesOK' /\ TreeOK'
  BY <1>0, TreeKept DEF CatalogInv
<1> QED
  BY <1>1, <1>2, <1>3, <1>4, <1>5 DEF CatalogInv

LEMMA DefineInv ==
    ASSUME CatalogInv, Define
    PROVE  CatalogInv'
<1> DEFINE d == found[at]
<1>0. /\ phase = "define" /\ at \in Nat \ {0} /\ at <= Len(found) /\ Len(found) \in Nat
      /\ found \in Seq(Definitions) /\ DefinedBy(at - 1) /\ defined \in Catalogs
      /\ ~Ungrouped /\ FoundAll = Declared
  BY DEF Define, CatalogInv, CatalogTypeOK, DefinitionsOK, DiscoveryOK
<1>1. d \in Definitions /\ d.key \in Keys /\ d # Nil /\ d \in Declared
  <2>1. d \in Definitions /\ d \in FoundAll
    BY <1>0 DEF FoundAll
  <2> QED
    BY <1>0, <2>1, DefinitionTyped
<1>2. \A k \in Keys : defined[k] # Nil => defined[k] \in Declared /\ defined[k].key = k
  <2> SUFFICES ASSUME NEW k \in Keys, defined[k] # Nil
               PROVE  defined[k] \in Declared /\ defined[k].key = k
    OBVIOUS
  <2>1. PICK i \in 1 .. at - 1 : found[i] = defined[k] /\ found[i].key = k
    BY <1>0 DEF DefinedBy
  <2>2. i \in 1 .. Len(found)
    BY <1>0
  <2> QED
    BY <1>0, <2>1, <2>2 DEF FoundAll
<1>3. Define =>
        \/ ~d.valid /\ Fail([kind |-> "invalid", key |-> d.key])
        \/ d.valid /\ Conflicts(d) /\ Fail([kind |-> "conflict", key |-> d.key])
        \/ /\ d.valid /\ ~Conflicts(d)
           /\ defined' = [defined EXCEPT ![d.key] = d] /\ at' = at + 1
           /\ UNCHANGED <<app, phase, found, catalog, plugin, tree, todo, fault>>
  BY DEF Define
<1> HIDE DEF d
<1>4. CASE ~d.valid /\ Fail([kind |-> "invalid", key |-> d.key])
  <2>1. /\ [kind |-> "invalid", key |-> d.key] \in Faults
        /\ Real([kind |-> "invalid", key |-> d.key])
    BY <1>1, <1>4 DEF Faults, Real
  <2> QED
    BY <1>4, <2>1, FailInv
<1>5. CASE Conflicts(d) /\ Fail([kind |-> "conflict", key |-> d.key])
  <2>1. defined[d.key] # Nil /\ defined[d.key] # d
    BY <1>5 DEF Conflicts
  <2>2. Conflicting(d.key)
    BY <1>1, <1>2, <2>1 DEF Conflicting
  <2>3. /\ [kind |-> "conflict", key |-> d.key] \in Faults
        /\ Real([kind |-> "conflict", key |-> d.key])
    BY <1>1, <2>2 DEF Faults, Real
  <2> QED
    BY <1>5, <2>3, FailInv
<1>6. CASE /\ d.valid /\ ~Conflicts(d)
           /\ defined' = [defined EXCEPT ![d.key] = d] /\ at' = at + 1
           /\ UNCHANGED <<app, phase, found, catalog, plugin, tree, todo, fault>>
  <2>1. /\ defined' \in Catalogs /\ defined'[d.key] = d
        /\ \A k \in Keys : k # d.key => defined'[k] = defined[k]
    BY <1>0, <1>1, <1>6 DEF Catalogs
  <2>2. CatalogTypeOK'
    BY <1>0, <1>6, <2>1 DEF CatalogInv, CatalogTypeOK
  <2>3. DiscoveryOK'
    BY <1>0, <1>6 DEF DiscoveryOK, FoundAll, Ungrouped, Declared, Decorated
  <2>4. DefinedBy(at - 1)' /\ at' - 1 = at
    <3>1. \A i \in 1 .. at : i = at \/ i \in 1 .. at - 1
      BY <1>0
    <3>2. ASSUME NEW i \in 1 .. at
          PROVE  found[i].valid /\ defined'[found[i].key] = found[i]
      <4>1. CASE i = at
        BY <1>6, <2>1, <4>1 DEF d
      <4>2. CASE i \in 1 .. at - 1
        <5>1. found[i].valid /\ defined[found[i].key] = found[i] /\ found[i] \in Definitions
          BY <1>0, <4>2 DEF DefinedBy
        <5>2. found[i].key \in Keys /\ found[i] # Nil
          BY <5>1, DefinitionTyped
        <5>3. found[i].key = d.key => found[i] = d
          BY <1>6, <5>1, <5>2 DEF Conflicts
        <5> QED
          BY <2>1, <5>1, <5>2, <5>3
      <4> QED
        BY <3>1, <4>1, <4>2
    <3>3. ASSUME NEW k \in Keys, defined'[k] # Nil
          PROVE  \E i \in 1 .. at : found[i] = defined'[k] /\ found[i].key = k
      <4>1. CASE k = d.key
        <5>1. at \in 1 .. at /\ found[at] = d
          BY <1>0 DEF d
        <5> QED
          BY <2>1, <4>1, <5>1
      <4>2. CASE k # d.key
        <5>1. PICK i \in 1 .. at - 1 : found[i] = defined[k] /\ found[i].key = k
          BY <1>0, <2>1, <3>3, <4>2 DEF DefinedBy
        <5>2. i \in 1 .. at
          BY <1>0
        <5> QED
          BY <2>1, <4>2, <5>1, <5>2
      <4> QED
        BY <4>1, <4>2
    <3>4. at' - 1 = at /\ found' = found
      BY <1>0, <1>6
    <3> QED
      BY <3>2, <3>3, <3>4 DEF DefinedBy
  <2>5. DefinitionsOK'
    <3>1. at' \in 1 .. Len(found) + 1
      BY <1>0, <1>6
    <3> QED
      BY <1>0, <1>6, <2>4, <3>1 DEF DefinitionsOK
  <2>6. PluginOK' /\ FaultOK'
    BY <1>0, <1>6 DEF CatalogInv, PluginOK, FaultOK
  <2>7. NodesOK' /\ TreeOK'
    BY <1>6, TreeKept DEF CatalogInv
  <2> QED
    BY <2>2, <2>3, <2>5, <2>6, <2>7 DEF CatalogInv
<1> QED
  BY <1>3, <1>4, <1>5, <1>6

LEMMA DefinedInv ==
    ASSUME CatalogInv, Defined
    PROVE  CatalogInv'
<1>0. /\ phase = "define" /\ phase' = "initialize" /\ catalog' = defined
      /\ at > Len(found) /\ at \in 1 .. Len(found) + 1 /\ Len(found) \in Nat
      /\ UNCHANGED <<app, at, found, defined, plugin, tree, todo, fault>>
  BY DEF Defined, CatalogInv, CatalogTypeOK, DefinitionsOK
<1>1. CatalogTypeOK'
  BY <1>0 DEF CatalogInv, CatalogTypeOK, Phases
<1>2. DiscoveryOK'
  <2>1. FoundAll' = FoundAll /\ Declared' = Declared /\ (Ungrouped' <=> Ungrouped)
    BY <1>0 DEF FoundAll, Ungrouped, Declared, Decorated
  <2>2. ~Ungrouped /\ FoundAll = Declared
    BY <1>0 DEF CatalogInv, DiscoveryOK
  <2> QED
    BY <1>0, <2>1, <2>2 DEF DiscoveryOK
<1>3. DefinitionsOK'
  <2>1. at - 1 = Len(found)
    BY <1>0
  <2>2. DefinedBy(Len(found))
    BY <1>0, <2>1 DEF CatalogInv, DefinitionsOK
  <2>3. DefinedBy(Len(found))'
    BY <1>0, <2>2 DEF DefinedBy
  <2> QED
    BY <1>0, <2>3 DEF DefinitionsOK
<1>4. PluginOK' /\ FaultOK'
  BY <1>0 DEF CatalogInv, PluginOK, FaultOK
<1>5. NodesOK' /\ TreeOK'
  BY <1>0, TreeKept DEF CatalogInv
<1> QED
  BY <1>1, <1>2, <1>3, <1>4, <1>5 DEF CatalogInv

\* The catalog is what was declared.
LEMMA CatalogDeclared ==
    ASSUME CatalogInv, phase \in {"initialize", "place", "serve"}
    PROVE  /\ ~Ungrouped
           /\ \A d \in Declared : d \in Definitions /\ d.valid /\ catalog[d.key] = d
           /\ \A k \in Keys : catalog[k] # Nil => catalog[k] \in Declared /\ catalog[k].key = k
<1>0. /\ DefinedBy(Len(found)) /\ catalog = defined /\ found \in Seq(Definitions) /\ Len(found) \in Nat
      /\ ~Ungrouped /\ FoundAll = Declared
  BY DEF CatalogInv, CatalogTypeOK, DefinitionsOK, DiscoveryOK
<1>1. ASSUME NEW d \in Declared PROVE d \in Definitions /\ d.valid /\ catalog[d.key] = d
  <2>1. PICK i \in 1 .. Len(found) : d = found[i]
    BY <1>0 DEF FoundAll
  <2> QED
    BY <1>0, <2>1 DEF DefinedBy
<1>2. ASSUME NEW k \in Keys, catalog[k] # Nil PROVE catalog[k] \in Declared /\ catalog[k].key = k
  <2>1. PICK i \in 1 .. Len(found) : found[i] = catalog[k] /\ found[i].key = k
    BY <1>0, <1>2 DEF DefinedBy
  <2> QED
    BY <1>0, <2>1 DEF FoundAll
<1> QED
  BY <1>0, <1>1, <1>2

\* Once defined the catalog stays as it is.
LEMMA DefinitionsKept ==
    ASSUME CatalogInv, phase \in {"initialize", "place"}, phase' \in {"place", "serve"},
           UNCHANGED <<app, at, found, defined, catalog>>
    PROVE  DiscoveryOK' /\ DefinitionsOK'
<1>1. DiscoveryOK'
  <2>1. Ungrouped' = Ungrouped /\ Declared' = Declared /\ FoundAll' = FoundAll
    BY DEF Ungrouped, Declared, Decorated, FoundAll
  <2> QED
    BY <2>1 DEF CatalogInv, DiscoveryOK
<1>2. DefinitionsOK'
  <2>1. DefinedBy(Len(found)) => DefinedBy(Len(found))'
    BY DEF DefinedBy
  <2> QED
    BY <2>1 DEF CatalogInv, DefinitionsOK
<1> QED
  BY <1>1, <1>2

LEMMA InitializeInv ==
    ASSUME CatalogInv, Initialize
    PROVE  CatalogInv'
<1>0. /\ phase = "initialize" /\ phase' = "place" /\ plugin' = catalog /\ todo' = KeysOf(catalog)
      /\ DOMAIN tree = {} /\ plugin = NoPermissions
      /\ UNCHANGED <<app, at, found, defined, catalog, tree, fault>>
  BY DEF Initialize, Given, KeysOf, CatalogInv, PluginOK
<1>1. CatalogTypeOK'
  BY <1>0 DEF CatalogInv, CatalogTypeOK, Phases, KeysOf
<1>2. DiscoveryOK' /\ DefinitionsOK'
  BY <1>0, DefinitionsKept
<1>3. PluginOK' /\ FaultOK'
  BY <1>0 DEF CatalogInv, PluginOK, FaultOK
<1>4. NodesOK' /\ TreeOK'
  BY <1>0 DEF NodesOK, TreeOK, Placed, KeysOf
<1> QED
  BY <1>1, <1>2, <1>3, <1>4 DEF CatalogInv

\* firstPermissionKey finds a key below each node.
LEMMA FirstBelowPlaced ==
    ASSUME NodesOK, TreeOK, NEW n \in DOMAIN tree
    PROVE  FirstBelow(n) \in Placed /\ IsPrefix(n, Place(FirstBelow(n)))
<1> DEFINE below == {tree[m] : m \in {x \in DOMAIN tree : tree[x] # Nil /\ IsPrefix(n, x)}}
<1>1. \A k \in below : k \in Placed /\ IsPrefix(n, Place(k))
  BY DEF NodesOK
<1>2. below # {}
  BY DEF TreeOK
<1>3. Placed \subseteq Keys
  BY DEF Placed, KeysOf
<1>4. FirstBelow(n) = Foremost(below, CodeRank)
  BY DEF FirstBelow
<1> HIDE DEF below
<1>5. below \in SUBSET Keys
  BY <1>1, <1>3
<1>6. Foremost(below, CodeRank) \in below
  BY <1>2, <1>5, ForemostIn, RankAssumption
<1> QED
  BY <1>1, <1>4, <1>6

\* What is in the way of a key collides with it.
LEMMA CollisionFound ==
    ASSUME NodesOK, TreeOK, NEW k \in todo, NEW n \in InTheWay(k)
    PROVE  /\ FirstBelow(n) \in KeysOf(plugin) /\ k \in KeysOf(plugin)
           /\ Collide(k, FirstBelow(n))
<1> DEFINE j == FirstBelow(n)
<1>1. n \in DOMAIN tree
  BY DEF InTheWay
<1>2. j \in Placed /\ IsPrefix(n, Place(j))
  BY <1>1, FirstBelowPlaced
<1>3. j \in KeysOf(plugin) /\ k \in KeysOf(plugin) /\ j # k /\ j \in Keys /\ k \in Keys
  BY <1>2 DEF Placed, NodesOK, KeysOf
<1> HIDE DEF j
<1>4. CASE n = Place(k)
  BY <1>2, <1>3, <1>4 DEF Collide, j
<1>5. CASE n \in Way(k) /\ tree[n] # Nil
  <2>1. tree[n] \in Placed /\ n = Place(tree[n]) /\ n \in Paths
    BY <1>1, <1>5 DEF NodesOK
  <2>2. Place(j) \in DOMAIN tree /\ tree[Place(j)] = j
    BY <1>2 DEF NodesOK
  <2>3. n = Place(j)
    BY <1>1, <1>2, <1>5, <2>2 DEF TreeOK
  <2>4. IsPrefix(n, Place(k))
    BY <1>3, <1>5, <2>1, WayIs
  <2> QED
    BY <1>3, <2>3, <2>4 DEF Collide, j
<1> QED
  BY <1>4, <1>5 DEF InTheWay

\* A key in whose way nothing is gets a leaf of its own.
LEMMA TreeGrows ==
    ASSUME NodesOK, TreeOK, NEW k \in todo, InTheWay(k) = {}, plugin' = plugin, todo' = todo \ {k},
           tree' = [n \in DOMAIN tree \cup Way(k) \cup {Place(k)} |->
                      IF n = Place(k) THEN k ELSE IF n \in DOMAIN tree THEN tree[n] ELSE Nil]
    PROVE  NodesOK' /\ TreeOK'
<1> DEFINE P == Place(k)
           W == Way(k)
           D == DOMAIN tree
<1>0. k \in KeysOf(plugin) /\ k \in Keys /\ k # Nil /\ D \subseteq Paths
  BY NilAssumption DEF NodesOK, KeysOf
<1>1. P \in Paths /\ W \subseteq Paths /\ \A n \in Paths : n \in W <=> IsPrefix(n, P) /\ n # P
  BY <1>0, PlacePath, WayIs
<1>2. P \notin D /\ \A n \in W \cap D : tree[n] = Nil
  BY DEF InTheWay
<1>3. /\ DOMAIN tree' = D \cup W \cup {P} /\ tree'[P] = k
      /\ \A n \in D : tree'[n] = tree[n]
      /\ \A n \in W \ D : tree'[n] = Nil
  <2>1. P \notin W
    BY <1>1
  <2> QED
    BY <1>2, <2>1
<1>4. Placed' = Placed \cup {k} /\ k \notin Placed
  BY <1>0 DEF Placed, KeysOf
<1>5. \A j \in Placed : j \in Keys /\ Place(j) \in D /\ tree[Place(j)] = j /\ j # k
  BY <1>4 DEF NodesOK, Placed, KeysOf
<1>6. \A n \in D, m \in Paths : IsPrefix(m, n) => m \in D
  BY DEF NodesOK
<1>7. /\ \A n \in D : tree[n] # Nil => tree[n] \in Placed /\ n = Place(tree[n])
      /\ \A n \in D : \E m \in D : IsPrefix(n, m) /\ tree[m] # Nil
      /\ \A n, m \in D : tree[n] # Nil /\ IsPrefix(n, m) => n = m
  BY DEF NodesOK, TreeOK
<1>8. /\ todo' \subseteq KeysOf(plugin)' /\ \A j : Place(j)' = Place(j)
  BY DEF NodesOK, KeysOf, Place
<1> HIDE DEF P, W, D
<1>9. NodesOK'
  <2>1. DOMAIN tree' \subseteq Paths
    BY <1>0, <1>1, <1>3
  <2>2. ASSUME NEW n \in DOMAIN tree', tree'[n] # Nil
        PROVE  tree'[n] \in Placed' /\ n = Place(tree'[n])
    <3>1. CASE n = P
      BY <1>3, <1>4, <3>1 DEF P
    <3>2. CASE n \in D
      BY <1>3, <1>4, <1>7, <2>2, <3>2
    <3> QED
      BY <1>3, <2>2, <3>1, <3>2
  <2>3. ASSUME NEW j \in Placed'
        PROVE  Place(j) \in DOMAIN tree' /\ tree'[Place(j)] = j
    <3>1. CASE j = k
      BY <1>3, <3>1 DEF P
    <3>2. CASE j \in Placed
      BY <1>3, <1>5, <3>2
    <3> QED
      BY <1>4, <2>3, <3>1, <3>2
  <2>4. ASSUME NEW n \in DOMAIN tree', NEW m \in Paths, IsPrefix(m, n)
        PROVE  m \in DOMAIN tree'
    <3>1. CASE n \in D
      BY <1>3, <1>6, <2>4, <3>1
    <3>2. CASE n = P
      BY <1>1, <1>3, <2>4, <3>2
    <3>3. CASE n \in W
      <4>1. IsPrefix(n, P) /\ n \in Paths
        BY <1>1, <3>3
      <4>2. IsPrefix(m, P)
        BY <1>1, <2>4, <4>1, PrefixTransitive
      <4> QED
        BY <1>1, <1>3, <4>2
    <3> QED
      BY <1>3, <2>4, <3>1, <3>2, <3>3
  <2> QED
    BY <1>8, <2>1, <2>2, <2>3, <2>4 DEF NodesOK
<1>10. TreeOK'
  <2>1. ASSUME NEW n \in DOMAIN tree'
        PROVE  \E m \in DOMAIN tree' : IsPrefix(n, m) /\ tree'[m] # Nil
    <3>1. CASE n \in D
      <4>1. PICK m \in D : IsPrefix(n, m) /\ tree[m] # Nil
        BY <1>7, <3>1
      <4>2. m \in DOMAIN tree' /\ tree'[m] = tree[m]
        BY <1>3
      <4> QED
        BY <4>1, <4>2
    <3>2. CASE n \in W \cup {P}
      <4>1. IsPrefix(n, P)
        BY <1>1, <3>2, PrefixReflexive
      <4> QED
        BY <1>0, <1>3, <4>1
    <3> QED
      BY <1>3, <2>1, <3>1, <3>2
  <2>2. ASSUME NEW n \in DOMAIN tree', NEW m \in DOMAIN tree', tree'[n] # Nil, IsPrefix(n, m)
        PROVE  n = m
    <3>0. n \in Paths /\ m \in Paths /\ (n = P \/ (n \in D /\ tree[n] # Nil))
      BY <1>0, <1>1, <1>3, <2>2
    <3>1. CASE n = P /\ m \in D
      BY <1>1, <1>2, <1>6, <2>2, <3>1
    <3>2. CASE n = P /\ m \in W
      <4>1. IsPrefix(m, P) /\ m # P
        BY <1>1, <3>2
      <4>2. Len(m) \in Nat /\ Len(P) \in Nat /\ Len(m) <= Len(P)
        BY <1>1, <3>0, <4>1, PrefixIs DEF Paths
      <4> QED
        BY <2>2, <3>0, <3>2, <4>1, <4>2, PrefixSame
    <3>3. CASE n \in D /\ m \in D
      BY <1>7, <2>2, <3>0, <3>3, <1>2
    <3>4. CASE n \in D /\ tree[n] # Nil /\ m \in W \cup {P}
      <4>1. IsPrefix(m, P)
        BY <1>1, <3>4, PrefixReflexive
      <4>2. IsPrefix(n, P)
        BY <1>1, <2>2, <3>0, <4>1, PrefixTransitive
      <4> QED
        BY <1>1, <1>2, <3>0, <3>4, <4>2
    <3> QED
      BY <1>3, <2>2, <3>0, <3>1, <3>2, <3>3, <3>4
  <2> QED
    BY <2>1, <2>2 DEF TreeOK
<1> QED
  BY <1>9, <1>10

LEMMA PlaceKeyInv ==
    ASSUME CatalogInv, PlaceKey
    PROVE  CatalogInv'
<1> DEFINE k == Foremost(todo, CodeRank)
<1>0. /\ phase = "place" /\ todo # {} /\ todo \subseteq Keys /\ plugin = catalog
      /\ NodesOK /\ TreeOK /\ CodeRank \in [Keys -> Nat]
  BY RankAssumption DEF PlaceKey, CatalogInv, CatalogTypeOK, PluginOK
<1>1. k \in todo
  BY <1>0, ForemostIn
<1>2. \/ \E n \in InTheWay(k) : Fail([kind |-> "collision", other |-> FirstBelow(n), key |-> k])
      \/ /\ InTheWay(k) = {}
         /\ tree' = [n \in DOMAIN tree \cup Way(k) \cup {Place(k)} |->
                       IF n = Place(k) THEN k ELSE IF n \in DOMAIN tree THEN tree[n] ELSE Nil]
         /\ todo' = todo \ {k}
         /\ UNCHANGED <<app, phase, at, found, defined, catalog, plugin, fault>>
  BY DEF PlaceKey
<1> HIDE DEF k
<1>3. ASSUME NEW n \in InTheWay(k), Fail([kind |-> "collision", other |-> FirstBelow(n), key |-> k])
      PROVE  CatalogInv'
  <2> DEFINE j == FirstBelow(n)
  <2>1. /\ j \in KeysOf(plugin) /\ k \in KeysOf(plugin) /\ Collide(k, j)
    BY <1>0, <1>1, CollisionFound
  <2>2. \A i \in KeysOf(plugin) : i \in Keys /\ i \in {d.key : d \in Declared}
    BY <1>0, CatalogDeclared DEF KeysOf
  <2> HIDE DEF j
  <2>3. [kind |-> "collision", other |-> j, key |-> k] \in Faults
    BY <2>1, <2>2 DEF Faults
  <2>4. Real([kind |-> "collision", other |-> j, key |-> k])
    BY <2>1, <2>2 DEF Real
  <2> QED
    BY <1>3, <2>3, <2>4, FailInv DEF j
<1>4. ASSUME InTheWay(k) = {},
             tree' = [n \in DOMAIN tree \cup Way(k) \cup {Place(k)} |->
                        IF n = Place(k) THEN k ELSE IF n \in DOMAIN tree THEN tree[n] ELSE Nil],
             todo' = todo \ {k},
             UNCHANGED <<app, phase, at, found, defined, catalog, plugin, fault>>
      PROVE  CatalogInv'
  <2>1. NodesOK' /\ TreeOK'
    BY <1>0, <1>1, <1>4, TreeGrows
  <2>2. CatalogTypeOK'
    <3>1. \A n \in DOMAIN tree' : tree'[n] \in Keys \cup {Nil}
      BY <1>0, <1>1, <1>4 DEF CatalogInv, CatalogTypeOK
    <3> QED
      BY <1>0, <1>4, <3>1 DEF CatalogInv, CatalogTypeOK
  <2>3. DiscoveryOK' /\ DefinitionsOK'
    BY <1>0, <1>4, DefinitionsKept
  <2>4. PluginOK' /\ FaultOK'
    BY <1>0, <1>4 DEF CatalogInv, PluginOK, FaultOK
  <2> QED
    BY <2>1, <2>2, <2>3, <2>4 DEF CatalogInv
<1> QED
  BY <1>2, <1>3, <1>4

LEMMA ListenInv ==
    ASSUME CatalogInv, Listen
    PROVE  CatalogInv'
<1>0. /\ phase = "place" /\ todo = {} /\ phase' = "serve"
      /\ UNCHANGED <<app, at, found, defined, catalog, plugin, tree, todo, fault>>
  BY DEF Listen
<1>1. CatalogTypeOK'
  BY <1>0 DEF CatalogInv, CatalogTypeOK, Phases
<1>2. DiscoveryOK' /\ DefinitionsOK'
  BY <1>0, DefinitionsKept
<1>3. PluginOK' /\ FaultOK'
  BY <1>0 DEF CatalogInv, PluginOK, FaultOK
<1>4. NodesOK' /\ TreeOK'
  BY <1>0, TreeKept DEF CatalogInv
<1> QED
  BY <1>1, <1>2, <1>3, <1>4 DEF CatalogInv

LEMMA CatalogInvNext ==
    ASSUME CatalogInv, CatalogNext
    PROVE  CatalogInv'
BY DiscoverInv, DiscoveredInv, DefineInv, DefinedInv, InitializeInv, PlaceKeyInv, ListenInv
   DEF CatalogNext

LEMMA CatalogKept ==
    ASSUME CatalogInv, UNCHANGED catalogVars
    PROVE  CatalogInv'
<1>1. CatalogTypeOK'
  BY DEF CatalogInv, CatalogTypeOK, catalogVars
<1>2. Ungrouped' = Ungrouped /\ Declared' = Declared /\ FoundAll' = FoundAll
  BY DEF Ungrouped, Declared, Decorated, FoundAll, catalogVars
<1>3. /\ DeclaredBy(at - 1)' = DeclaredBy(at - 1) /\ (GroupedBy(at - 1) => GroupedBy(at - 1)')
      /\ DefinedBy(at - 1) => DefinedBy(at - 1)'
      /\ DefinedBy(Len(found)) => DefinedBy(Len(found))'
  BY DEF DeclaredBy, GroupedBy, DefinedBy, catalogVars
<1>4. DiscoveryOK' /\ DefinitionsOK' /\ PluginOK'
  BY <1>2, <1>3 DEF CatalogInv, DiscoveryOK, DefinitionsOK, PluginOK, catalogVars
<1>5. NodesOK' /\ TreeOK'
  BY TreeKept DEF CatalogInv, catalogVars
<1>6. FaultOK'
  <2>1. fault' = fault /\ phase' = phase
    BY DEF catalogVars
  <2>2. \A k : Conflicting(k)' <=> Conflicting(k)
    BY <1>2 DEF Conflicting
  <2> QED
    BY <1>2, <2>1, <2>2 DEF CatalogInv, FaultOK, Real
<1> QED
  BY <1>1, <1>4, <1>5, <1>6 DEF CatalogInv

-----------------------------------------------------------------------------
(* The client's rules. *)

\* The rule that toCaslRules makes of a decision on k.
RuleFor(k) == Rule(plugin[k], Decided(who, k) = "DENY")

RulesOK ==
    /\ who = Nil => left = {} /\ rules = <<>>
    /\ who # Nil => who \in Actors /\ phase = "serve" /\ left \subseteq KeysOf(plugin)
    /\ who # Nil /\ who.wildcard => left = {} /\ rules = <<Everything>>
    /\ who # Nil /\ ~who.wildcard =>
         /\ \A i \in 1 .. Len(rules) : \E k \in KeysOf(plugin) \ left :
              Decided(who, k) # "NONE" /\ rules[i] = RuleFor(k)
         /\ \A k \in KeysOf(plugin) \ left : Decided(who, k) # "NONE" =>
              \E i \in 1 .. Len(rules) : rules[i] = RuleFor(k)

AbilityInv == CatalogInv /\ TypeOK /\ RulesOK

LEMMA AbilityInvInit ==
    ASSUME Init
    PROVE  AbilityInv
<1>1. CatalogInv
  BY CatalogInvInit DEF Init
<1>2. TypeOK
  BY <1>1 DEF Init, TypeOK, CatalogInv
<1>3. RulesOK
  BY DEF Init, RulesOK
<1> QED
  BY <1>1, <1>2, <1>3 DEF AbilityInv

LEMMA AskAbilityInv ==
    ASSUME AbilityInv, NEW a \in Actors, AskAbility(a)
    PROVE  AbilityInv'
<1>0. /\ phase = "serve" /\ who' = a /\ a # Nil
      /\ left' = IF a.wildcard THEN {} ELSE KeysOf(plugin)
      /\ rules' = IF a.wildcard THEN <<Everything>> ELSE <<>>
      /\ UNCHANGED catalogVars /\ a.wildcard \in BOOLEAN
  BY ActorAssumption DEF AskAbility, Actors
<1>1. CatalogInv'
  BY <1>0, CatalogKept DEF AbilityInv
<1>2. rules' \in Seq(RuleRecords)
  <2>1. Everything \in RuleRecords
    BY DEF RuleRecords
  <2> QED
    BY <1>0, <2>1
<1>3. TypeOK'
  BY <1>0, <1>1, <1>2 DEF TypeOK, CatalogInv, KeysOf
<1>4. RulesOK'
  <2>1. plugin' = plugin /\ phase' = phase /\ KeysOf(plugin)' = KeysOf(plugin)
    BY <1>0 DEF catalogVars, KeysOf
  <2> QED
    BY <1>0, <2>1 DEF RulesOK
<1> QED
  BY <1>1, <1>3, <1>4 DEF AbilityInv

LEMMA EmitInv ==
    ASSUME AbilityInv, Emit
    PROVE  AbilityInv'
<1> DEFINE k == Foremost(left, LocaleRank)
           new == Rule(plugin[k], Decided(who, k) = "DENY")
<1>0. /\ left # {} /\ left \subseteq Keys /\ left' = left \ {k} /\ rules' = rules \o Emitted(k)
      /\ UNCHANGED catalogVars /\ who' = who /\ rules \in Seq(RuleRecords) /\ Len(rules) \in Nat
  BY DEF Emit, AbilityInv, TypeOK
<1>1. /\ who # Nil /\ who \in Actors /\ ~who.wildcard /\ left \subseteq KeysOf(plugin) /\ phase = "serve"
  BY <1>0 DEF AbilityInv, RulesOK
<1>2. k \in left /\ k \in Keys
  BY <1>0, ForemostIn, RankAssumption
<1>3. new \in RuleRecords
  <2>1. plugin[k] \in Definitions
    BY <1>0, <1>1, <1>2 DEF KeysOf, AbilityInv, TypeOK, CatalogTypeOK, Catalogs
  <2>2. (Decided(who, k) = "DENY") \in BOOLEAN
    OBVIOUS
  <2>3. \A d \in Definitions, b \in BOOLEAN : Rule(d, b) \in RuleRecords
    BY DEF RuleRecords
  <2> QED
    BY <2>1, <2>2, <2>3
<1>4. new = RuleFor(k)
  BY DEF RuleFor
<1>5. Emitted(k) = IF Decided(who, k) = "NONE" THEN <<>> ELSE <<new>>
  BY DEF Emitted
<1> HIDE DEF new, k
<1>6. /\ Decided(who, k) = "NONE" => rules' = rules
      /\ Decided(who, k) # "NONE" => rules' = Append(rules, new)
  BY <1>0, <1>3, <1>5
<1>7. CatalogInv'
  BY <1>0, CatalogKept DEF AbilityInv
<1>8. TypeOK'
  <2>1. rules' \in Seq(RuleRecords)
    <3>1. CASE Decided(who, k) = "NONE"
      BY <1>0, <1>6, <3>1
    <3>2. CASE Decided(who, k) # "NONE"
      <4>1. \A s \in Seq(RuleRecords), r \in RuleRecords : Append(s, r) \in Seq(RuleRecords)
        OBVIOUS
      <4>2. Append(rules, new) \in Seq(RuleRecords)
        BY <1>0, <1>3, <4>1
      <4> QED
        BY <1>6, <3>2, <4>2
    <3> QED
      BY <3>1, <3>2
  <2> QED
    BY <1>0, <1>1, <1>7, <2>1 DEF TypeOK, CatalogInv
<1>9. RulesOK'
  <2>1. /\ KeysOf(plugin)' = KeysOf(plugin) /\ phase' = phase
        /\ \A j : RuleFor(j)' = RuleFor(j) /\ Decided(who, j)' = Decided(who, j)
    BY <1>0 DEF catalogVars, KeysOf, RuleFor, Decided
  <2>2. KeysOf(plugin) \ left' = (KeysOf(plugin) \ left) \cup {k}
    BY <1>0, <1>1, <1>2
  <2>3. /\ \A i \in 1 .. Len(rules) : \E j \in KeysOf(plugin) \ left :
             Decided(who, j) # "NONE" /\ rules[i] = RuleFor(j)
        /\ \A j \in KeysOf(plugin) \ left : Decided(who, j) # "NONE" =>
             \E i \in 1 .. Len(rules) : rules[i] = RuleFor(j)
    BY <1>1 DEF AbilityInv, RulesOK
  <2>4. CASE Decided(who, k) = "NONE"
    <3>1. /\ \A i \in 1 .. Len(rules') : \E j \in KeysOf(plugin) \ left' :
               Decided(who, j) # "NONE" /\ rules'[i] = RuleFor(j)
          /\ \A j \in KeysOf(plugin) \ left' : Decided(who, j) # "NONE" =>
               \E i \in 1 .. Len(rules') : rules'[i] = RuleFor(j)
      BY <1>6, <2>2, <2>3, <2>4
    <3> QED
      BY <1>0, <1>1, <2>1, <3>1 DEF RulesOK
  <2>5. CASE Decided(who, k) # "NONE"
    <3>1. /\ Len(rules') = Len(rules) + 1 /\ rules'[Len(rules) + 1] = RuleFor(k)
          /\ \A i \in 1 .. Len(rules) : rules'[i] = rules[i]
      BY <1>0, <1>3, <1>4, <1>6, <2>5
    <3>2. \A i \in 1 .. Len(rules') : i \in 1 .. Len(rules) \/ i = Len(rules) + 1
      BY <1>0, <3>1
    <3>3. \A i \in 1 .. Len(rules) : i \in 1 .. Len(rules')
      BY <1>0, <3>1
    <3>4. Len(rules) + 1 \in 1 .. Len(rules')
      BY <1>0, <3>1
    <3>5. \A i \in 1 .. Len(rules') : \E j \in KeysOf(plugin) \ left' :
             Decided(who, j) # "NONE" /\ rules'[i] = RuleFor(j)
      BY <2>2, <2>3, <2>5, <3>1, <3>2
    <3>6. \A j \in KeysOf(plugin) \ left' : Decided(who, j) # "NONE" =>
             \E i \in 1 .. Len(rules') : rules'[i] = RuleFor(j)
      BY <2>2, <2>3, <3>1, <3>3, <3>4
    <3> QED
      BY <1>0, <1>1, <2>1, <3>5, <3>6 DEF RulesOK
  <2> QED
    BY <2>4, <2>5
<1> QED
  BY <1>7, <1>8, <1>9 DEF AbilityInv

LEMMA AbilityInvNext ==
    ASSUME AbilityInv, [Next]_vars
    PROVE  AbilityInv'
<1>1. CASE CatalogNext /\ UNCHANGED abilityVars
  <2>1. CatalogInv'
    BY <1>1, CatalogInvNext DEF AbilityInv
  <2>2. TypeOK'
    BY <1>1, <2>1 DEF AbilityInv, TypeOK, CatalogInv, abilityVars
  <2>3. phase # "serve"
    BY <1>1 DEF CatalogNext, Discover, Discovered, Define, Defined, Initialize, PlaceKey, Listen
  <2>4. RulesOK'
    BY <1>1, <2>3 DEF AbilityInv, RulesOK, abilityVars
  <2> QED
    BY <2>1, <2>2, <2>4 DEF AbilityInv
<1>2. CASE \E a \in Actors : AskAbility(a)
  BY <1>2, AskAbilityInv
<1>3. CASE Emit
  BY <1>3, EmitInv
<1>4. CASE UNCHANGED vars
  <2>1. UNCHANGED catalogVars /\ UNCHANGED abilityVars
    BY <1>4 DEF vars
  <2>2. CatalogInv'
    BY <2>1, CatalogKept DEF AbilityInv
  <2>3. TypeOK'
    BY <2>1, <2>2 DEF AbilityInv, TypeOK, CatalogInv, abilityVars
  <2>4. RulesOK'
    BY <2>1 DEF AbilityInv, RulesOK, RuleFor, KeysOf, catalogVars, abilityVars
  <2> QED
    BY <2>2, <2>3, <2>4 DEF AbilityInv
<1> QED
  BY <1>1, <1>2, <1>3, <1>4 DEF Next

LEMMA AbilityInvHolds == Spec => []AbilityInv
<1>1. Init => AbilityInv
  BY AbilityInvInit
<1>2. AbilityInv /\ [Next]_vars => AbilityInv'
  BY AbilityInvNext
<1> QED
  BY <1>1, <1>2, PTL DEF Spec

-----------------------------------------------------------------------------
(* The theorems. *)

\* Types, for applications, catalogs and actors of any size.
THEOREM TypeCorrect == Spec => []TypeOK
<1>1. AbilityInv => TypeOK
  BY DEF AbilityInv
<1> QED
  BY <1>1, AbilityInvHolds, PTL

\* Keys placed do not collide.
LEMMA PlacedApart ==
    ASSUME NodesOK, TreeOK, NEW j \in Placed, NEW k \in Placed
    PROVE  ~Collide(j, k)
<1>1. /\ Place(j) \in DOMAIN tree /\ tree[Place(j)] = j
      /\ Place(k) \in DOMAIN tree /\ tree[Place(k)] = k
  BY DEF NodesOK
<1>2. j # Nil /\ k # Nil
  BY NilAssumption DEF Placed, KeysOf
<1>3. IsPrefix(Place(j), Place(k)) => Place(j) = Place(k)
  BY <1>1, <1>2 DEF TreeOK
<1>4. IsPrefix(Place(k), Place(j)) => Place(k) = Place(j)
  BY <1>1, <1>2 DEF TreeOK
<1> QED
  BY <1>1, <1>3, <1>4 DEF Collide

\* An application starts exactly with what it declares, in whatever order that
\* is discovered, or names a fault that it has.
THEOREM StartCorrect == Spec => []StartDecided
<1>1. ASSUME CatalogInv PROVE StartDecided
  <2>1. ASSUME phase = "serve"
        PROVE  /\ ~Ungrouped /\ \A d \in Declared : d.valid
               /\ \A d, e \in Declared : d = e \/ (d.key # e.key /\ ~Collide(d.key, e.key))
               /\ {plugin[k] : k \in KeysOf(plugin)} = Declared
    <3>1. /\ ~Ungrouped
          /\ \A d \in Declared : d \in Definitions /\ d.valid /\ catalog[d.key] = d
          /\ \A k \in Keys : catalog[k] # Nil => catalog[k] \in Declared /\ catalog[k].key = k
      BY <1>1, <2>1, CatalogDeclared
    <3>2. plugin = catalog /\ todo = {} /\ NodesOK /\ TreeOK
      BY <1>1, <2>1 DEF CatalogInv, PluginOK
    <3>3. \A d \in Declared : d.key \in KeysOf(plugin) /\ d.key \in Placed
      BY <3>1, <3>2, DefinitionTyped DEF KeysOf, Placed
    <3>4. ASSUME NEW d \in Declared, NEW e \in Declared, d # e
          PROVE  d.key # e.key /\ ~Collide(d.key, e.key)
      BY <3>1, <3>2, <3>3, <3>4, PlacedApart
    <3>5. {plugin[k] : k \in KeysOf(plugin)} = Declared
      BY <3>1, <3>2, <3>3 DEF KeysOf
    <3> QED
      BY <3>1, <3>4, <3>5
  <2>2. phase = "failed" => Real(fault)
    BY <1>1 DEF CatalogInv, FaultOK
  <2> QED
    BY <2>1, <2>2 DEF StartDecided
<1> QED
  BY <1>1, AbilityInvHolds, PTL DEF AbilityInv

\* The policy tree has no empty branch, and a leaf of its own for each key.
THEOREM TreeCorrect == Spec => []TreeWhole
<1>1. ASSUME CatalogInv PROVE TreeWhole
  <2>1. {tree[n] : n \in DOMAIN tree} \ {Nil} = KeysOf(plugin) \ todo
    <3>1. Nil \notin Placed
      BY NilAssumption DEF Placed, KeysOf
    <3> QED
      BY <1>1, <3>1 DEF CatalogInv, NodesOK, Placed
  <2> QED
    BY <1>1, <2>1 DEF CatalogInv, TreeOK, TreeWhole
<1> QED
  BY <1>1, AbilityInvHolds, PTL DEF AbilityInv

\* What a complete ability and the guard have in common.
LEMMA AbilityShown ==
    ASSUME AbilityInv, Shown, ~who.wildcard
    PROVE  /\ \A m \in Decorated : /\ Compose(m).key \in KeysOf(plugin)
                                   /\ plugin[Compose(m).key] = Compose(m)
           /\ \A k \in KeysOf(plugin) : plugin[k].key = k /\ \E n \in Decorated : plugin[k] = Compose(n)
           /\ \A i \in 1 .. Len(rules) : \E k \in KeysOf(plugin) :
                Decided(who, k) # "NONE" /\ rules[i] = RuleFor(k)
           /\ \A k \in KeysOf(plugin) : Decided(who, k) # "NONE" =>
                \E i \in 1 .. Len(rules) : rules[i] = RuleFor(k)
           /\ plugin = catalog /\ who \in Actors
<1>1. /\ phase = "serve" /\ who # Nil /\ left = {} /\ CatalogInv /\ RulesOK
  BY DEF Shown, AbilityInv
<1>2. /\ ~Ungrouped
      /\ \A d \in Declared : d \in Definitions /\ d.valid /\ catalog[d.key] = d
      /\ \A k \in Keys : catalog[k] # Nil => catalog[k] \in Declared /\ catalog[k].key = k
  BY <1>1, CatalogDeclared
<1>3. plugin = catalog
  BY <1>1 DEF CatalogInv, PluginOK
<1>4. \A m \in Decorated : Compose(m) \in Declared
  BY <1>2 DEF Ungrouped, Declared
<1>5. \A d \in Declared : d.key \in KeysOf(plugin) /\ plugin[d.key] = d
  BY <1>2, <1>3, DefinitionTyped DEF KeysOf
<1>6. \A d \in Declared : \E n \in Decorated : d = Compose(n)
  BY DEF Declared
<1>7. \A k \in KeysOf(plugin) : plugin[k].key = k /\ plugin[k] \in Declared
  BY <1>2, <1>3 DEF KeysOf
<1> QED
  BY <1>1, <1>3, <1>4, <1>5, <1>6, <1>7 DEF RulesOK

\* The guard lets a member through on a key of organization scope exactly where
\* the ability decides ALLOW.
LEMMA GuardDecides ==
    ASSUME NEW a \in Actors, ~a.wildcard, NEW m, Compose(m).key \in KeysOf(catalog),
           a.owner => Compose(m).key \notin TeamKeys
    PROVE  GuardAllows(a, m) <=> Decided(a, Compose(m).key) = "ALLOW"
<1> DEFINE k == Compose(m).key
<1>1. CASE a.owner
  <2>1. OwnerRole[k] = "ALLOW" /\ OwnerRole[Star] = "NONE"
    BY CatalogAssumption DEF OwnerRole, KeysOf, StoredKeys
  <2>2. RoleEffect(OwnerRole, k) = "ALLOW"
    BY <2>1 DEF RoleEffect
  <2>3. Resolve({OwnerRole}, k) = "ALLOW"
    BY <2>2 DEF Resolve
  <2>4. Decide({OwnerRole}, k, FALSE) = "ALLOW"
    BY <1>1, <2>3 DEF Decide
  <2> QED
    BY <1>1, <2>4 DEF GuardAllows, Decided, ContextTables
<1>2. CASE ~a.owner
  BY <1>2 DEF GuardAllows, Decided, ContextTables
<1> QED
  BY <1>1, <1>2 DEF Actors

\* A rule of another permission that matches a question shares it.
LEMMA MatchShares ==
    ASSUME NEW d, NEW k \in KeysOf(plugin), k # d.key, NEW q, Matches(RuleFor(k), q)
    PROVE  Shared(d, q)
BY DEF Matches, RuleFor, Rule, Speaks, Shared

\* The last field of a rule.
LEMMA RuleParts ==
    ASSUME NEW d, NEW b
    PROVE  Rule(d, b).inverted = b
BY DEF Rule

\* A rule is inverted where the decision is DENY.
LEMMA RuleInverted ==
    ASSUME NEW k
    PROVE  RuleFor(k).inverted <=> Decided(who, k) = "DENY"
<1> DEFINE b == Decided(who, k) = "DENY"
<1>1. Rule(plugin[k], b).inverted = b
  BY RuleParts, Zenon
<1>2. RuleFor(k) = Rule(plugin[k], b)
  BY DEF RuleFor
<1> HIDE DEF b
<1>3. RuleFor(k).inverted = b
  BY <1>1, <1>2, Zenon
<1>4. b <=> Decided(who, k) = "DENY"
  BY DEF b
<1> QED
  BY <1>3, <1>4, Zenon

\* For a permission of organization scope that shares no question with another,
\* the client's answer from its rules is the guard's, whatever the actor.
THEOREM ClientCorrect == Spec => []ClientAgrees
<1>1. ASSUME AbilityInv, Shown, NEW m \in Guarded, NEW q \in Questions(Compose(m)),
             ~Shared(Compose(m), q)
      PROVE  Can(q) <=> GuardAllows(who, m)
  <2> DEFINE d == Compose(m)
             k == d.key
  <2>1. CASE who.wildcard
    <3>1. rules = <<Everything>>
      BY <1>1, <2>1 DEF AbilityInv, RulesOK, Shown
    <3>2. Len(rules) = 1 /\ rules[1] = Everything
      BY <3>1
    <3>3. Matches(Everything, q) /\ ~Everything.inverted
      BY DEF Matches, Everything, Speaks
    <3>4. Can(q)
      BY <3>2, <3>3 DEF Can
    <3> QED
      BY <2>1, <3>4 DEF GuardAllows
  <2>2. CASE ~who.wildcard
    <3>1. /\ k \in KeysOf(plugin) /\ plugin[k] = d
          /\ \A i \in 1 .. Len(rules) : \E j \in KeysOf(plugin) :
                Decided(who, j) # "NONE" /\ rules[i] = RuleFor(j)
          /\ Decided(who, k) # "NONE" => \E i \in 1 .. Len(rules) : rules[i] = RuleFor(k)
          /\ plugin = catalog /\ who \in Actors /\ k \notin TeamKeys
      BY <1>1, <2>2, AbilityShown DEF Guarded
    <3>2. GuardAllows(who, m) <=> Decided(who, k) = "ALLOW"
      BY <2>2, <3>1, GuardDecides
    <3>3. /\ RuleFor(k).subject = d.subject /\ RuleFor(k).action = d.action
          /\ RuleFor(k).fields = d.fields
      BY <3>1 DEF RuleFor, Rule
    <3>4. /\ q.subject = d.subject /\ q.action = d.action
          /\ d.fields # {} => q.field = NoField \/ q.field \in d.fields
      BY <1>1 DEF Questions
    <3> HIDE DEF d, k
    <3>5. \A i \in 1 .. Len(rules) : Matches(rules[i], q) =>
             rules[i] = RuleFor(k) /\ Decided(who, k) # "NONE"
      BY <1>1, <3>1, MatchShares DEF d, k
    <3>6. ASSUME Decided(who, k) = "ALLOW" PROVE Matches(RuleFor(k), q) /\ ~RuleFor(k).inverted
      <4>1. ~RuleFor(k).inverted
        BY <3>6, RuleInverted
      <4> QED
        BY <3>3, <3>4, <4>1 DEF Matches, Speaks
    <3>7. Decided(who, k) \in Effects
      BY DEF Decided, Decide, Resolve, Effects
    <3>8. ASSUME Can(q) PROVE Decided(who, k) = "ALLOW"
      <4>1. PICK i \in 1 .. Len(rules) : Matches(rules[i], q) /\ ~rules[i].inverted
        BY <3>8 DEF Can
      <4>2. rules[i] = RuleFor(k) /\ Decided(who, k) # "NONE"
        BY <3>5, <4>1
      <4>3. Decided(who, k) # "DENY"
        BY <4>1, <4>2, RuleInverted
      <4> QED
        BY <3>7, <4>2, <4>3 DEF Effects
    <3>9. ASSUME Decided(who, k) = "ALLOW" PROVE Can(q)
      <4>1. PICK i \in 1 .. Len(rules) : rules[i] = RuleFor(k)
        BY <3>1, <3>9
      <4>2. Matches(rules[i], q) /\ ~rules[i].inverted
        BY <3>6, <3>9, <4>1
      <4>3. \A j \in i + 1 .. Len(rules) : j \in 1 .. Len(rules)
        OBVIOUS
      <4>4. \A j \in i + 1 .. Len(rules) : Matches(rules[j], q) => ~rules[j].inverted
        BY <3>5, <3>6, <3>9, <4>3
      <4> QED
        BY <4>2, <4>4 DEF Can
    <3> QED
      BY <3>2, <3>8, <3>9
  <2> QED
    BY <2>1, <2>2
<1>2. AbilityInv => ClientAgrees
  BY <1>1 DEF ClientAgrees
<1> QED
  BY <1>2, AbilityInvHolds, PTL

\* Whatever permissions share a question, the client shows nothing that the
\* guard does not allow some permission for.
THEOREM NothingCorrect == Spec => []NothingForNothing
<1>1. ASSUME AbilityInv, Shown, ~who.wildcard, ~who.owner, NEW q, Can(q)
      PROVE  \E n \in Decorated : Speaks(Compose(n), q.subject, q.action) /\ GuardAllows(who, n)
  <2>1. PICK i \in 1 .. Len(rules) : Matches(rules[i], q) /\ ~rules[i].inverted
    BY <1>1 DEF Can
  <2>2. PICK k \in KeysOf(plugin) : Decided(who, k) # "NONE" /\ rules[i] = RuleFor(k)
    BY <1>1, AbilityShown
  <2>3. PICK n \in Decorated : plugin[k] = Compose(n) /\ Compose(n).key = k
    BY <1>1, AbilityShown
  <2> DEFINE d == Compose(n)
  <2>8. RuleFor(k).subject = d.subject /\ RuleFor(k).action = d.action
    BY <2>3 DEF RuleFor, Rule
  <2> HIDE DEF d
  <2>4. Speaks(Compose(n), q.subject, q.action) /\ Decided(who, k) # "DENY"
    <3>1. Matches(RuleFor(k), q) /\ ~RuleFor(k).inverted
      BY <2>1, <2>2
    <3>2. Speaks(d, q.subject, q.action)
      BY <2>8, <3>1 DEF Matches, Speaks
    <3>3. Decided(who, k) # "DENY"
      BY <3>1, RuleInverted
    <3> QED
      BY <3>2, <3>3 DEF d
  <2>5. Decided(who, k) = "ALLOW"
    BY <2>2, <2>4 DEF Decided, Decide, Resolve
  <2>6. plugin = catalog /\ who \in Actors
    BY <1>1, AbilityShown
  <2>7. GuardAllows(who, n)
    BY <1>1, <2>3, <2>5, <2>6, GuardDecides
  <2> QED
    BY <2>4, <2>7
<1>2. AbilityInv => NothingForNothing
  BY <1>1 DEF NothingForNothing
<1> QED
  BY <1>2, AbilityInvHolds, PTL
=============================================================================
