-------------------------- MODULE ResourceStoreProofs --------------------------
(***************************************************************************)
(* Theorems about ResourceStore.                                           *)
(***************************************************************************)
EXTENDS ResourceStore, TLAPS

------------------------------------------------------------------------------
(***************************************************************************)
(* Beginnings of paths.                                                    *)
(***************************************************************************)
\* A path is the beginning of another when they agree as far as it goes.
LEMMA PrefixAgrees ==
  ASSUME NEW S, NEW s \in Seq(S), NEW t \in Seq(S)
  PROVE  IsPrefix(s, t) <=> Len(s) <= Len(t) /\ \A i \in 1 .. Len(s) : s[i] = t[i]
<1>1. CASE Len(s) <= Len(t)
  <2>1. SubSeq(s, 1, Len(s)) = s
    OBVIOUS
  <2>2. /\ SubSeq(t, 1, Len(s)) \in Seq(S) /\ Len(SubSeq(t, 1, Len(s))) = Len(s)
        /\ \A i \in 1 .. Len(s) : SubSeq(t, 1, Len(s))[i] = t[i]
    BY <1>1
  <2>3. s = SubSeq(t, 1, Len(s)) <=> \A i \in 1 .. Len(s) : s[i] = SubSeq(t, 1, Len(s))[i]
    BY <2>2
  <2> QED BY <1>1, <2>1, <2>2, <2>3 DEF IsPrefix
<1>2. CASE ~(Len(s) <= Len(t))
  BY <1>2 DEF IsPrefix
<1> QED BY <1>1, <1>2

\* What precedes the last name of a path.
LEMMA FrontOfPath ==
  ASSUME NEW S, NEW s \in Seq(S), s # <<>>
  PROVE  /\ Front(s) \in Seq(S)
         /\ Len(Front(s)) = Len(s) - 1
         /\ IsPrefix(Front(s), s)
<1>1. Len(s) \in Nat \ {0}
  OBVIOUS
<1>2. /\ Front(s) \in Seq(S) /\ Len(Front(s)) = Len(s) - 1
      /\ \A i \in 1 .. Len(Front(s)) : Front(s)[i] = s[i]
  <2>1. \A n \in 0 .. Len(s) :
          /\ SubSeq(s, 1, n) \in Seq(S) /\ Len(SubSeq(s, 1, n)) = n
          /\ \A i \in 1 .. n : SubSeq(s, 1, n)[i] = s[i]
    OBVIOUS
  <2>2. PICK n \in 0 .. Len(s) : n = Len(s) - 1
    BY <1>1
  <2>3. Front(s) = SubSeq(s, 1, n)
    BY <2>2 DEF Front
  <2> QED BY <2>1, <2>2, <2>3
<1>3. Len(Front(s)) <= Len(s)
  BY <1>1, <1>2
<1> QED BY <1>2, <1>3, PrefixAgrees

\* Being the beginning of a path is transitive, and of paths of the same length
\* only one is.
LEMMA PrefixOrder ==
  ASSUME NEW S, NEW s \in Seq(S), NEW t \in Seq(S), NEW u \in Seq(S)
  PROVE  /\ IsPrefix(s, s)
         /\ IsPrefix(s, t) /\ IsPrefix(t, u) => IsPrefix(s, u)
         /\ IsPrefix(s, t) /\ IsPrefix(t, s) => s = t
         /\ IsPrefix(s, t) => Len(s) <= Len(t)
<1>1. IsPrefix(s, s)
  BY PrefixAgrees
<1>2. IsPrefix(s, t) /\ IsPrefix(t, u) => IsPrefix(s, u)
  <2> SUFFICES ASSUME IsPrefix(s, t), IsPrefix(t, u) PROVE IsPrefix(s, u)
    OBVIOUS
  <2>1. Len(s) <= Len(t) /\ \A i \in 1 .. Len(s) : s[i] = t[i]
    BY PrefixAgrees
  <2>2. Len(t) <= Len(u) /\ \A i \in 1 .. Len(t) : t[i] = u[i]
    BY PrefixAgrees
  <2>3. Len(s) <= Len(u) /\ \A i \in 1 .. Len(s) : s[i] = u[i]
    BY <2>1, <2>2
  <2> QED BY <2>3, PrefixAgrees
<1>3. IsPrefix(s, t) /\ IsPrefix(t, s) => s = t
  <2> SUFFICES ASSUME IsPrefix(s, t), IsPrefix(t, s) PROVE s = t
    OBVIOUS
  <2>1. Len(s) <= Len(t) /\ \A i \in 1 .. Len(s) : s[i] = t[i]
    BY PrefixAgrees
  <2>2. Len(t) <= Len(s)
    BY PrefixAgrees
  <2>3. Len(s) = Len(t)
    BY <2>1, <2>2
  <2> QED BY <2>1, <2>3
<1>4. IsPrefix(s, t) => Len(s) <= Len(t)
  BY PrefixAgrees
<1> QED BY <1>1, <1>2, <1>3, <1>4

\* The beginnings of a path are the path itself, nothing, and with each of
\* them what precedes its last name.
LEMMA PrefixesOfPath ==
  ASSUME NEW S, NEW p \in Seq(S)
  PROVE  /\ <<>> \in Prefixes(p) /\ p \in Prefixes(p)
         /\ \A q \in Prefixes(p) :
              /\ q \in Seq(S) /\ IsPrefix(q, p)
              /\ q # <<>> => Front(q) \in Prefixes(p)
<1>1. \A l \in 0 .. Len(p) :
        /\ SubSeq(p, 1, l) \in Seq(S) /\ Len(SubSeq(p, 1, l)) = l
        /\ \A i \in 1 .. l : SubSeq(p, 1, l)[i] = p[i]
  OBVIOUS
<1>2. 0 \in 0 .. Len(p) /\ SubSeq(p, 1, 0) = <<>>
  OBVIOUS
<1>3. Len(p) \in 0 .. Len(p) /\ SubSeq(p, 1, Len(p)) = p
  OBVIOUS
<1>4. ASSUME NEW q \in Prefixes(p)
      PROVE  /\ q \in Seq(S) /\ IsPrefix(q, p)
             /\ q # <<>> => Front(q) \in Prefixes(p)
  <2>1. PICK l \in 0 .. Len(p) : q = SubSeq(p, 1, l)
    BY DEF Prefixes
  <2>2. q \in Seq(S) /\ Len(q) = l /\ \A i \in 1 .. l : q[i] = p[i]
    BY <1>1, <2>1
  <2>3. Len(q) <= Len(p)
    BY <2>1, <2>2
  <2>4. IsPrefix(q, p)
    BY <2>2, <2>3, PrefixAgrees
  <2>5. ASSUME q # <<>>
        PROVE  Front(q) \in Prefixes(p)
    <3>1. l - 1 \in 0 .. Len(p)
      BY <2>1, <2>2, <2>5
    <3>2. /\ Front(q) \in Seq(S) /\ Len(Front(q)) = l - 1
          /\ \A i \in 1 .. (l - 1) : Front(q)[i] = q[i]
      BY <2>1, <2>2, <2>5 DEF Front
    <3>3. /\ SubSeq(p, 1, l - 1) \in Seq(S) /\ Len(SubSeq(p, 1, l - 1)) = l - 1
          /\ \A i \in 1 .. (l - 1) : SubSeq(p, 1, l - 1)[i] = p[i]
      BY <1>1, <3>1
    <3>4. \A i \in 1 .. (l - 1) : i \in 1 .. l
      BY <2>1
    <3>5. Front(q) = SubSeq(p, 1, l - 1)
      BY <2>2, <3>2, <3>3, <3>4
    <3> QED BY <3>1, <3>5 DEF Prefixes
  <2> QED BY <2>2, <2>4, <2>5
<1>5. <<>> \in Prefixes(p) /\ p \in Prefixes(p)
  BY <1>2, <1>3 DEF Prefixes
<1> QED BY <1>4, <1>5

------------------------------------------------------------------------------
(***************************************************************************)
(* Lookups.                                                                *)
(***************************************************************************)
\* What a sequence of some set is made of.
LEMMA ElementOf ==
  ASSUME NEW S, NEW s \in Seq(S), NEW i \in DOMAIN s
  PROVE  s[i] \in S
OBVIOUS

\* Resources have names.
LEMMA ResourceNames == \A i \in DOMAIN Resources : Resources[i].name \in STRING
<1> DEFINE R == [name : STRING, kind : STRING, sub : BOOLEAN]
<1>1. Resources \in Seq(R)
  BY DiscoveryAssumption
<1>2. \A i \in DOMAIN Resources : Resources[i] \in R
  <2> HIDE DEF R
  <2> QED BY <1>1, ElementOf
<1> QED BY <1>2

\* A resource of its own: the one of a kind that is no subresource.
LEMMA OwnResource ==
  ASSUME NEW o \in Objects
  PROVE  \E i \in DOMAIN Resources :
           /\ Resources[i].kind = o.kind /\ ~Resources[i].sub
           /\ Resources[i].name \in STRING
           /\ Documented(o) = pathForResource(Resources[i].name, o)
           /\ \A j \in DOMAIN Resources : Resources[j].kind = o.kind => i <= j
<1>1. PICK i \in DOMAIN Resources : Resources[i].kind = o.kind /\ ~Resources[i].sub
  BY ResourceStoreAssumption
<1>2. DOMAIN Resources = 1 .. Len(Resources) /\ Len(Resources) \in Nat
  BY DiscoveryAssumption
<1>3. \A j \in DOMAIN Resources : Resources[j].name \in STRING
  BY ResourceNames
<1>4. \A j \in DOMAIN Resources : Resources[j].kind = o.kind => j = i \/ (j > i /\ Resources[j].sub)
  BY <1>1, DiscoveryAssumption
<1>5. \A r \in Range(Resources) : r.kind = o.kind /\ ~r.sub => r = Resources[i]
  BY <1>1, <1>4 DEF Range
<1>6. Resources[i] \in Range(Resources)
  BY DEF Range
<1>7. (CHOOSE r \in Range(Resources) : r.kind = o.kind /\ ~r.sub) = Resources[i]
  BY <1>1, <1>5, <1>6
<1>8. \A j \in DOMAIN Resources : Resources[j].kind = o.kind => i <= j
  BY <1>2, <1>4
<1> QED BY <1>1, <1>3, <1>7, <1>8 DEF Documented

\* The first resource in the cache that has the kind of an object is its own.
LEMMA FoundWhereDocumented ==
  ASSUME DiscoveryTypeOK, KindsComplete, NEW o \in Objects, KindIsFound(o.kind)
  PROVE  pathForResource(ResourceForKind(o.kind), o) = Documented(o)
<1>1. PICK i \in DOMAIN Resources :
        /\ Resources[i].kind = o.kind /\ ~Resources[i].sub
        /\ Documented(o) = pathForResource(Resources[i].name, o)
        /\ \A j \in DOMAIN Resources : Resources[j].kind = o.kind => i <= j
  BY OwnResource
<1>2. DOMAIN Resources \subseteq Nat
  BY DiscoveryAssumption
<1> DEFINE M == Matching(cache, o.kind)
<1>3. M \subseteq DOMAIN Resources /\ \A j \in M : i <= j
  BY <1>1 DEF Matching, DiscoveryTypeOK
<1>4. i \in M
  <2>1. PICK j \in cache : Resources[j].kind = o.kind
    BY DEF KindIsFound, Matching
  <2>2. i \in Defined({Resources[j].kind})
    BY <1>1, <2>1 DEF Defined
  <2> QED BY <1>1, <2>1, <2>2 DEF KindsComplete, Matching
<1>5. \A h \in M : (\A j \in M : h <= j) => h = i
  BY <1>2, <1>3, <1>4
<1>6. (CHOOSE h \in M : \A j \in M : h <= j) = i
  BY <1>3, <1>4, <1>5
<1> QED BY <1>1, <1>6 DEF ResourceForKind

\* The names that paths are made of; the provers do not know that a literal is
\* a STRING.
Names ==
  STRING \cup {"resources", "applied", "last", ".versions", "test", "params", "run-id"}

\* A sequence of some set is one of a larger one.
LEMMA MoreNames ==
  ASSUME NEW S, NEW T, S \subseteq T, NEW s \in Seq(S)
  PROVE  s \in Seq(T)
OBVIOUS

\* Every path an item may have is one of names.
LEMMA PathsAreSequences ==
  /\ Paths \subseteq Seq(Names) \ {<<>>}
  /\ Applied \in Paths
<1>1. STRING \subseteq Names
  BY DEF Names
<1>2. \A a, b, c \in Names : <<a, b, c>> \in Seq(Names) \ {<<>>}
  OBVIOUS
<1>3. \A a, b, c, d \in Names : <<a, b, c, d>> \in Seq(Names) \ {<<>>}
  OBVIOUS
<1>4. ObjectPaths \subseteq Seq(Names) \ {<<>>}
  <2>1. ASSUME NEW o \in Objects
        PROVE  Documented(o) \in Seq(Names) \ {<<>>}
    <3>1. PICK r \in STRING : Documented(o) = pathForResource(r, o)
      BY OwnResource
    <3>2. o.ns \in Names /\ o.name \in Names /\ r \in Names /\ "resources" \in Names
      BY <1>1, ResourceStoreAssumption DEF Names
    <3>3. /\ <<"resources", r, o.name>> \in Seq(Names) \ {<<>>}
          /\ <<"resources", o.ns, r, o.name>> \in Seq(Names) \ {<<>>}
      BY <1>2, <1>3, <3>2
    <3> QED BY <3>1, <3>3, Zenon DEF pathForResource
  <2> QED BY <2>1 DEF ObjectPaths
<1>5. VersionPaths \subseteq Seq(Names) \ {<<>>}
  <2>1. \A r \in Range(Resources) : r.name \in Names
    BY <1>1, ResourceNames DEF Range
  <2>2. "resources" \in Names /\ ".versions" \in Names
    BY DEF Names
  <2> QED BY <1>2, <2>1, <2>2 DEF VersionPaths
<1>6. ParamPaths \subseteq Seq(Names) \ {<<>>}
  <2>1. ASSUME NEW key \in Params
        PROVE  <<"test", "params">> \o key \in Seq(Names) \ {<<>>}
    <3>1. <<"test", "params">> \in Seq(Names) /\ Len(<<"test", "params">>) = 2
      <4>1. "test" \in Names /\ "params" \in Names
        BY DEF Names
      <4> QED BY <4>1
    <3>2. key \in Seq(Names) /\ Len(key) \in Nat
      <4>1. key \in Seq(STRING)
        BY ResourceStoreAssumption
      <4>2. key \in Seq(Names)
        BY <1>1, <4>1, MoreNames
      <4> QED BY <4>2
    <3>3. /\ <<"test", "params">> \o key \in Seq(Names)
          /\ Len(<<"test", "params">> \o key) = 2 + Len(key)
      BY <3>1, <3>2
    <3> QED BY <3>2, <3>3
  <2> QED BY <2>1 DEF ParamPaths
<1>7. Applied \in Seq(Names) \ {<<>>} /\ RunID \in Seq(Names) \ {<<>>}
  BY <1>2 DEF Applied, RunID, Names
<1> QED BY <1>4, <1>5, <1>6, <1>7 DEF Paths, Own

------------------------------------------------------------------------------
(***************************************************************************)
(* The tree, whichever transaction comes next.                             *)
(***************************************************************************)
TreeTypeOK ==
  /\ <<>> \in DOMAIN tree
  /\ \A q \in DOMAIN tree :
       /\ tree[q] \in Item \cup {Node}
       /\ q # <<>> => Front(q) \in DOMAIN tree /\ tree[Front(q)] = Node

TreeInv == TreeTypeOK /\ TreeOfPaths /\ NothingElsewhere

\* What is in the tree is a sequence, and no path leads through another.
LEMMA TreeSequences ==
  ASSUME TreeOfPaths, NEW q \in DOMAIN tree
  PROVE  /\ q \in Seq(Names)
         /\ \E p \in Paths : IsPrefix(q, p)
         /\ \A p \in Paths : IsPrefix(p, q) => q = p
<1>1. PICK p \in Paths : q \in Prefixes(p)
  BY DEF TreeOfPaths
<1>2. p \in Seq(Names)
  BY PathsAreSequences
<1>3. q \in Seq(Names) /\ IsPrefix(q, p)
  BY <1>1, <1>2, PrefixesOfPath
<1>4. ASSUME NEW r \in Paths, IsPrefix(r, q)
      PROVE  q = r
  <2>1. r \in Seq(Names)
    BY PathsAreSequences
  <2>2. IsPrefix(r, p)
    BY <1>2, <1>3, <1>4, <2>1, PrefixOrder
  <2>3. r = p
    BY <2>2, ResourceStoreAssumption
  <2> QED BY <1>3, <1>4, <2>1, <2>3, PrefixOrder
<1> QED BY <1>3, <1>4

\* Nothing is below the path of an item.
LEMMA NothingBelow ==
  ASSUME TreeOfPaths, NEW p \in Paths
  PROVE  Below(p) = DOMAIN tree \cap {p}
<1>1. \A q \in DOMAIN tree : IsPrefix(p, q) => q = p
  BY TreeSequences
<1>2. IsPrefix(p, p)
  <2>1. p \in Seq(Names)
    BY PathsAreSequences
  <2> QED BY <2>1, PrefixOrder
<1> QED BY <1>1, <1>2 DEF Below

\* What leads to an item is an inner node.
LEMMA InnerNodes ==
  ASSUME NothingElsewhere, NEW p \in Paths, NEW q \in DOMAIN tree, q # p, IsPrefix(q, p)
  PROVE  tree[q] = Node
BY ResourceStoreAssumption DEF NothingElsewhere

\* What precedes the last name of a path is another path.
LEMMA FrontIsShorter ==
  ASSUME NEW q \in Seq(Names), q # <<>>
  PROVE  Front(q) \in Seq(Names) /\ Front(q) # q /\ IsPrefix(Front(q), q)
<1>1. /\ Front(q) \in Seq(Names) /\ IsPrefix(Front(q), q)
      /\ Len(Front(q)) = Len(q) - 1
  BY FrontOfPath
<1>2. Len(q) \in Nat
  OBVIOUS
<1> QED BY <1>1, <1>2

\* What is not an item's path stays what leads to another one.
LEMMA FrontIsNoItem ==
  ASSUME TreeInv, NEW p \in Paths, NEW q \in DOMAIN tree, q # <<>>
  PROVE  Front(q) # p
<1>1. q \in Seq(Names)
  BY TreeSequences DEF TreeInv
<1>2. Front(q) # q /\ IsPrefix(Front(q), q)
  BY <1>1, FrontIsShorter
<1> QED BY <1>2, TreeSequences DEF TreeInv

\* StoreItem puts an item where its parent is, and nothing else changes.
LEMMA StoredKeeps ==
  ASSUME TreeInv, NEW p \in Paths, NEW c \in Item, c.place = p,
         p \in DOMAIN tree \/ Front(p) \in DOMAIN tree, tree' = Stored(p, c)
  PROVE  /\ TreeInv'
         /\ DOMAIN tree' = DOMAIN tree \cup {p} /\ tree'[p] = c
         /\ \A q \in DOMAIN tree \ {p} : tree'[q] = tree[q]
<1>1. DOMAIN tree' = DOMAIN tree \cup {p}
  BY NothingBelow DEF Stored, TreeInv
<1>2. tree'[p] = c /\ \A q \in DOMAIN tree \ {p} : tree'[q] = tree[q]
  BY <1>1, NothingBelow DEF Stored, TreeInv
<1>3. p \in Seq(Names) /\ p # <<>>
  BY PathsAreSequences
<1>4. Front(p) \in DOMAIN tree /\ Front(p) # p /\ IsPrefix(Front(p), p)
  BY <1>3, FrontIsShorter DEF TreeInv, TreeTypeOK
<1>5. tree[Front(p)] = Node
  BY <1>4, InnerNodes DEF TreeInv
<1>6. TreeTypeOK'
  <2>1. <<>> \in DOMAIN tree'
    BY <1>1 DEF TreeInv, TreeTypeOK
  <2>2. ASSUME NEW q \in DOMAIN tree'
        PROVE  /\ tree'[q] \in Item \cup {Node}
               /\ q # <<>> => Front(q) \in DOMAIN tree' /\ tree'[Front(q)] = Node
    <3>1. CASE q = p
      BY <1>1, <1>2, <1>4, <1>5, <3>1
    <3>2. CASE q # p
      <4>1. q \in DOMAIN tree /\ tree'[q] = tree[q]
        BY <1>1, <1>2, <2>2, <3>2
      <4>2. q # <<>> => Front(q) # p
        BY <4>1, FrontIsNoItem
      <4> QED BY <1>1, <1>2, <4>1, <4>2 DEF TreeInv, TreeTypeOK
    <3> QED BY <3>1, <3>2
  <2> QED BY <2>1, <2>2 DEF TreeTypeOK
<1>7. TreeOfPaths'
  <2>1. p \in Prefixes(p)
    BY <1>3, PrefixesOfPath
  <2> QED BY <1>1, <2>1 DEF TreeInv, TreeOfPaths
<1>8. NothingElsewhere'
  BY <1>1, <1>2 DEF TreeInv, NothingElsewhere
<1> QED BY <1>1, <1>2, <1>6, <1>7, <1>8 DEF TreeInv

\* RemovePath takes one item away.
LEMMA RemovedKeeps ==
  ASSUME TreeInv, NEW p \in Paths, tree' = Removed(p)
  PROVE  /\ TreeInv'
         /\ DOMAIN tree' = DOMAIN tree \ {p}
         /\ \A q \in DOMAIN tree \ {p} : tree'[q] = tree[q]
<1>1. DOMAIN tree' = DOMAIN tree \ {p}
  BY NothingBelow DEF Removed, Restrict, TreeInv
<1>2. \A q \in DOMAIN tree \ {p} : tree'[q] = tree[q]
  BY <1>1, NothingBelow DEF Removed, Restrict, TreeInv
<1>3. TreeTypeOK'
  <2>1. <<>> \in DOMAIN tree'
    BY <1>1, PathsAreSequences DEF TreeInv, TreeTypeOK
  <2>2. ASSUME NEW q \in DOMAIN tree'
        PROVE  /\ tree'[q] \in Item \cup {Node}
               /\ q # <<>> => Front(q) \in DOMAIN tree' /\ tree'[Front(q)] = Node
    <3>1. q \in DOMAIN tree /\ tree'[q] = tree[q]
      BY <1>1, <1>2, <2>2
    <3>2. q # <<>> => Front(q) # p
      BY <3>1, FrontIsNoItem
    <3> QED BY <1>1, <1>2, <3>1, <3>2 DEF TreeInv, TreeTypeOK
  <2> QED BY <2>1, <2>2 DEF TreeTypeOK
<1>4. TreeOfPaths' /\ NothingElsewhere'
  BY <1>1, <1>2 DEF TreeInv, TreeOfPaths, NothingElsewhere
<1> QED BY <1>1, <1>2, <1>3, <1>4 DEF TreeInv

\* StorePath adds inner nodes only.
LEMMA MadeKeeps ==
  ASSUME TreeInv, NEW p \in Paths, tree' = MadePath(p)
  PROVE  /\ TreeInv'
         /\ DOMAIN tree \subseteq DOMAIN tree' /\ p \in DOMAIN tree'
         /\ \A q \in DOMAIN tree : tree'[q] = tree[q]
         /\ \A q \in DOMAIN tree' \ DOMAIN tree : tree'[q] = Node /\ (q \in Paths => q = p)
<1>1. DOMAIN tree' = DOMAIN tree \cup Prefixes(p)
  BY DEF MadePath
<1>2. /\ \A q \in DOMAIN tree : tree'[q] = tree[q]
      /\ \A q \in DOMAIN tree' \ DOMAIN tree : tree'[q] = Node
  BY <1>1 DEF MadePath
<1>3. p \in Seq(Names)
  BY PathsAreSequences
<1>4. /\ p \in Prefixes(p)
      /\ \A q \in Prefixes(p) :
           q \in Seq(Names) /\ IsPrefix(q, p) /\ (q # <<>> => Front(q) \in Prefixes(p))
  BY <1>3, PrefixesOfPath
<1>5. \A q \in Prefixes(p) : q \in Paths => q = p
  BY <1>4, ResourceStoreAssumption
<1>6. TreeTypeOK'
  <2>1. <<>> \in DOMAIN tree'
    BY <1>1 DEF TreeInv, TreeTypeOK
  <2>2. ASSUME NEW q \in DOMAIN tree'
        PROVE  /\ tree'[q] \in Item \cup {Node}
               /\ q # <<>> => Front(q) \in DOMAIN tree' /\ tree'[Front(q)] = Node
    <3>1. CASE q \in DOMAIN tree
      BY <1>1, <1>2, <3>1 DEF TreeInv, TreeTypeOK
    <3>2. CASE q \notin DOMAIN tree
      <4>1. q \in Prefixes(p) /\ tree'[q] = Node
        BY <1>1, <1>2, <2>2, <3>2
      <4>2. ASSUME q # <<>>
            PROVE  Front(q) \in DOMAIN tree' /\ tree'[Front(q)] = Node
        <5>1. Front(q) \in Prefixes(p) /\ Front(q) \in DOMAIN tree'
          BY <1>1, <1>4, <4>1, <4>2
        <5>2. CASE Front(q) \notin DOMAIN tree
          BY <1>2, <5>1, <5>2
        <5>3. CASE Front(q) \in DOMAIN tree
          <6>1. Front(q) # p
            <7>1. q \in Seq(Names) /\ IsPrefix(q, p)
              BY <1>4, <4>1
            <7>2. Front(q) # q /\ Front(q) \in Seq(Names) /\ IsPrefix(Front(q), q)
              BY <4>2, <7>1, FrontIsShorter
            <7> QED BY <1>3, <7>1, <7>2, PrefixOrder
          <6> QED BY <1>2, <1>4, <5>1, <5>3, <6>1, InnerNodes DEF TreeInv
        <5> QED BY <5>1, <5>2, <5>3
      <4> QED BY <4>1, <4>2
    <3> QED BY <3>1, <3>2
  <2> QED BY <2>1, <2>2 DEF TreeTypeOK
<1>7. TreeOfPaths' /\ NothingElsewhere'
  BY <1>1, <1>2 DEF TreeInv, TreeOfPaths, NothingElsewhere
<1> QED BY <1>1, <1>2, <1>4, <1>5, <1>6, <1>7 DEF TreeInv

------------------------------------------------------------------------------
(***************************************************************************)
(* The steps of the threads.                                               *)
(***************************************************************************)
OpTypeOK ==
  op \in [Threads -> [step : Steps, path : Paths \cup {<<>>}, item : Item \cup {Node}]]

\* What is known of both threads, and of the tree they work on.
LEMMA InvParts ==
  ASSUME StoreInv
  PROVE  /\ DiscoveryTypeOK /\ TreeInv /\ OpTypeOK
         /\ \A t \in Threads :
              /\ op[t].path \in Paths \cup {<<>>}
              /\ op[t].step # "idle" => op[t].path \in Paths
              /\ op[t].step \in Writing => op[t].item \in Item /\ op[t].item.place = op[t].path
         /\ op["document"].path # op["events"].path \/ op["document"].path = <<>>
<1>1. DiscoveryTypeOK /\ TreeInv /\ OpTypeOK
  BY DEF StoreInv, TypeOK, TreeInv, TreeTypeOK, OpTypeOK
<1>2. ASSUME NEW t \in Threads
      PROVE  /\ op[t].path \in Paths \cup {<<>>}
             /\ op[t].step # "idle" => op[t].path \in Paths
             /\ op[t].step \in Writing => op[t].item \in Item /\ op[t].item.place = op[t].path
  <2>1. op[t].path \in Paths \cup {<<>>}
    BY <1>1 DEF OpTypeOK
  <2> QED BY <2>1 DEF StoreInv, ThreadsApart
<1>3. op["document"].path # op["events"].path \/ op["document"].path = <<>>
  <2>1. /\ op["document"].path \in Own \cup {<<>>}
        /\ op["events"].path \in ObjectPaths \cup {<<>>}
    BY DEF StoreInv, ThreadsApart
  <2>2. ObjectPaths \cap Own = {}
    BY ResourceStoreAssumption
  <2>3. <<>> \notin Own
    BY PathsAreSequences DEF Paths
  <2> QED BY <2>1, <2>2, <2>3
<1> QED BY <1>1, <1>2, <1>3

\* A thread is about to store or remove something: everything else stays.
LEMMA BeginKeeps ==
  ASSUME StoreInv, UNCHANGED discoveryVars, NEW t \in Threads,
         NEW step \in {"store", "make path", "store or not", "remove"},
         NEW p \in Paths, NEW c \in Item \cup {Node}, Begin(t, step, p, c),
         t = "document" => p \in Own /\ step # "remove",
         t = "events" => p \in ObjectPaths,
         step # "remove" => c \in Item /\ c.place = p,
         step = "remove" => p \in DOMAIN tree /\ tree[p] # Node
  PROVE  StoreInv'
<1> DEFINE begun == [step |-> step, path |-> p, item |-> c]
<1>1. /\ tree' = tree /\ op[t].step = "idle"
      /\ op' = [op EXCEPT ![t] = begun]
  BY DEF Begin
<1>2. OpTypeOK
  BY InvParts
<1>3. /\ op'[t] = begun
      /\ \A s \in Threads : s # t => op'[s] = op[s]
  BY <1>1, <1>2 DEF OpTypeOK
<1>4. OpTypeOK'
  <2>1. begun \in [step : Steps, path : Paths \cup {<<>>}, item : Item \cup {Node}]
    BY DEF Steps
  <2> QED BY <1>1, <1>2, <2>1 DEF OpTypeOK
<1>5. p # <<>>
  BY PathsAreSequences
<1>6. "document" \in Threads /\ "events" \in Threads /\ t \in {"document", "events"}
  BY DEF Threads
<1>7. op'[t].step = step /\ op'[t].path = p /\ op'[t].item = c
  <2>1. begun.step = step /\ begun.path = p /\ begun.item = c
    OBVIOUS
  <2> HIDE DEF begun
  <2> QED BY <1>3, <2>1
<1> HIDE DEF begun
<1>8. ThreadsApart'
  <2>1. /\ op'["document"].path \in Own \cup {<<>>}
        /\ op'["document"].step # "remove"
    BY <1>3, <1>6, <1>7 DEF StoreInv, ThreadsApart
  <2>2. op'["events"].path \in ObjectPaths \cup {<<>>}
    BY <1>3, <1>6, <1>7 DEF StoreInv, ThreadsApart
  <2>3. ASSUME NEW s \in Threads
        PROVE  /\ op'[s].step # "idle" => op'[s].path # <<>>
               /\ op'[s].step \in Writing =>
                    op'[s].item \in Item /\ op'[s].item.place = op'[s].path
    <3>1. CASE s = t
      BY <1>5, <1>7, <3>1 DEF Writing
    <3>2. CASE s # t
      BY <1>3, <3>2 DEF StoreInv, ThreadsApart
    <3> QED BY <3>1, <3>2
  <2> QED BY <2>1, <2>2, <2>3 DEF ThreadsApart
<1>9. PathsThere'
  <2>1. ASSUME NEW s \in Threads, op'[s].step = "store again"
        PROVE  op'[s].path \in DOMAIN tree'
    <3>1. s # t
      BY <1>7, <2>1
    <3> QED BY <1>1, <1>3, <2>1, <3>1 DEF StoreInv, PathsThere
  <2>2. ASSUME op'["events"].step = "remove"
        PROVE  op'["events"].path \in DOMAIN tree' /\ tree'[op'["events"].path] # Node
    <3>1. CASE t = "events"
      BY <1>1, <1>7, <2>2, <3>1
    <3>2. CASE t # "events"
      BY <1>1, <1>3, <1>6, <2>2, <3>2 DEF StoreInv, PathsThere
    <3> QED BY <3>1, <3>2
  <2> QED BY <2>1, <2>2 DEF PathsThere
<1>10. NeverFails'
  <2>1. ASSUME NEW s \in Threads
        PROVE  op'[s].step # "failed"
    <3>1. CASE s = t
      BY <1>7, <3>1
    <3>2. CASE s # t
      BY <1>3, <3>2 DEF StoreInv, NeverFails
    <3> QED BY <3>1, <3>2
  <2> QED BY <2>1 DEF NeverFails
<1>11. HalfStoredOnlyInFlight'
  <2>1. ASSUME NEW q \in Paths \cap DOMAIN tree, tree[q] = Node
        PROVE  \E s \in Threads : op'[s].step = "store again" /\ op'[s].path = q
    <3>1. PICK s \in Threads : op[s].step = "store again" /\ op[s].path = q
      BY <2>1 DEF StoreInv, HalfStoredOnlyInFlight
    <3>2. s # t
      BY <1>1, <3>1
    <3> QED BY <1>3, <3>1, <3>2
  <2> QED BY <1>1, <2>1 DEF HalfStoredOnlyInFlight
<1>12. TypeOK' /\ TreeOfPaths' /\ NothingElsewhere' /\ KindsComplete'
  BY <1>1, <1>4 DEF StoreInv, TypeOK, OpTypeOK, TreeOfPaths, NothingElsewhere, KindsComplete,
     DiscoveryTypeOK, discoveryVars, KindIsFound, Matching
<1> QED BY <1>8, <1>9, <1>10, <1>11, <1>12 DEF StoreInv

\* The document's thread begins.
LEMMA DocumentBegins ==
  ASSUME StoreInv, StoreOwn \/ StoreParam \/ StoreRunID
  PROVE  StoreInv'
<1>1. "document" \in Threads /\ "document" # "events"
  BY DEF Threads
<1>2. Own \subseteq Paths
  BY DEF Paths
<1>3. PICK step \in {"store", "make path", "store or not"}, p \in Own, c \in Item :
        Begin("document", step, p, c) /\ c.place = p
  <2>0. \A p \in Own : \A i \in ItemsFor(p) : i \in Item /\ i.place = p
    BY <1>2 DEF ItemsFor, Item
  <2>1. CASE StoreOwn
    <3>1. ServerVersions \subseteq {r.name : r \in {x \in Range(Resources) : ~x.sub}}
      BY InvParts DEF ServerVersions, DiscoveryTypeOK, Range
    <3>2. {<<"resources", r, ".versions">> : r \in ServerVersions} \subseteq Own
      BY <3>1 DEF Own, VersionPaths
    <3> QED BY <2>0, <2>1, <3>2 DEF StoreOwn, Own
  <2>2. CASE StoreParam
    BY <2>0, <2>2 DEF StoreParam, Own
  <2>3. CASE StoreRunID
    BY <2>0, <2>3 DEF StoreRunID, Own
  <2> QED BY <2>1, <2>2, <2>3
<1>4. UNCHANGED discoveryVars
  BY DEF StoreOwn, StoreParam, StoreRunID
<1> QED BY <1>1, <1>2, <1>3, <1>4, BeginKeeps

\* A handler begins: it finds the resource of the object, and so its path.
LEMMA HandlerBegins ==
  ASSUME StoreInv, StoreResource \/ RemoveResource
  PROVE  StoreInv'
<1>1. "events" \in Threads /\ "document" # "events"
  BY DEF Threads
<1>2. PICK step \in {"store", "remove"}, o \in Objects, c \in Item \cup {Node} :
        /\ Handler(step, o, c)
        /\ step = "store" => c \in Item /\ c.place = Documented(o)
        /\ step = "remove" => Documented(o) \in DOMAIN tree /\ tree[Documented(o)] # Node
  <2>1. \A o \in Objects : \A i \in ItemsFor(Documented(o)) : i \in Item /\ i.place = Documented(o)
    BY DEF ItemsFor, Item, Paths, ObjectPaths
  <2> QED BY <2>1 DEF StoreResource, RemoveResource
<1>3. KindIsFound(o.kind)
  BY <1>2 DEF Handler, StoreInv, KindsComplete
<1>4. pathForResource(ResourceForKind(o.kind), o) = Documented(o)
  BY <1>3, InvParts, FoundWhereDocumented DEF StoreInv
<1>5. Begin("events", step, Documented(o), c) /\ UNCHANGED discoveryVars
  BY <1>2, <1>3, <1>4 DEF Handler, LooksUp
<1>6. Documented(o) \in ObjectPaths /\ Documented(o) \in Paths
  BY DEF ObjectPaths, Paths
<1> QED BY <1>1, <1>2, <1>5, <1>6, BeginKeeps

\* What a transaction makes of the thread that has it done.
LEMMA OpMoves ==
  ASSUME StoreInv, NEW t \in Threads, NEW o, op' = [op EXCEPT ![t] = o],
         \/ o = Idle
         \/ /\ op[t].step \in Writing
            /\ o = [op[t] EXCEPT !.step = "make path"] \/ o = [op[t] EXCEPT !.step = "store again"]
  PROVE  /\ OpTypeOK' /\ ThreadsApart' /\ NeverFails'
         /\ op'[t] = o
         /\ \A s \in Threads : s # t => op'[s] = op[s]
<1>1. OpTypeOK
  BY InvParts
<1>2. /\ op'[t] = o
      /\ \A s \in Threads : s # t => op'[s] = op[s]
  BY <1>1 DEF OpTypeOK
<1>3. /\ op[t].path \in Paths \cup {<<>>} /\ op[t].item \in Item \cup {Node}
      /\ op[t].step \in Writing =>
           op[t].item \in Item /\ op[t].item.place = op[t].path /\ op[t].path # <<>>
  <2>1. op[t].path \in Paths \cup {<<>>} /\ op[t].item \in Item \cup {Node}
    BY <1>1 DEF OpTypeOK
  <2> QED BY <2>1 DEF StoreInv, ThreadsApart, Writing
<1>4. \/ o.step = "idle" /\ o.path = <<>> /\ o.item = Node
      \/ /\ op[t].step \in Writing /\ o.step \in {"make path", "store again"}
         /\ o.path = op[t].path /\ o.item = op[t].item
  <2>1. CASE o = Idle
    BY <2>1 DEF Idle
  <2>2. CASE /\ op[t].step \in Writing
             /\ o = [op[t] EXCEPT !.step = "make path"] \/ o = [op[t] EXCEPT !.step = "store again"]
    <3>1. op[t] \in [step : Steps, path : Paths \cup {<<>>}, item : Item \cup {Node}]
      BY <1>1 DEF OpTypeOK
    <3>2. \A r \in [step : Steps, path : Paths \cup {<<>>}, item : Item \cup {Node}] :
            \A step \in {"make path", "store again"} :
              LET e == [r EXCEPT !.step = step]
              IN e.step = step /\ e.path = r.path /\ e.item = r.item
      OBVIOUS
    <3>3. o.step \in {"make path", "store again"} /\ o.path = op[t].path /\ o.item = op[t].item
      BY <2>2, <3>1, <3>2
    <3> QED BY <2>2, <3>3
  <2> QED BY <2>1, <2>2
<1>5. o \in [step : Steps, path : Paths \cup {<<>>}, item : Item \cup {Node}]
  <2>1. CASE o = Idle
    BY <2>1 DEF Idle, Steps
  <2>2. CASE o # Idle
    BY <1>1, <2>2 DEF OpTypeOK, Steps
  <2> QED BY <2>1, <2>2
<1>6. OpTypeOK'
  BY <1>1, <1>5 DEF OpTypeOK
<1>7. "document" \in Threads /\ "events" \in Threads
  BY DEF Threads
<1>8. ThreadsApart'
  <2>1. ASSUME NEW s \in Threads
        PROVE  /\ op'[s].step # "idle" => op'[s].path # <<>>
               /\ op'[s].step \in Writing =>
                    op'[s].item \in Item /\ op'[s].item.place = op'[s].path
               /\ op'[s].path = op[s].path \/ op'[s].path = <<>>
               /\ op'[s].step = "remove" => op[s].step = "remove"
    <3>1. CASE s = t
      BY <1>2, <1>3, <1>4, <3>1 DEF Writing
    <3>2. CASE s # t
      BY <1>2, <3>2 DEF StoreInv, ThreadsApart
    <3> QED BY <3>1, <3>2
  <2> QED BY <1>7, <2>1 DEF StoreInv, ThreadsApart
<1>9. NeverFails'
  <2>1. ASSUME NEW s \in Threads
        PROVE  op'[s].step # "failed"
    <3>1. CASE s = t
      BY <1>2, <1>4, <3>1
    <3>2. CASE s # t
      BY <1>2, <3>2 DEF StoreInv, NeverFails
    <3> QED BY <3>1, <3>2
  <2> QED BY <2>1 DEF NeverFails
<1> QED BY <1>2, <1>6, <1>8, <1>9

\* The parts of StoreInv that a transaction has to keep.
LEMMA TransactionKeeps ==
  ASSUME StoreInv, UNCHANGED discoveryVars, TreeInv', OpTypeOK', ThreadsApart', NeverFails',
         PathsThere', HalfStoredOnlyInFlight'
  PROVE  StoreInv'
<1>1. TypeOK'
  BY DEF StoreInv, TypeOK, DiscoveryTypeOK, TreeInv, TreeTypeOK, OpTypeOK, discoveryVars
<1>2. KindsComplete'
  BY DEF StoreInv, KindsComplete, KindIsFound, Matching, discoveryVars
<1> QED BY <1>1, <1>2 DEF StoreInv, TreeInv

\* Two threads work on different paths.
LEMMA DifferentPaths ==
  ASSUME StoreInv, NEW s \in Threads, NEW t \in Threads, s # t, op[t].step # "idle"
  PROVE  op[s].path # op[t].path
<1>1. op[t].path # <<>>
  BY DEF StoreInv, ThreadsApart
<1>2. op["document"].path # op["events"].path \/ op["document"].path = <<>>
  BY InvParts
<1> QED BY <1>1, <1>2 DEF Threads

\* A first or second StoreItem keeps the invariant.
LEMMA StoreItemKeeps ==
  ASSUME StoreInv, UNCHANGED discoveryVars, NEW t \in Threads, StoreItem(t)
  PROVE  StoreInv'
<1> DEFINE p == op[t].path
           c == op[t].item
<1>1. p \in Paths /\ c \in Item /\ c.place = p /\ TreeInv /\ op[t].step \in Writing /\ op[t].step # "remove"
  BY InvParts DEF StoreItem, Writing
<1>2. /\ TreeInv'
      /\ DOMAIN tree' = DOMAIN tree \cup {p} /\ tree'[p] = c
      /\ \A q \in DOMAIN tree \ {p} : tree'[q] = tree[q]
  BY <1>1, StoredKeeps DEF StoreItem, Replaceable, Addable
<1>3. /\ OpTypeOK' /\ ThreadsApart' /\ NeverFails'
      /\ op'[t] = Idle
      /\ \A s \in Threads : s # t => op'[s] = op[s]
  BY OpMoves DEF StoreItem
<1>4. Idle.step = "idle"
  BY DEF Idle
<1>5. op[t].step # "idle" /\ c # Node /\ "events" \in Threads
  BY <1>1, ResourceStoreAssumption DEF Writing, Threads
<1>6. PathsThere'
  <2>1. ASSUME NEW s \in Threads, op'[s].step = "store again"
        PROVE  op'[s].path \in DOMAIN tree'
    <3>1. s # t /\ op'[s] = op[s]
      BY <1>3, <1>4, <2>1
    <3> QED BY <1>2, <2>1, <3>1 DEF StoreInv, PathsThere
  <2>2. ASSUME op'["events"].step = "remove"
        PROVE  op'["events"].path \in DOMAIN tree' /\ tree'[op'["events"].path] # Node
    <3>1. t # "events" /\ op'["events"] = op["events"]
      BY <1>3, <1>4, <1>5, <2>2
    <3>2. op["events"].path # p
      BY <1>5, <3>1, DifferentPaths
    <3> QED BY <1>2, <2>2, <3>1, <3>2 DEF StoreInv, PathsThere
  <2> QED BY <2>1, <2>2 DEF PathsThere
<1>7. HalfStoredOnlyInFlight'
  <2>1. ASSUME NEW q \in Paths \cap DOMAIN tree', tree'[q] = Node
        PROVE  \E s \in Threads : op'[s].step = "store again" /\ op'[s].path = q
    <3>1. q # p /\ q \in DOMAIN tree /\ tree[q] = Node
      BY <1>2, <1>5, <2>1
    <3>2. PICK s \in Threads : op[s].step = "store again" /\ op[s].path = q
      BY <2>1, <3>1 DEF StoreInv, HalfStoredOnlyInFlight
    <3>3. s # t
      BY <3>1, <3>2
    <3> QED BY <1>3, <3>2, <3>3
  <2> QED BY <2>1 DEF HalfStoredOnlyInFlight
<1> QED BY <1>2, <1>3, <1>6, <1>7, TransactionKeeps

\* The first NotFound is answered with StorePath, and there is no second one.
LEMMA StoreItemFailsKeeps ==
  ASSUME StoreInv, UNCHANGED discoveryVars, NEW t \in Threads, StoreItemFails(t)
  PROVE  StoreInv'
<1>1. op[t].step \in {"store", "store or not"} /\ op[t].step \in Writing
  BY DEF StoreItemFails, Replaceable, StoreInv, PathsThere, Writing
<1>2. PICK o : /\ op' = [op EXCEPT ![t] = o]
               /\ o = Idle \/ o = [op[t] EXCEPT !.step = "make path"]
  BY <1>1 DEF StoreItemFails
<1>3. /\ OpTypeOK' /\ ThreadsApart' /\ NeverFails'
      /\ op'[t] = o
      /\ \A s \in Threads : s # t => op'[s] = op[s]
  BY <1>1, <1>2, OpMoves
<1>4. o.step \in {"idle", "make path"}
  <2>1. op[t] \in [step : Steps, path : Paths \cup {<<>>}, item : Item \cup {Node}]
    BY InvParts DEF OpTypeOK
  <2>2. \A r \in [step : Steps, path : Paths \cup {<<>>}, item : Item \cup {Node}] :
          [r EXCEPT !.step = "make path"].step = "make path"
    OBVIOUS
  <2>3. Idle.step = "idle"
    BY DEF Idle
  <2> QED BY <1>2, <2>1, <2>2, <2>3
<1>5. UNCHANGED tree
  BY DEF StoreItemFails
<1>6. TreeInv'
  BY <1>5, InvParts DEF TreeInv, TreeTypeOK, TreeOfPaths, NothingElsewhere
<1>7. PathsThere'
  <2>1. ASSUME NEW s \in Threads, op'[s].step \in {"store again", "remove"}
        PROVE  op'[s] = op[s]
    BY <1>3, <1>4, <2>1
  <2> QED BY <1>5, <2>1 DEF StoreInv, PathsThere, Threads
<1>8. HalfStoredOnlyInFlight'
  <2>1. ASSUME NEW q \in Paths \cap DOMAIN tree, tree[q] = Node
        PROVE  \E s \in Threads : op'[s].step = "store again" /\ op'[s].path = q
    <3>1. PICK s \in Threads : op[s].step = "store again" /\ op[s].path = q
      BY <2>1 DEF StoreInv, HalfStoredOnlyInFlight
    <3>2. s # t
      BY <1>1, <3>1
    <3> QED BY <1>3, <3>1, <3>2
  <2> QED BY <1>5, <2>1 DEF HalfStoredOnlyInFlight
<1> QED BY <1>3, <1>6, <1>7, <1>8, TransactionKeeps

\* StorePath, between the two.
LEMMA StorePathKeeps ==
  ASSUME StoreInv, UNCHANGED discoveryVars, NEW t \in Threads, StorePath(t)
  PROVE  StoreInv'
<1> DEFINE p == op[t].path
<1>1. op[t].step = "make path" /\ op[t].step \in Writing /\ p \in Paths /\ TreeInv
  BY InvParts DEF StorePath, Writing
<1>2. /\ TreeInv'
      /\ DOMAIN tree \subseteq DOMAIN tree' /\ p \in DOMAIN tree'
      /\ \A q \in DOMAIN tree : tree'[q] = tree[q]
      /\ \A q \in DOMAIN tree' \ DOMAIN tree : tree'[q] = Node /\ (q \in Paths => q = p)
  BY <1>1, MadeKeeps DEF StorePath
<1>3. op' = [op EXCEPT ![t] = [op[t] EXCEPT !.step = "store again"]]
  BY InvParts DEF StorePath, Goto, OpTypeOK
<1>4. /\ OpTypeOK' /\ ThreadsApart' /\ NeverFails'
      /\ op'[t] = [op[t] EXCEPT !.step = "store again"]
      /\ \A s \in Threads : s # t => op'[s] = op[s]
  BY <1>1, <1>3, OpMoves
<1>5. op'[t].step = "store again" /\ op'[t].path = p
  <2>1. op[t] \in [step : Steps, path : Paths \cup {<<>>}, item : Item \cup {Node}]
    BY InvParts DEF OpTypeOK
  <2> QED BY <1>4, <2>1
<1>6. PathsThere'
  <2>1. ASSUME NEW s \in Threads, op'[s].step = "store again"
        PROVE  op'[s].path \in DOMAIN tree'
    <3>1. CASE s = t
      BY <1>2, <1>5, <3>1
    <3>2. CASE s # t
      BY <1>2, <1>4, <2>1, <3>2 DEF StoreInv, PathsThere
    <3> QED BY <3>1, <3>2
  <2>2. ASSUME op'["events"].step = "remove"
        PROVE  op'["events"].path \in DOMAIN tree' /\ tree'[op'["events"].path] # Node
    <3>1. "events" \in Threads /\ t # "events"
      BY <1>5, <2>2 DEF Threads
    <3> QED BY <1>2, <1>4, <2>2, <3>1 DEF StoreInv, PathsThere
  <2> QED BY <2>1, <2>2 DEF PathsThere
<1>7. HalfStoredOnlyInFlight'
  <2>1. ASSUME NEW q \in Paths \cap DOMAIN tree', tree'[q] = Node
        PROVE  \E s \in Threads : op'[s].step = "store again" /\ op'[s].path = q
    <3>1. CASE q = p
      BY <1>5, <3>1
    <3>2. CASE q # p
      <4>1. q \in DOMAIN tree /\ tree[q] = Node
        BY <1>2, <2>1, <3>2
      <4>2. PICK s \in Threads : op[s].step = "store again" /\ op[s].path = q
        BY <2>1, <4>1 DEF StoreInv, HalfStoredOnlyInFlight
      <4>3. s # t
        BY <3>2, <4>2
      <4> QED BY <1>4, <4>2, <4>3
    <3> QED BY <3>1, <3>2
  <2> QED BY <2>1 DEF HalfStoredOnlyInFlight
<1> QED BY <1>2, <1>4, <1>6, <1>7, TransactionKeeps

\* What is removed is there, since only the handlers remove and they wait.
LEMMA RemovePathKeeps ==
  ASSUME StoreInv, UNCHANGED discoveryVars, NEW t \in Threads, RemovePath(t)
  PROVE  StoreInv'
<1> DEFINE p == op[t].path
<1>1. op[t].step = "remove" /\ t = "events" /\ p \in Paths /\ TreeInv
  BY InvParts DEF RemovePath, StoreInv, ThreadsApart, Threads
<1>2. p \in DOMAIN tree
  BY <1>1 DEF StoreInv, PathsThere
<1>3. /\ TreeInv'
      /\ DOMAIN tree' = DOMAIN tree \ {p}
      /\ \A q \in DOMAIN tree \ {p} : tree'[q] = tree[q]
  BY <1>1, RemovedKeeps DEF RemovePath
<1>4. op' = [op EXCEPT ![t] = Idle]
  BY <1>2 DEF RemovePath, Replaceable
<1>5. /\ OpTypeOK' /\ ThreadsApart' /\ NeverFails'
      /\ op'[t] = Idle
      /\ \A s \in Threads : s # t => op'[s] = op[s]
  BY <1>4, OpMoves
<1>6. Idle.step = "idle"
  BY DEF Idle
<1>7. PathsThere'
  <2>1. ASSUME NEW s \in Threads, op'[s].step = "store again"
        PROVE  op'[s].path \in DOMAIN tree'
    <3>1. s # t /\ op'[s] = op[s]
      BY <1>5, <1>6, <2>1
    <3>2. op[s].path # p
      BY <1>1, <3>1, DifferentPaths
    <3> QED BY <1>3, <2>1, <3>1, <3>2 DEF StoreInv, PathsThere
  <2>2. op'["events"].step # "remove"
    BY <1>1, <1>5, <1>6
  <2> QED BY <2>1, <2>2 DEF PathsThere
<1>8. HalfStoredOnlyInFlight'
  <2>1. ASSUME NEW q \in Paths \cap DOMAIN tree', tree'[q] = Node
        PROVE  \E s \in Threads : op'[s].step = "store again" /\ op'[s].path = q
    <3>1. q \in DOMAIN tree /\ tree[q] = Node
      BY <1>3, <2>1
    <3>2. PICK s \in Threads : op[s].step = "store again" /\ op[s].path = q
      BY <2>1, <3>1 DEF StoreInv, HalfStoredOnlyInFlight
    <3>3. s # t
      BY <1>1, <3>2
    <3> QED BY <1>5, <3>2, <3>3
  <2> QED BY <2>1 DEF HalfStoredOnlyInFlight
<1> QED BY <1>3, <1>5, <1>7, <1>8, TransactionKeeps

------------------------------------------------------------------------------
(***************************************************************************)
(* The steps of discovery, and the first state.                            *)
(***************************************************************************)
\* The caches and the informers leave the store alone, and an informer is only
\* started for a kind that was found.
LEMMA DiscoveryKeeps ==
  ASSUME StoreInv, DefinitionsChange \/ InformOnKind \/ InformOnName, UNCHANGED storeVars
  PROVE  StoreInv'
<1>1. UNCHANGED <<cache, tree, op>>
  BY DEF DefinitionsChange, InformOnKind, InformOnName, Inform, storeVars
<1>2. /\ served' \subseteq DOMAIN Resources
      /\ \A kind \in informed' \ informed : kind \in Kinds /\ KindIsFound(kind)
  <2>1. DiscoveryTypeOK
    BY InvParts
  <2>2. CASE DefinitionsChange
    BY <2>1, <2>2 DEF DefinitionsChange, DiscoveryTypeOK, Defined
  <2>3. CASE InformOnKind
    BY <2>1, <2>3 DEF InformOnKind, Inform, DiscoveryTypeOK
  <2>4. CASE InformOnName
    <3>1. PICK i \in cache : Inform(Resources[i].kind)
      BY <2>4 DEF InformOnName, ResourcesForName
    <3> QED BY <2>1, <3>1 DEF Inform, DiscoveryTypeOK, Kinds, KindIsFound, Matching
  <2> QED BY <2>2, <2>3, <2>4
<1>3. DiscoveryTypeOK'
  BY <1>1, <1>2, InvParts DEF DiscoveryTypeOK
<1>4. KindsComplete'
  BY <1>1, <1>2 DEF StoreInv, KindsComplete, KindIsFound, Matching
<1>5. TypeOK'
  BY <1>1, <1>3 DEF StoreInv, TypeOK
<1>6. /\ TreeOfPaths' /\ ThreadsApart' /\ PathsThere' /\ NeverFails'
      /\ HalfStoredOnlyInFlight' /\ NothingElsewhere'
  BY <1>1 DEF StoreInv, TreeOfPaths, ThreadsApart, PathsThere, NeverFails,
     HalfStoredOnlyInFlight, NothingElsewhere
<1> QED BY <1>4, <1>5, <1>6 DEF StoreInv

\* The store is empty and both threads are idle.
LEMMA InitHolds == Init => StoreInv
<1> SUFFICES ASSUME Init PROVE StoreInv
  OBVIOUS
<1>1. DOMAIN tree = {<<>>} /\ tree[<<>>] = Node
  BY DEF Init
<1>2. \A t \in Threads : op[t].step = "idle" /\ op[t].path = <<>> /\ op[t].item = Node
  BY DEF Init, Idle
<1>3. "document" \in Threads /\ "events" \in Threads
  BY DEF Threads
<1>4. DiscoveryTypeOK /\ KindsComplete
  <2>1. PICK defined \in SUBSET Custom : served = DOMAIN Resources \ Defined(defined)
    BY DEF Init, DiscoveryInit
  <2>2. cache = served /\ informed = {}
    BY DEF Init, DiscoveryInit
  <2> QED BY <2>1, <2>2 DEF DiscoveryTypeOK, KindsComplete, Defined
<1>5. OpTypeOK
  <2>1. Idle \in [step : Steps, path : Paths \cup {<<>>}, item : Item \cup {Node}]
    BY DEF Idle, Steps
  <2> QED BY <2>1 DEF Init, OpTypeOK
<1>6. TypeOK
  BY <1>1, <1>4, <1>5 DEF TypeOK, OpTypeOK
<1>7. TreeOfPaths
  <2>1. Applied \in Paths /\ Applied \in Seq(Names)
    BY PathsAreSequences
  <2>2. <<>> \in Prefixes(Applied)
    BY <2>1, PrefixesOfPath
  <2> QED BY <1>1, <2>1, <2>2 DEF TreeOfPaths
<1>8. ThreadsApart
  BY <1>2, <1>3 DEF ThreadsApart, Writing
<1>9. PathsThere /\ NeverFails
  BY <1>2, <1>3 DEF PathsThere, NeverFails
<1>10. HalfStoredOnlyInFlight /\ NothingElsewhere
  BY <1>1, PathsAreSequences DEF HalfStoredOnlyInFlight, NothingElsewhere
<1> QED BY <1>4, <1>6, <1>7, <1>8, <1>9, <1>10 DEF StoreInv

\* The invariant is inductive: one step per transaction.
LEMMA StepKeeps == StoreInv /\ [Next]_vars => StoreInv'
<1> SUFFICES ASSUME StoreInv, [Next]_vars PROVE StoreInv'
  OBVIOUS
<1>1. CASE (DefinitionsChange \/ InformOnKind \/ InformOnName) /\ UNCHANGED storeVars
  BY <1>1, DiscoveryKeeps
<1>2. CASE StoreOwn \/ StoreParam \/ StoreRunID
  BY <1>2, DocumentBegins
<1>3. CASE StoreResource \/ RemoveResource
  BY <1>3, HandlerBegins
<1>4. CASE \E t \in Threads : Transaction(t)
  <2>1. PICK t \in Threads : Transaction(t)
    BY <1>4
  <2>2. UNCHANGED discoveryVars
    BY <2>1 DEF Transaction
  <2>3. StoreItem(t) \/ StoreItemFails(t) \/ StorePath(t) \/ RemovePath(t)
    BY <2>1 DEF Transaction
  <2> QED BY <2>2, <2>3, StoreItemKeeps, StoreItemFailsKeeps, StorePathKeeps, RemovePathKeeps
<1>5. CASE UNCHANGED vars
  <2>1. UNCHANGED discoveryVars /\ UNCHANGED <<tree, op>>
    BY <1>5 DEF vars, storeVars
  <2>2. TreeInv' /\ OpTypeOK'
    BY <2>1, InvParts DEF TreeInv, TreeTypeOK, TreeOfPaths, NothingElsewhere, OpTypeOK
  <2>3. ThreadsApart' /\ NeverFails' /\ PathsThere' /\ HalfStoredOnlyInFlight'
    BY <2>1 DEF StoreInv, ThreadsApart, NeverFails, PathsThere, HalfStoredOnlyInFlight
  <2> QED BY <2>1, <2>2, <2>3, TransactionKeeps
<1> QED BY <1>1, <1>2, <1>3, <1>4, <1>5 DEF Next

------------------------------------------------------------------------------
(***************************************************************************)
(* The theorems.                                                           *)
(***************************************************************************)
\* Every reachable state has the invariant.
THEOREM StoreInvariant == Spec => []StoreInv
BY InitHolds, StepKeeps, PTL DEF Spec

\* The store stays a tree, with inner nodes above whatever is in it, through
\* every StoreItem, StorePath and RemovePath of the driver.
THEOREM TypeCorrect == Spec => []TypeOK
<1>1. StoreInv => TypeOK
  BY DEF StoreInv
<1> QED BY <1>1, StoreInvariant, PTL

\* No second StoreItem of storeItem, no RemovePath of removeResource and no
\* lookup of a handler's resource ever fails, whatever the other thread does
\* between two transactions.
THEOREM NothingFails == Spec => []NeverFails
<1>1. StoreInv => NeverFails
  BY DEF StoreInv
<1> QED BY <1>1, StoreInvariant, PTL

\* The empty object of StorePath is seen under an item's path only while the
\* storeItem that put it there has yet to fill it.
THEOREM HalfStoredOnlyBriefly == Spec => []HalfStoredOnlyInFlight
<1>1. StoreInv => HalfStoredOnlyInFlight
  BY DEF StoreInv
<1> QED BY <1>1, StoreInvariant, PTL

\* Every item lies at the path the documentation gives it: an object under its
\* namespace and the resource of its kind, although the handlers look that up by
\* kind alone, and what the program stores of its own under its own path.
THEOREM StoredWhereDocumented == Spec => []NothingElsewhere
<1>1. StoreInv => NothingElsewhere
  BY DEF StoreInv
<1> QED BY <1>1, StoreInvariant, PTL

------------------------------------------------------------------------------
(***************************************************************************)
(* What the transactions come to.                                          *)
(***************************************************************************)
Items == [p \in {q \in Paths \cap DOMAIN tree : tree[q] # Node} |-> tree[p]]

\* What is put into the tree is the item, the only one that changes.
LEMMA StoreItemStores ==
  ASSUME StoreInv, NEW t \in Threads, StoreItem(t)
  PROVE  \E p \in Paths, c \in Item :
           Items' = [q \in DOMAIN Items \cup {p} |-> IF q = p THEN c ELSE Items[q]]
<1> DEFINE p == op[t].path
           c == op[t].item
<1>1. p \in Paths /\ c \in Item /\ c.place = p /\ TreeInv
  BY InvParts DEF StoreItem, Writing
<1>2. /\ DOMAIN tree' = DOMAIN tree \cup {p} /\ tree'[p] = c
      /\ \A q \in DOMAIN tree \ {p} : tree'[q] = tree[q]
  BY <1>1, StoredKeeps DEF StoreItem, Replaceable, Addable
<1>3. c # Node
  BY <1>1, ResourceStoreAssumption
<1> HIDE DEF p, c
<1>4. DOMAIN Items' = DOMAIN Items \cup {p}
  BY <1>1, <1>2, <1>3 DEF Items
<1>5. \A q \in DOMAIN Items' : Items'[q] = IF q = p THEN c ELSE Items[q]
  BY <1>1, <1>2, <1>3 DEF Items
<1>6. Items' = [q \in DOMAIN Items \cup {p} |-> IF q = p THEN c ELSE Items[q]]
  BY <1>4, <1>5 DEF Items
<1> QED BY <1>1, <1>6

\* RemovePath takes one item away.
LEMMA RemovePathRemoves ==
  ASSUME StoreInv, NEW t \in Threads, RemovePath(t)
  PROVE  \E p \in Paths :
           p \in DOMAIN Items /\ Items' = [q \in DOMAIN Items \ {p} |-> Items[q]]
<1> DEFINE p == op[t].path
<1>1. op[t].step = "remove" /\ t = "events" /\ p \in Paths /\ TreeInv
  BY InvParts DEF RemovePath, StoreInv, ThreadsApart, Threads
<1>2. p \in DOMAIN Items
  BY <1>1 DEF StoreInv, PathsThere, Items
<1>3. /\ DOMAIN tree' = DOMAIN tree \ {p}
      /\ \A q \in DOMAIN tree \ {p} : tree'[q] = tree[q]
  BY <1>1, RemovedKeeps DEF RemovePath
<1> HIDE DEF p
<1>4. DOMAIN Items' = DOMAIN Items \ {p}
  BY <1>3 DEF Items
<1>5. \A q \in DOMAIN Items' : Items'[q] = Items[q]
  BY <1>3 DEF Items
<1>6. Items' = [q \in DOMAIN Items \ {p} |-> Items[q]]
  BY <1>4, <1>5 DEF Items
<1> QED BY <1>1, <1>2, <1>6

\* StorePath and everything that writes nothing leave the items as they are.
LEMMA OthersStutter ==
  ASSUME StoreInv, UNCHANGED tree \/ \E t \in Threads : StorePath(t)
  PROVE  UNCHANGED Items
<1>1. CASE UNCHANGED tree
  BY <1>1 DEF Items
<1>2. CASE \E t \in Threads : StorePath(t)
  <2>1. PICK t \in Threads : StorePath(t)
    BY <1>2
  <2> DEFINE p == op[t].path
  <2>2. p \in Paths /\ TreeInv
    BY <2>1, InvParts DEF StorePath, Writing
  <2>3. /\ DOMAIN tree \subseteq DOMAIN tree'
        /\ \A q \in DOMAIN tree : tree'[q] = tree[q]
        /\ \A q \in DOMAIN tree' \ DOMAIN tree : tree'[q] = Node
    BY <2>1, <2>2, MadeKeeps DEF StorePath
  <2>4. DOMAIN Items' = DOMAIN Items
    BY <2>3 DEF Items
  <2>5. \A q \in DOMAIN Items : Items'[q] = Items[q]
    BY <2>3, <2>4 DEF Items
  <2> QED BY <2>4, <2>5 DEF Items
<1> QED BY <1>1, <1>2

\* Every step of the two threads stores an item, removes one or leaves all items
\* alone.
LEMMA StepSimulates == StoreInv /\ [Next]_vars => [Store!Next]_Items
<1> SUFFICES ASSUME StoreInv, [Next]_vars PROVE Store!Next \/ UNCHANGED Items
  OBVIOUS
<1>1. CASE \E t \in Threads : StoreItem(t)
  BY <1>1, StoreItemStores DEF Store!Next, Store!Store, Items
<1>2. CASE \E t \in Threads : RemovePath(t)
  BY <1>2, RemovePathRemoves DEF Store!Next, Store!Remove, Items
<1>3. CASE UNCHANGED tree \/ \E t \in Threads : StorePath(t)
  BY <1>3, OthersStutter
<1>4. \/ \E t \in Threads : StoreItem(t) \/ RemovePath(t) \/ StorePath(t)
      \/ UNCHANGED tree
  BY DEF Next, vars, storeVars, StoreOwn, StoreParam, StoreRunID, StoreResource, RemoveResource,
     Handler, Begin, Transaction, StoreItemFails
<1> QED BY <1>1, <1>2, <1>3, <1>4

\* The driver's transactions, two of which may come between two of storeItem,
\* implement a store in which each item is stored or removed in one step.
THEOREM Implements == Spec => ImplementsItemStore
<1>1. Init => Store!Init
  <2> SUFFICES ASSUME Init PROVE Store!Init
    OBVIOUS
  <2>1. {q \in Paths \cap DOMAIN tree : tree[q] # Node} = {}
    BY PathsAreSequences DEF Init
  <2> QED BY <2>1 DEF Store!Init
<1>2. StoreInv /\ [Next]_vars => [Store!Next]_Items
  BY StepSimulates
<1> QED BY <1>1, <1>2, StoreInvariant, PTL DEF Spec, ImplementsItemStore, Store!Spec, Items

==============================================================================
