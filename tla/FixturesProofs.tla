---------------------------- MODULE FixturesProofs ----------------------------
(***************************************************************************)
(* Theorems about Fixtures: any number of runs, of fixtures and of texts.  *)
(***************************************************************************)
EXTENDS Fixtures, DocumentsProofs

Keys == Kinds \X (Words \cup {""}) \X (Words \cup {""})

Parts == {"labels", "containers"}

\* The fragments that were read are no more than the lines that were.
PartsCounted ==
  /\ Len(parts) <= currentLine
  /\ reading = "open" /\ startLine # 0 => Len(parts) < currentLine

\* An object that the cluster holds under a key in a run, when those in `done'
\* have cleaned up.
Good(e, k, r, done) ==
  /\ e.object \in Object /\ ~e.object.alias /\ e.said \subseteq Parts
  /\ Key(e.object) = k
  /\ e.by \in (1 .. r) \cup {None}
  /\ e.object.marks.run \in ((1 .. r) \cup {None}) \ done
  /\ e.object.child.run \in ((1 .. r) \cup {None}) \ done
  /\ e.object.marks.run = r \/ e.object.child.run = r => e.by = r
  /\ "labels" \in e.said => e.object.child.managed
  /\ "containers" \in e.said => e.object.child.run = e.by
  /\ e.by = r /\ e.parent = None =>
       \/ k[1] = NamespaceKind /\ e.object.marks = Unmarked
       \/ e.object.marks.managed /\ e.object.marks.run = r

\* What a controller made has gone when what it was made of has, and is marked
\* the way that says, or it has been applied itself.
Made(c, k, r) ==
  LET p == c[k].parent
  IN  p # None =>
        /\ k[1] = ChildKind /\ p \in DOMAIN c /\ p[1] # ChildKind
        /\ \/ c[k].object.marks.managed /\ c[k].object.marks.run = c[k].by
           \/ c[k].object.marks = c[p].object.child /\ (c[k].by = r => c[p].by = r)

Held(c, r, done) == \A k \in DOMAIN c : Good(c[k], k, r, done) /\ Made(c, k, r)

\* What bears the ID of the run, or is to give it to others, goes with what was
\* adopted.
Tracked(c, a, r) ==
  \A k \in DOMAIN c :
    /\ c[k].object.marks.run = r => k \in a \/ c[k].parent \in a
    /\ c[k].object.child.run = r => k \in a

\* A matched object is one that bears the ID of the run.
Matched(o) ==
  /\ Key(o) \in DOMAIN cluster /\ cluster[Key(o)].object = o
  /\ o.marks.managed /\ o.marks.run = run

\* The object of a fragment is what hydration made of its text, or a match.
Hydrated ==
  pc \in {"match", "update"} =>
    /\ text \in Texts
    /\ text.apply = "fixture" => Match(fixtures, text.object)
    /\ obj \in [object : Object, operation : {"update", "delete"}]
    /\ \/ /\ obj.object = Hydrate(text, fixtures, run).object
          /\ pc = "update" => obj.object.name # ""
       \/ pc = "update" /\ Replaced(text, fixtures).name = "" /\ Matched(obj.object)

RunsInv ==
  /\ ReaderInv
  /\ PartsCounted
  /\ TypeOK
  /\ \A k \in DOMAIN fixtures : fixtures[k] \in Written
  /\ cleaned \subseteq 1 .. run /\ (pc # "over" => run \notin cleaned)
  /\ Held(cluster, run, cleaned)
  /\ pc # "over" => Tracked(cluster, adopted, run)
  /\ Hydrated

------------------------------------------------------------------------------
(***************************************************************************)
(* Objects and texts.                                                      *)
(***************************************************************************)
\* What the constants are.
LEMMA Constants ==
  /\ MaxRuns \in Nat \ {0} /\ Runs = 1 .. MaxRuns /\ None \notin Runs
  /\ NamespaceKind \in Kinds /\ ChildKind \in Kinds /\ NamespaceKind \in ClusterScoped
  /\ "default" \in Words /\ "" \notin Words /\ None \notin Keys
BY FixturesAssumption, HydrationAssumption DEF Keys

\* The fields of an object.
LEMMA ObjectFields ==
  ASSUME NEW o \in Object
  PROVE  /\ o.kind \in Kinds /\ o.name \in Words \cup {""} /\ o.ns \in Words \cup {""}
         /\ o.alias \in BOOLEAN /\ o.marks \in Marks /\ o.child \in Marks
         /\ o.marks.managed \in BOOLEAN /\ o.marks.run \in Runs \cup {None}
         /\ o.child.managed \in BOOLEAN /\ o.child.run \in Runs \cup {None}
         /\ o.template \subseteq Parts
BY DEF Object, Marks, Parts

\* A key is made of the kind, the name and the namespace, the default one for
\* none.
LEMMA KeyOfObject ==
  ASSUME NEW o \in Object
  PROVE  Key(o) \in Keys /\ Key(o)[1] = o.kind /\ Key(o)[2] = o.name
BY Constants, ObjectFields DEF Key, Keys, NamespaceOrDefault

\* Filling in the namespace keeps the key.
LEMMA KeyDefaulted ==
  ASSUME NEW o \in Object
  PROVE  LET p == [o EXCEPT !.ns = IF o.kind \in ClusterScoped THEN @ ELSE NamespaceOrDefault(o)]
         IN  /\ p \in Object /\ Key(p) = Key(o) /\ p.alias = o.alias /\ p.marks = o.marks
             /\ p.child = o.child /\ (o.ns # "" => p.ns = o.ns)
<1> DEFINE ns == IF o.kind \in ClusterScoped THEN o.ns ELSE NamespaceOrDefault(o)
           p == [o EXCEPT !.ns = ns]
<1>1. ns \in Words \cup {""}
  BY ObjectFields, Constants DEF NamespaceOrDefault
<1> HIDE DEF ns
<1>2. /\ p \in Object /\ p.ns = ns
      /\ p.kind = o.kind /\ p.name = o.name /\ p.alias = o.alias /\ p.marks = o.marks
      /\ p.child = o.child
  BY <1>1 DEF Object
<1> HIDE DEF p
<1>3. Key(p) = Key(o)
  BY <1>2, Constants DEF Key, NamespaceOrDefault, ns
<1>4. o.ns # "" => ns = o.ns
  BY DEF NamespaceOrDefault, ns
<1> QED BY <1>2, <1>3, <1>4 DEF p, ns

\* MetaInjectionFilter marks an object, and its template where that is one of
\* pods.
LEMMA Injected ==
  ASSUME NEW o \in Object, NEW r \in Runs
  PROVE  LET i == Inject(o, r)
         IN  /\ i \in Object
             /\ i.kind = o.kind /\ i.name = o.name /\ i.ns = o.ns /\ i.alias = o.alias
             /\ i.template = o.template
             /\ i.marks.managed /\ i.marks.run = r
             /\ i.child.managed <=> (o.child.managed \/ "labels" \in o.template)
             /\ i.child.run = IF "containers" \in o.template THEN r ELSE o.child.run
<1> DEFINE child == [managed |-> o.child.managed \/ "labels" \in o.template,
                     run |-> IF "containers" \in o.template THEN r ELSE o.child.run]
           marks == [managed |-> TRUE, run |-> r]
<1>1. Inject(o, r) = [o EXCEPT !.marks = marks, !.child = child]
  BY DEF Inject, Object
<1>2. child \in Marks /\ marks \in Marks
  BY ObjectFields DEF Marks
<1>3. /\ child.managed <=> (o.child.managed \/ "labels" \in o.template)
      /\ child.run = IF "containers" \in o.template THEN r ELSE o.child.run
      /\ marks.managed /\ marks.run = r
  OBVIOUS
<1> HIDE DEF child, marks
<1>4. /\ Inject(o, r) \in Object
      /\ Inject(o, r).marks = marks /\ Inject(o, r).child = child
      /\ Inject(o, r).kind = o.kind /\ Inject(o, r).name = o.name /\ Inject(o, r).ns = o.ns
      /\ Inject(o, r).alias = o.alias /\ Inject(o, r).template = o.template
  BY <1>1, <1>2 DEF Object
<1> QED BY <1>3, <1>4

\* A fixture under another name keeps everything else.
LEMMA RenamedFields ==
  ASSUME NEW o \in Object, NEW as \in [ns : Words \cup {None}, name : Words]
  PROVE  LET n == Renamed(o, as)
         IN  n \in Object /\ n.template = o.template /\ n.child = o.child
<1>1. SplitObjectName(as)[1] \in Words /\ SplitObjectName(as)[2] \in Words
  BY Constants DEF SplitObjectName
<1>2. PICK ns \in Words \cup {""} :
        Renamed(o, as) = [o EXCEPT !.name = SplitObjectName(as)[2], !.ns = ns]
  <2> DEFINE ns == CASE o.alias -> o.ns
                     [] ~o.alias /\ o.ns = "" -> SplitObjectName(as)[1]
                     [] OTHER -> SplitObjectName(as)[2]
  <2>1. ns \in Words \cup {""}
    BY <1>1, ObjectFields
  <2>2. Renamed(o, as) = [o EXCEPT !.name = SplitObjectName(as)[2], !.ns = ns]
    BY DEF Renamed, Rename, Object
  <2> HIDE DEF ns
  <2> QED BY <2>1, <2>2
<1> QED BY <1>1, <1>2 DEF Object

\* Aliases resolved, an object is another one with the same marks.
LEMMA ResolvedFields ==
  ASSUME NEW o \in Object
  PROVE  LET n == Resolved(o)
         IN  /\ n \in Object /\ ~n.alias /\ n.name = o.name
             /\ n.marks = o.marks /\ n.template = o.template /\ n.child = o.child
<1>1. Namespace(o) \in Words \cup {""}
  BY ObjectFields DEF Namespace
<1> QED BY <1>1 DEF Resolved, Object

\* The objects of files have templates that bear no ID.
LEMMA ReplacedObject ==
  ASSUME NEW t \in Texts, NEW set, \A k \in DOMAIN set : set[k] \in Written,
         t.apply = "fixture" => Match(set, t.object)
  PROVE  Replaced(t, set) \in Object /\ Replaced(t, set).child.run = None
<1>1. /\ t.object \in Object /\ t.object.child.run = None
      /\ t.as \in [ns : Words \cup {None}, name : Words] \cup {None}
  BY FixturesAssumption DEF Text
<1>2. CASE t.apply # "fixture"
  BY <1>1, <1>2 DEF Replaced
<1>3. CASE t.apply = "fixture"
  <2> DEFINE f == set[KeyFor(t.object)]
  <2>1. f \in Object /\ f.child.run = None
    BY <1>3, FixturesAssumption DEF Match
  <2>2. CASE t.as = None
    BY <1>3, <2>1, <2>2 DEF Replaced
  <2>3. CASE t.as # None
    <3>1. Replaced(t, set) = Renamed(f, t.as)
      BY <1>3, <2>3 DEF Replaced
    <3> HIDE DEF f
    <3> QED BY <1>1, <2>1, <2>3, <3>1, RenamedFields
  <2> QED BY <2>2, <2>3
<1> QED BY <1>2, <1>3

\* What hydration makes of a text, or of the fixture it names.
LEMMA HydratedFields ==
  ASSUME NEW t \in Texts, NEW set, \A k \in DOMAIN set : set[k] \in Written,
         t.apply = "fixture" => Match(set, t.object), NEW r \in Runs
  PROVE  LET h == Hydrate(t, set, r)
             o == Replaced(t, set)
         IN  /\ h.operation \in {"update", "delete"}
             /\ h.object \in Object /\ ~h.object.alias
             /\ h.object.name = o.name /\ h.object.template = o.template
             /\ h.object.marks.managed /\ h.object.marks.run = r
             /\ h.object.child.run \in {r, None}
             /\ "labels" \in o.template => h.object.child.managed
             /\ "containers" \in o.template => h.object.child.run = r
<1> DEFINE o == Replaced(t, set)
           h == Hydrate(t, set, r)
<1>1. o \in Object /\ o.child.run = None
  BY ReplacedObject
<1>2. h.operation \in {"update", "delete"} /\ h.object = Resolved(Inject(o, r))
  BY DEF Hydrate
<1> HIDE DEF o, h
<1>3. /\ h.object \in Object /\ ~h.object.alias
      /\ h.object.name = o.name /\ h.object.template = o.template
      /\ h.object.marks = Inject(o, r).marks /\ h.object.child = Inject(o, r).child
  BY <1>1, <1>2, Injected, ResolvedFields
<1> QED BY <1>1, <1>2, <1>3, Injected DEF o, h

------------------------------------------------------------------------------
(***************************************************************************)
(* What the cluster holds.                                                 *)
(***************************************************************************)
LEMMA WithoutFields ==
  ASSUME NEW c, NEW gone
  PROVE  /\ DOMAIN Without(c, gone) = DOMAIN c \ gone
         /\ \A j \in DOMAIN c \ gone : Without(c, gone)[j] = c[j]
BY DEF Without

\* The fields of an entry.
LEMMA EntryFields ==
  ASSUME NEW o, NEW by, NEW parent, NEW said
  PROVE  LET e == Entry(o, by, parent, said)
         IN  e.object = o /\ e.by = by /\ e.parent = parent /\ e.said = said
BY DEF Entry

\* Objects are held under their keys, none of which is None.
LEMMA HeldKeys ==
  ASSUME NEW c, NEW r, NEW done, Held(c, r, done)
  PROVE  DOMAIN c \subseteq Keys /\ None \notin DOMAIN c
BY KeyOfObject, Constants DEF Held, Good

\* Objects may go when what is made of them does.
LEMMA GoneKeeps ==
  ASSUME NEW c, NEW r, NEW done, NEW gone, Held(c, r, done),
         \A k \in DOMAIN c \ gone : c[k].parent \notin gone
  PROVE  Held(Without(c, gone), r, done)
<1> DEFINE d == Without(c, gone)
<1>1. DOMAIN d = DOMAIN c \ gone /\ \A j \in DOMAIN d : d[j] = c[j]
  BY WithoutFields
<1> HIDE DEF d
<1>2. ASSUME NEW k \in DOMAIN d
      PROVE  Good(d[k], k, r, done) /\ Made(d, k, r)
  <2>1. k \in DOMAIN c \ gone /\ d[k] = c[k]
    BY <1>1, <1>2
  <2>2. Good(c[k], k, r, done) /\ Made(c, k, r) /\ c[k].parent \notin gone
    BY <2>1 DEF Held
  <2>3. Made(d, k, r)
    BY <1>1, <2>1, <2>2 DEF Made
  <2> QED BY <2>1, <2>2, <2>3
<1> QED BY <1>2 DEF Held, d

\* Whatever goes when objects do, what was made of it goes too.
LEMMA CascadeClosed ==
  ASSUME NEW r, NEW done, Held(cluster, r, done), NEW keys, None \notin keys
  PROVE  /\ keys \subseteq Cascade(keys)
         /\ \A k \in DOMAIN cluster \ Cascade(keys) : cluster[k].parent \notin Cascade(keys)
<1> DEFINE names == {k[2] : k \in {j \in keys : j[1] = NamespaceKind}}
           held == keys \cup {j \in DOMAIN cluster : j[3] \in names}
<1>1. Cascade(keys) = held \cup ChildrenOf(held)
  BY DEF Cascade
<1>2. None \notin held /\ keys \subseteq held
  BY HeldKeys
<1> HIDE DEF held
<1>3. ASSUME NEW k \in DOMAIN cluster, k \notin held \cup ChildrenOf(held),
             cluster[k].parent \in held \cup ChildrenOf(held)
      PROVE  FALSE
  <2> DEFINE p == cluster[k].parent
  <2>1. p \notin held
    BY <1>3 DEF ChildrenOf
  <2>2. p \in DOMAIN cluster /\ cluster[p].parent \in held
    BY <1>3, <2>1 DEF ChildrenOf
  <2>3. p # None /\ cluster[p].parent # None
    BY <1>2, <2>2, HeldKeys
  <2>4. p[1] # ChildKind
    BY <2>3 DEF Held, Made
  <2>5. p[1] = ChildKind
    BY <2>2, <2>3 DEF Held, Made
  <2> QED BY <2>4, <2>5
<1> QED BY <1>1, <1>2, <1>3

\* So do the objects that are tracked, unless they stay adopted.
LEMMA GoneTracked ==
  ASSUME NEW c, NEW a, NEW r, NEW gone, Tracked(c, a, r),
         \A k \in DOMAIN c \ gone : c[k].parent \notin gone
  PROVE  Tracked(Without(c, gone), a \ gone, r)
<1> DEFINE d == Without(c, gone)
<1>1. DOMAIN d = DOMAIN c \ gone /\ \A j \in DOMAIN d : d[j] = c[j]
  BY WithoutFields
<1> HIDE DEF d
<1>2. Tracked(d, a \ gone, r)
  BY <1>1 DEF Tracked
<1> QED BY <1>2 DEF d

\* Objects that were not there are added.
LEMMA AddedKeeps ==
  ASSUME NEW c, NEW d, NEW r, NEW done, Held(c, r, done), DOMAIN c \subseteq DOMAIN d,
         \A j \in DOMAIN c : d[j] = c[j],
         \A j \in DOMAIN d \ DOMAIN c : Good(d[j], j, r, done) /\ Made(d, j, r)
  PROVE  Held(d, r, done)
<1>1. ASSUME NEW j \in DOMAIN c
      PROVE  Good(d[j], j, r, done) /\ Made(d, j, r)
  <2>1. Good(c[j], j, r, done) /\ Made(c, j, r) /\ d[j] = c[j]
    BY DEF Held
  <2>2. Made(d, j, r)
    BY <2>1 DEF Made
  <2> QED BY <2>1, <2>2
<1> QED BY <1>1 DEF Held

\* What a patch makes of an object.
LEMMA PatchedFields ==
  ASSUME NEW old \in Object, NEW o \in Object
  PROVE  LET n == Patched(old, o)
         IN  /\ n \in Object /\ Key(n) = Key(o)
             /\ n.alias = o.alias /\ n.marks = o.marks
             /\ n.child.managed <=> (o.child.managed \/ old.child.managed)
             /\ n.child.run = IF o.child.run = None THEN old.child.run ELSE o.child.run
<1> DEFINE child == [managed |-> o.child.managed \/ old.child.managed,
                     run |-> IF o.child.run = None THEN old.child.run ELSE o.child.run]
           template == o.template \cup old.template
           n == [o EXCEPT !.template = template, !.child = child]
<1>1. Patched(old, o) = n
  BY DEF Patched, Object
<1>2. child \in Marks /\ template \in SUBSET Parts
  BY ObjectFields DEF Marks
<1>3. /\ child.managed <=> (o.child.managed \/ old.child.managed)
      /\ child.run = IF o.child.run = None THEN old.child.run ELSE o.child.run
  OBVIOUS
<1> HIDE DEF child, template
<1>4. /\ n \in Object
      /\ n.kind = o.kind /\ n.name = o.name /\ n.ns = o.ns
      /\ n.alias = o.alias /\ n.marks = o.marks /\ n.child = child
  BY <1>2 DEF Object, Parts
<1> HIDE DEF n
<1>5. Key(n) = Key(o)
  BY <1>4 DEF Key, NamespaceOrDefault
<1> QED BY <1>1, <1>3, <1>4, <1>5

\* An object changes, and what was made of it goes unless it is marked the same.
LEMMA ChangedKeeps ==
  ASSUME NEW c, NEW r, NEW done, Held(c, r, done), NEW k \in DOMAIN c,
         NEW e, Good(e, k, r, done), e.parent = c[k].parent, e.by = r,
         e.object.marks.managed, e.object.marks.run = r, NEW old,
         IF e.object.child = c[k].object.child THEN old = {}
         ELSE old = {j \in DOMAIN c : c[j].parent \in {k}}
  PROVE  /\ \A j \in old : j \in DOMAIN c /\ j[1] = ChildKind /\ j # k
         /\ Held(Without(With(c, k, e), old), r, done)
<1>1. None \notin DOMAIN c
  BY HeldKeys
<1>2. \A j \in DOMAIN c : Good(c[j], j, r, done) /\ Made(c, j, r)
  BY DEF Held
<1>3. \A j \in old : j \in DOMAIN c /\ c[j].parent = k /\ j[1] = ChildKind /\ k[1] # ChildKind
  BY <1>1, <1>2 DEF Made
<1> DEFINE d == Without(With(c, k, e), old)
<1>4. /\ DOMAIN d = DOMAIN c \ old /\ k \in DOMAIN d /\ d[k] = e
      /\ \A j \in DOMAIN d \ {k} : d[j] = c[j]
  <2> DEFINE w == With(c, k, e)
  <2>1. DOMAIN w = DOMAIN c \cup {k} /\ w[k] = e
    BY DEF With
  <2>2. \A j \in DOMAIN c \ {k} : w[j] = c[j]
    BY DEF With
  <2> HIDE DEF w
  <2>3. DOMAIN d = DOMAIN w \ old /\ \A j \in DOMAIN w \ old : d[j] = w[j]
    BY WithoutFields DEF w
  <2>4. k \notin old
    BY <1>3
  <2> HIDE DEF d
  <2> QED BY <2>1, <2>2, <2>3, <2>4
<1> HIDE DEF d
<1>5. ASSUME NEW j \in DOMAIN d
      PROVE  Good(d[j], j, r, done) /\ Made(d, j, r)
  <2>1. CASE j = k
    <3> DEFINE p == c[k].parent
    <3>1. p # None => p \in DOMAIN c /\ p[1] # ChildKind /\ k[1] = ChildKind
      BY <1>2 DEF Made
    <3>2. p # None => p \in DOMAIN d
      BY <1>3, <1>4, <3>1
    <3> QED BY <1>4, <2>1, <3>1, <3>2 DEF Made
  <2>2. CASE j # k
    <3>1. j \in DOMAIN c /\ d[j] = c[j] /\ Good(c[j], j, r, done) /\ Made(c, j, r)
      BY <1>2, <1>4, <1>5, <2>2
    <3> DEFINE p == c[j].parent
    <3>2. CASE p = None
      BY <3>1, <3>2 DEF Made
    <3>3. CASE p # None /\ p # k
      <4>1. p \in DOMAIN c /\ p[1] # ChildKind
        BY <3>1, <3>3 DEF Made
      <4>2. p \in DOMAIN d /\ d[p] = c[p]
        BY <1>3, <1>4, <3>3, <4>1
      <4> QED BY <3>1, <4>1, <4>2 DEF Made
    <3>4. CASE p # None /\ p = k
      <4>1. e.object.child = c[k].object.child
        BY <1>4, <1>5, <3>1, <3>4
      <4> QED BY <1>4, <3>1, <3>4, <4>1 DEF Made
    <3> QED BY <3>1, <3>2, <3>3, <3>4
  <2> QED BY <2>1, <2>2
<1> QED BY <1>3, <1>5 DEF Held, d

------------------------------------------------------------------------------
(***************************************************************************)
(* The parts of the invariant.                                             *)
(***************************************************************************)
LEMMA EarlierRuns == \A r \in Runs : r \in Nat /\ r \in 1 .. r /\ 1 .. r \subseteq Runs
<1>1. MaxRuns \in Nat /\ Runs = 1 .. MaxRuns
  BY Constants
<1> QED BY <1>1

\* What the invariant says of the present run, fixtures and cluster.
LEMMA Now ==
  ASSUME RunsInv
  PROVE  /\ run \in Runs /\ run \in Nat /\ run \in 1 .. run /\ 1 .. run \subseteq Runs /\ None \notin cleaned
         /\ \A k \in DOMAIN fixtures : fixtures[k] \in Written
         /\ Held(cluster, run, cleaned) /\ adopted \subseteq DOMAIN cluster
<1>1. run \in Runs /\ adopted \subseteq DOMAIN cluster
  BY DEF RunsInv, TypeOK
<1>2. run \in Nat /\ run \in 1 .. run /\ 1 .. run \subseteq Runs
  BY <1>1, EarlierRuns
<1> QED BY <1>1, <1>2, Constants DEF RunsInv

\* What the cluster holds has its type.
LEMMA HeldTypes ==
  ASSUME NEW c, NEW r \in Runs, NEW done, Held(c, r, done)
  PROVE  \A k \in DOMAIN c :
           /\ c[k].object \in Object /\ ~c[k].object.alias
           /\ c[k].by \in Runs \cup {None}
           /\ c[k].said \subseteq {"labels", "containers"}
<1>1. \A k \in DOMAIN c : Good(c[k], k, r, done)
  BY DEF Held
<1>2. (1 .. r) \cup {None} \subseteq Runs \cup {None}
  BY EarlierRuns
<1> QED BY <1>1, <1>2 DEF Good, Parts

\* A step that leaves the reader alone.
LEMMA ReaderStutters ==
  ASSUME ReaderInv, PartsCounted, UNCHANGED readerVars
  PROVE  ReaderInv' /\ PartsCounted'
<1>1. /\ lines' = lines /\ currentLine' = currentLine /\ startLine' = startLine
      /\ buf' = buf /\ parts' = parts /\ reading' = reading
  BY DEF readerVars
<1>2. ReaderTypeOK' /\ BufferBound' /\ PartsCounted'
  BY <1>1 DEF ReaderInv, ReaderTypeOK, BufferBound, UnbrokenRun, PartsCounted
<1>3. PartsBehind' /\ LinesKept'
  BY <1>1 DEF ReaderInv, PartsBehind, LinesKept, UnbrokenRun, Within
<1>4. LocationsBound'
  BY <1>1 DEF ReaderInv, LocationsBound
<1> QED BY <1>2, <1>3, <1>4 DEF ReaderInv

\* A step that is not one of hydrating or loading keeps all that it leaves alone.
LEMMA ClusterKeeps ==
  ASSUME RunsInv, UNCHANGED <<readerVars, decoded, fixtures>>,
         pc' \in {"load", "next", "match", "update", "clean up", "over"},
         run' \in Runs, text' \in Text \cup {None},
         obj' = None \/ (obj'.object \in Object /\ obj'.operation \in {"update", "delete"}),
         adopted' \subseteq DOMAIN cluster', cleaned' \subseteq 1 .. run',
         pc' # "over" => run' \notin cleaned',
         Held(cluster', run', cleaned'),
         pc' # "over" => Tracked(cluster', adopted', run'),
         Hydrated'
  PROVE  RunsInv'
<1>1. ReaderInv' /\ PartsCounted'
  BY ReaderStutters DEF RunsInv
<1>2. ReaderTypeOK'
  BY <1>1 DEF ReaderInv
<1>3. cleaned' \subseteq Runs
  BY EarlierRuns
<1>4. \A k \in DOMAIN cluster' :
        /\ cluster'[k].object \in Object /\ ~cluster'[k].object.alias
        /\ cluster'[k].by \in Runs \cup {None}
        /\ cluster'[k].said \subseteq {"labels", "containers"}
  BY HeldTypes
<1>5. TypeOK'
  BY <1>2, <1>3, <1>4 DEF RunsInv, TypeOK
<1> QED BY <1>1, <1>5 DEF RunsInv

------------------------------------------------------------------------------
(***************************************************************************)
(* Loading fixtures.                                                       *)
(***************************************************************************)
LEMMA ReaderStep ==
  ASSUME ReaderInv, PartsCounted, ReadNext
  PROVE  ReaderInv' /\ PartsCounted'
<1>1. ReaderInv'
  BY SeparatorStep, LineStep, EndStep, FailStep DEF ReadNext
<1>2. /\ currentLine \in Nat /\ Len(parts) \in Nat /\ startLine \in Nat
      /\ buf # <<>> => startLine # 0
  <2>1. lines \in Seq(LineKinds) /\ Len(lines) \in Nat
    BY DEF ReaderInv, ReaderTypeOK
  <2>2. currentLine \in Nat /\ startLine \in Nat
    BY <2>1 DEF ReaderInv, ReaderTypeOK
  <2>3. Len(parts) \in Nat
    BY DEF ReaderInv, ReaderTypeOK
  <2>4. buf # <<>> => startLine # 0
    BY DEF ReaderInv, BufferBound
  <2> QED BY <2>2, <2>3, <2>4
<1>3. Len(<<>>) = 0
  OBVIOUS
<1>4. \A last : Len(Flushed(last)) = IF buf = <<>> THEN Len(parts) ELSE Len(parts) + 1
  BY DEF Flushed, ReaderInv, ReaderTypeOK
<1>5. PartsCounted'
  <2>1. CASE ReadSeparator
    BY <1>2, <1>4, <2>1 DEF ReadSeparator, Scanning, PartsCounted
  <2>2. CASE ReadLine
    BY <1>2, <2>2 DEF ReadLine, Scanning, PartsCounted
  <2>3. CASE EndOfFile
    BY <1>2, <1>4, <2>3 DEF EndOfFile, PartsCounted
  <2>4. CASE ScanFails
    BY <1>2, <1>3, <2>4 DEF ScanFails, PartsCounted
  <2> QED BY <2>1, <2>2, <2>3, <2>4 DEF ReadNext
<1> QED BY <1>1, <1>5

\* Reading and inserting fixtures.
LEMMA LoadKeeps ==
  ASSUME RunsInv, Read \/ AddPart \/ ReadFails \/ Loaded
  PROVE  RunsInv'
<1>1. /\ UNCHANGED <<run, objectVars, cleaned>>
      /\ pc = "load" /\ pc' \in {"load", "next", "over"}
  BY Zenon DEF Read, AddPart, ReadFails, Loaded, Decode
<1>2. ReaderInv' /\ PartsCounted'
  <2>1. CASE Read
    BY <2>1, ReaderStep DEF Read, RunsInv
  <2>2. CASE UNCHANGED readerVars
    BY <2>2, ReaderStutters DEF RunsInv
  <2>3. CASE Loaded
    <3>1. /\ lines' = <<>> /\ parts' = <<>> /\ currentLine' = 0 /\ startLine' = 0
          /\ buf' = <<>> /\ reading' = "open"
      BY <2>3 DEF Loaded, OpenFile
    <3>2. Len(<<>>) = 0
      OBVIOUS
    <3>3. ReaderTypeOK'
      BY <3>1, <3>2, DocumentsAssumption DEF ReaderTypeOK
    <3>4. BufferBound' /\ PartsBehind' /\ LinesKept' /\ LocationsBound' /\ PartsCounted'
      BY <3>1, <3>2 DEF BufferBound, PartsBehind, LinesKept, LocationsBound, PartsCounted
    <3> QED BY <3>3, <3>4 DEF ReaderInv
  <2> QED BY <2>1, <2>2, <2>3 DEF AddPart, ReadFails
<1>3. decoded' \in 0 .. MaxLines
  <2>1. decoded \in 0 .. MaxLines /\ 0 \in 0 .. MaxLines
    <3>1. decoded \in 0 .. MaxLines
      BY DEF RunsInv, TypeOK
    <3> QED BY <3>1, DocumentsAssumption
  <2>2. Len(parts) \in Nat /\ Len(parts) <= MaxLines
    <3>1. /\ lines \in Seq(LineKinds) /\ Len(lines) <= MaxLines /\ currentLine \in 0 .. Len(lines)
          /\ parts \in Seq(Fragment)
      BY DEF RunsInv, ReaderInv, ReaderTypeOK
    <3>2. Len(lines) \in Nat /\ Len(parts) \in Nat /\ Len(parts) <= currentLine
      BY <3>1 DEF RunsInv, PartsCounted
    <3> QED BY <3>1, <3>2, DocumentsAssumption
  <2>3. CASE AddPart
    BY <2>1, <2>2, <2>3, DocumentsAssumption DEF AddPart
  <2> QED BY <2>1, <2>3 DEF Read, ReadFails, Loaded
<1>4. \A k \in DOMAIN fixtures' : fixtures'[k] \in Written /\ KeyFor(fixtures'[k]) = k
  <2>1. \A k \in DOMAIN fixtures : fixtures[k] \in Written /\ KeyFor(fixtures[k]) = k
    BY DEF RunsInv, TypeOK
  <2>2. ASSUME NEW o \in Written, fixtures' = Insert(fixtures, o)
        PROVE  \A k \in DOMAIN fixtures' : fixtures'[k] \in Written /\ KeyFor(fixtures'[k]) = k
    BY <2>1, <2>2 DEF Insert
  <2>3. (\E o \in Written : fixtures' = Insert(fixtures, o)) \/ UNCHANGED fixtures
    BY Zenon DEF Read, AddPart, ReadFails, Loaded, Decode
  <2> QED BY <2>1, <2>2, <2>3
<1>5. \A k \in DOMAIN fixtures' : fixtures'[k] \in Object
  BY <1>4, FixturesAssumption
<1>6. TypeOK'
  <2>1. ReaderTypeOK'
    BY <1>2 DEF ReaderInv
  <2> QED BY <1>1, <1>3, <1>4, <1>5, <2>1 DEF RunsInv, TypeOK, objectVars
<1>7. Held(cluster, run, cleaned)' /\ Tracked(cluster, adopted, run)' /\ run' \notin cleaned'
  BY <1>1 DEF RunsInv, Held, Good, Made, Tracked, objectVars
<1>8. Hydrated'
  BY <1>1 DEF Hydrated
<1> QED BY <1>1, <1>2, <1>4, <1>6, <1>7, <1>8 DEF RunsInv

------------------------------------------------------------------------------
(***************************************************************************)
(* Hydrating and matching.                                                 *)
(***************************************************************************)
\* What stays as it is of the cluster.
LEMMA ClusterStays ==
  ASSUME RunsInv, UNCHANGED <<run, cluster, adopted, cleaned>>
  PROVE  Held(cluster, run, cleaned)' /\ (pc # "over" => Tracked(cluster, adopted, run)')
BY DEF RunsInv, Held, Good, Made, Tracked

\* Hydration keeps the name of what it is given.
LEMMA HydratedName ==
  ASSUME RunsInv, text \in Texts, text.apply = "fixture" => Match(fixtures, text.object)
  PROVE  Hydrate(text, fixtures, run).object.name = Replaced(text, fixtures).name
<1>1. run \in Runs /\ \A j \in DOMAIN fixtures : fixtures[j] \in Written
  BY Now
<1> QED BY <1>1, HydratedFields

\* Hydration takes a text and makes its object, or ends the run.
LEMMA HydrateKeeps ==
  ASSUME RunsInv, HydrateObject
  PROVE  RunsInv'
<1>1. UNCHANGED <<readerVars, decoded, fixtures, run, cluster, adopted, cleaned>> /\ pc = "next"
  BY DEF HydrateObject
<1>2. Held(cluster, run, cleaned)' /\ Tracked(cluster, adopted, run)'
  BY <1>1, ClusterStays
<1>3. PICK t \in Texts :
        \/ pc' = "clean up" /\ UNCHANGED <<text, obj>>
        \/ ~HydrateFails(t, fixtures) /\ pc' = "match" /\ text' = t /\ obj' = Hydrate(t, fixtures, run)
  BY DEF HydrateObject
<1>4. CASE pc' = "clean up" /\ UNCHANGED <<text, obj>>
  <2>1. Hydrated'
    BY <1>4 DEF Hydrated
  <2> QED BY <1>1, <1>2, <1>4, <2>1, ClusterKeeps DEF RunsInv, TypeOK
<1>5. CASE ~HydrateFails(t, fixtures) /\ pc' = "match" /\ text' = t /\ obj' = Hydrate(t, fixtures, run)
  <2>1. t.apply = "fixture" => Match(fixtures, t.object)
    BY <1>5 DEF HydrateFails
  <2>2. obj'.object \in Object /\ obj'.operation \in {"update", "delete"}
    BY <1>5, <2>1, Now, HydratedFields
  <2>3. obj' \in [object : Object, operation : {"update", "delete"}]
    BY <1>5, <2>2 DEF Hydrate
  <2>4. Match(fixtures, t.object)' <=> Match(fixtures, t.object)
    BY <1>1 DEF Match
  <2>5. obj'.object = Hydrate(t, fixtures, run).object
    BY <1>5
  <2>6. Hydrated'
    BY <1>1, <1>5, <2>1, <2>3, <2>5 DEF Hydrated
  <2>7. text' \in Text
    BY <1>5, FixturesAssumption
  <2> QED BY <1>1, <1>2, <1>5, <2>2, <2>6, <2>7, ClusterKeeps DEF RunsInv, TypeOK
<1> QED BY <1>3, <1>4, <1>5

\* The object stays, or one that bears the ID of the run takes its place.
LEMMA MatchKeeps ==
  ASSUME RunsInv, MatchAnonymous \/ MatchNamed
  PROVE  RunsInv'
<1>1. UNCHANGED <<readerVars, decoded, fixtures, run, text, cluster, adopted, cleaned>> /\ pc = "match"
  BY DEF MatchAnonymous, MatchNamed, objectVars
<1>2. Held(cluster, run, cleaned)' /\ Tracked(cluster, adopted, run)'
  BY <1>1, ClusterStays
<1>3. /\ text \in Texts /\ (text.apply = "fixture" => Match(fixtures, text.object))
      /\ obj \in [object : Object, operation : {"update", "delete"}]
      /\ obj.object = Hydrate(text, fixtures, run).object
  BY <1>1 DEF RunsInv, Hydrated
<1>4. CASE pc' = "clean up" /\ UNCHANGED obj
  <2>1. Hydrated'
    BY <1>4 DEF Hydrated
  <2> QED BY <1>1, <1>2, <1>4, <2>1, ClusterKeeps DEF RunsInv, TypeOK
<1>5. CASE MatchNamed
  <2>1. pc' = "update" /\ obj' = obj /\ obj.object.name # ""
    BY <1>5 DEF MatchNamed, objectVars
  <2>2. Hydrated'
    BY <1>1, <1>3, <2>1 DEF Hydrated
  <2> QED BY <1>1, <1>2, <2>1, <2>2, ClusterKeeps DEF RunsInv, TypeOK
<1>6. CASE MatchAnonymous /\ pc' # "clean up"
  <2>1. PICK k \in DOMAIN cluster :
          /\ cluster[k].object.marks.managed /\ cluster[k].object.marks.run = run
          /\ obj' = [obj EXCEPT !.object = cluster[k].object]
          /\ pc' = "update" /\ obj.object.name = ""
    BY <1>6 DEF MatchAnonymous, HasRunID, RunIDFor, Candidates, SelectObjects, SelectObjectsByLabel
  <2>2. cluster[k].object \in Object /\ Key(cluster[k].object) = k
    BY Now DEF Held, Good
  <2>3. /\ obj' \in [object : Object, operation : {"update", "delete"}]
        /\ obj'.object = cluster[k].object
    BY <1>3, <2>1, <2>2
  <2>4. Replaced(text, fixtures).name = ""
    BY <1>3, <2>1, HydratedName
  <2>5. \A o : o = cluster[k].object => Matched(o)'
    BY <1>1, <2>1, <2>2 DEF Matched
  <2>6. Hydrated'
    <3>1. Matched(obj.object)'
      BY <1>1, <2>1, <2>2, <2>3 DEF Matched
    <3> QED BY <1>1, <1>3, <2>1, <2>3, <2>4, <3>1 DEF Hydrated
  <2>7. obj'.object \in Object /\ obj'.operation \in {"update", "delete"}
    BY <2>3
  <2> QED BY <1>1, <1>2, <2>1, <2>6, <2>7, ClusterKeeps DEF RunsInv, TypeOK
<1>7. MatchAnonymous /\ pc' = "clean up" => UNCHANGED obj
  BY DEF MatchAnonymous
<1> QED BY <1>4, <1>5, <1>6, <1>7

------------------------------------------------------------------------------
(***************************************************************************)
(* Controllers, deletions and the cleanup.                                 *)
(***************************************************************************)
LEMMA SpawnKeeps ==
  ASSUME RunsInv, Spawn
  PROVE  RunsInv'
<1> DEFINE Child(parent) ==
             [kind |-> ChildKind, name |-> parent.name, ns |-> parent.ns, alias |-> FALSE,
              marks |-> parent.child, template |-> {}, child |-> Unmarked]
<1>1. PICK k \in DOMAIN cluster :
        /\ Key(Child(cluster[k].object)) \notin DOMAIN cluster
        /\ cluster' = With(cluster, Key(Child(cluster[k].object)),
                           Entry(Child(cluster[k].object), cluster[k].by, k, {}))
  BY DEF Spawn
<1>2. pc # "load" /\ UNCHANGED <<readerVars, pc, decoded, fixtures, run, text, obj, adopted, cleaned>>
  BY DEF Spawn
<1> DEFINE parent == cluster[k].object
           child == Child(parent)
           j == Key(child)
           e == Entry(child, cluster[k].by, k, {})
<1>3. Held(cluster, run, cleaned) /\ Good(cluster[k], k, run, cleaned) /\ run \in Runs
  BY Now DEF Held
<1>4. parent \in Object /\ Key(parent) = k
  BY <1>3 DEF Good
<1>5. /\ child.kind = ChildKind /\ child.name = parent.name /\ child.ns = parent.ns
      /\ child.alias = FALSE /\ child.marks = parent.child /\ child.template = {}
      /\ child.child = Unmarked
  OBVIOUS
<1>6. Unmarked \in Marks /\ Unmarked.run = None
  BY DEF Unmarked, Marks
<1>7. child \in Object
  BY <1>4, <1>6, Constants, ObjectFields DEF Object
<1> HIDE DEF child
<1>8. k[1] # ChildKind
  BY <1>1, <1>4, <1>5, KeyOfObject DEF Key, NamespaceOrDefault, child
<1>9. j[1] = ChildKind
  BY <1>5, <1>7, KeyOfObject
<1>10. e.object = child /\ e.by = cluster[k].by /\ e.parent = k /\ e.said = {}
  BY EntryFields
<1> HIDE DEF e, j
<1>11. /\ DOMAIN cluster' = DOMAIN cluster \cup {j} /\ j \notin DOMAIN cluster
       /\ cluster'[j] = e /\ \A i \in DOMAIN cluster : cluster'[i] = cluster[i]
  BY <1>1 DEF With, e, j, child
<1>12. None # run /\ k # None
  BY <1>3, Constants, HeldKeys
<1>13. Good(e, j, run, cleaned)
  <2>1. /\ e.object \in Object /\ ~e.object.alias /\ e.said \subseteq Parts
        /\ Key(e.object) = j
    BY <1>5, <1>7, <1>10 DEF j
  <2>2. /\ e.by \in (1 .. run) \cup {None}
        /\ e.object.marks.run \in ((1 .. run) \cup {None}) \ cleaned
        /\ e.object.marks.run = run => e.by = run
    BY <1>3, <1>5, <1>10 DEF Good
  <2>3. e.object.child.run = None
    BY <1>5, <1>6, <1>10
  <2> QED BY <1>10, <1>12, <2>1, <2>2, <2>3, Now DEF Good
<1>14. Made(cluster', j, run)
  BY <1>5, <1>8, <1>9, <1>10, <1>11 DEF Made
<1>15. Held(cluster', run, cleaned)
  BY <1>3, <1>11, <1>13, <1>14, AddedKeeps
<1>16. pc # "over" => Tracked(cluster', adopted, run)
  BY <1>5, <1>6, <1>10, <1>11, <1>12 DEF RunsInv, Tracked
<1>17. Hydrated'
  BY <1>2, <1>11 DEF RunsInv, Hydrated, Matched
<1>18. Held(cluster', run', cleaned') /\ (pc' # "over" => Tracked(cluster', adopted', run'))
  BY <1>2, <1>15, <1>16
<1>19. adopted' \subseteq DOMAIN cluster'
  BY <1>2, <1>11, Now
<1> QED BY <1>2, <1>17, <1>18, <1>19, ClusterKeeps DEF RunsInv, TypeOK

\* A deletion takes what was made of the object along.
LEMMA DeleteKeeps ==
  ASSUME RunsInv, Delete
  PROVE  RunsInv'
<1> DEFINE keys == {Key(obj.object)}
           gone == Cascade(keys)
<1>1. /\ pc = "update" /\ cluster' = Without(cluster, gone) /\ adopted' = adopted \ gone
      /\ pc' \in {"clean up", "next"} /\ text' = None /\ obj' = None
      /\ UNCHANGED <<readerVars, decoded, fixtures, run, cleaned>>
  BY DEF Delete, Done
<1>2. None \notin keys
  <2>1. obj.object \in Object
    BY <1>1 DEF RunsInv, Hydrated
  <2> QED BY <2>1, KeyOfObject, Constants
<1>3. \A k \in DOMAIN cluster \ gone : cluster[k].parent \notin gone
  BY <1>2, Now, CascadeClosed
<1> HIDE DEF gone
<1>4. Held(cluster', run', cleaned') /\ Tracked(cluster', adopted', run')
  BY <1>1, <1>3, Now, GoneKeeps, GoneTracked DEF RunsInv
<1>5. adopted' \subseteq DOMAIN cluster'
  BY <1>1, Now, WithoutFields
<1>6. Hydrated'
  BY <1>1 DEF Hydrated
<1> QED BY <1>1, <1>4, <1>5, <1>6, ClusterKeeps DEF RunsInv, TypeOK

\* With what it adopted goes whatever bears the ID of the run.
LEMMA CleanUpKeeps ==
  ASSUME RunsInv, CleanUp
  PROVE  RunsInv'
<1>1. /\ pc \in {"next", "clean up"} /\ adopted' = {} /\ text' = None /\ obj' = None
      /\ UNCHANGED <<readerVars, decoded, fixtures>>
      /\ \/ run < MaxRuns /\ run' = run + 1 /\ pc' = "next"
         \/ run' = run /\ pc' = "over"
  BY DEF CleanUp
<1>2. run \in Nat /\ run \in Runs /\ run' \in Runs /\ 1 .. run \subseteq 1 .. run'
  <2>1. run \in 1 .. MaxRuns /\ MaxRuns \in Nat /\ Runs = 1 .. MaxRuns
    BY Now, Constants
  <2>2. CASE run' = run
    BY <2>1, <2>2
  <2>3. CASE run < MaxRuns /\ run' = run + 1
    <3>1. run + 1 \in 1 .. MaxRuns
      BY <2>1, <2>3
    <3>2. 1 .. run \subseteq 1 .. (run + 1)
      BY <2>1
    <3> QED BY <2>1, <2>3, <3>1, <3>2
  <2> QED BY <1>1, <2>2, <2>3
<1>3. PICK done : /\ cleaned' = done /\ done \subseteq 1 .. run
                  /\ Held(cluster', run, done)
  <2>1. CASE UNCHANGED <<cluster, cleaned>>
    BY <2>1, Now DEF RunsInv
  <2>2. CASE cluster' = Without(cluster, Cascade(adopted)) /\ cleaned' = cleaned \cup {run}
    <3> DEFINE gone == Cascade(adopted)
               d == Without(cluster, gone)
    <3>1. /\ adopted \subseteq gone
          /\ \A k \in DOMAIN cluster \ gone : cluster[k].parent \notin gone
      BY Now, HeldKeys, CascadeClosed
    <3>2. Held(d, run, cleaned)
      BY <3>1, Now, GoneKeeps
    <3>3. DOMAIN d = DOMAIN cluster \ gone /\ \A k \in DOMAIN d : d[k] = cluster[k]
      BY WithoutFields
    <3> HIDE DEF d, gone
    <3>4. \A k \in DOMAIN d : d[k].object.marks.run # run /\ d[k].object.child.run # run
      BY <1>1, <3>1, <3>3 DEF RunsInv, Tracked
    <3>5. Held(d, run, cleaned \cup {run})
      BY <3>2, <3>4 DEF Held, Good
    <3>6. cleaned \cup {run} \subseteq 1 .. run
      <4>1. run \in 1 .. run
        <5>1. run \in 1 .. MaxRuns /\ MaxRuns \in Nat
          BY <1>2, Constants
        <5> QED BY <5>1
      <4> QED BY <4>1 DEF RunsInv
    <3> QED BY <2>2, <3>5, <3>6 DEF d, gone
  <2> QED BY <2>1, <2>2 DEF CleanUp
<1>4. Held(cluster', run', done)
  <2>1. CASE run' = run
    BY <1>3, <2>1
  <2>2. CASE run' = run + 1
    <3>1. run' \notin 1 .. run /\ run' # None
      <4>1. run' \notin 1 .. run
        BY <1>2, <2>2
      <4> QED BY <1>2, <4>1, Constants
    <3>2. \A k \in DOMAIN cluster' : Good(cluster'[k], k, run, done) /\ Made(cluster', k, run)
      BY <1>3 DEF Held
    <3>3. ASSUME NEW k \in DOMAIN cluster'
          PROVE  Good(cluster'[k], k, run', done)
      <4>1. (1 .. run) \cup {None} \subseteq (1 .. run') \cup {None}
        BY <1>2
      <4>2. run' \notin (1 .. run) \cup {None}
        BY <3>1
      <4> QED BY <3>2, <4>1, <4>2 DEF Good
    <3>4. ASSUME NEW k \in DOMAIN cluster'
          PROVE  Made(cluster', k, run')
      <4>1. cluster'[k].by # run'
        BY <3>1, <3>2 DEF Good
      <4> QED BY <3>2, <4>1 DEF Made
    <3> QED BY <3>3, <3>4 DEF Held
  <2> QED BY <1>1, <2>1, <2>2
<1>5. pc' # "over" => run' \notin done /\ Tracked(cluster', adopted', run')
  <2> SUFFICES ASSUME pc' # "over" PROVE run' \notin done /\ Tracked(cluster', adopted', run')
    OBVIOUS
  <2>1. run' = run + 1 /\ run' \notin 1 .. run /\ run' # None
    <3>1. run' = run + 1
      BY <1>1
    <3>2. run' \notin 1 .. run
      BY <1>2, <3>1
    <3> QED BY <1>2, <3>1, <3>2, Constants
  <2>2. \A k \in DOMAIN cluster' :
          cluster'[k].object.marks.run # run' /\ cluster'[k].object.child.run # run'
    BY <1>3, <2>1 DEF Held, Good
  <2> QED BY <1>3, <2>1, <2>2 DEF Tracked
<1>6. Hydrated'
  BY <1>1 DEF Hydrated
<1>7. cleaned' \subseteq 1 .. run'
  BY <1>2, <1>3
<1> QED BY <1>1, <1>2, <1>3, <1>4, <1>5, <1>6, <1>7, ClusterKeeps DEF RunsInv, TypeOK

------------------------------------------------------------------------------
(***************************************************************************)
(* Applying.                                                               *)
(***************************************************************************)
\* The object of a fragment whenever it is applied.
LEMMA Applicable ==
  ASSUME RunsInv, pc = "update"
  PROVE  LET o == obj.object
         IN  /\ o \in Object /\ ~o.alias
             /\ o.marks.managed /\ o.marks.run = run
             /\ o.child.run \in ((1 .. run) \cup {None}) \ cleaned
             /\ Said \subseteq Parts
             /\ "labels" \in Said => o.child.managed
             /\ "containers" \in Said => o.child.run = run
             /\ \/ o.child.run \in {run, None}
                \/ /\ Said = {} /\ Key(o) \in DOMAIN cluster
                   /\ o.child = cluster[Key(o)].object.child
<1> DEFINE o == obj.object
           h == Hydrate(text, fixtures, run).object
           said == Replaced(text, fixtures)
<1>1. /\ text \in Texts /\ (text.apply = "fixture" => Match(fixtures, text.object))
      /\ obj \in [object : Object, operation : {"update", "delete"}]
      /\ \/ o = h /\ o.name # ""
         \/ said.name = "" /\ Matched(o)
  BY DEF RunsInv, Hydrated
<1>2. o \in Object
  BY <1>1
<1>3. /\ ~h.alias /\ h.name = said.name /\ h.template = said.template
      /\ h.marks.managed /\ h.marks.run = run /\ h.child.run \in {run, None}
      /\ "labels" \in said.template => h.child.managed
      /\ "containers" \in said.template => h.child.run = run
  <2>1. run \in Runs /\ \A k \in DOMAIN fixtures : fixtures[k] \in Written
    BY Now
  <2>2. text \in Texts /\ (text.apply = "fixture" => Match(fixtures, text.object))
    BY <1>1
  <2> QED BY <2>1, <2>2, HydratedFields
<1>4. Said = IF said.name = "" THEN {} ELSE said.template
  BY DEF Said
<1>5. run \in 1 .. run /\ run \notin cleaned /\ None \notin cleaned
  BY Now DEF RunsInv
<1> HIDE DEF o, h, said
<1>6. CASE o = h /\ o.name # ""
  <2>1. Said = o.template
    BY <1>3, <1>4, <1>6
  <2>2. o.template \subseteq Parts
    BY <1>2, ObjectFields
  <2>3. o.child.run \in ((1 .. run) \cup {None}) \ cleaned
    BY <1>3, <1>5, <1>6
  <2> QED BY <1>2, <1>3, <1>6, <2>1, <2>2, <2>3 DEF o
<1>7. CASE said.name = "" /\ Matched(o)
  <2>1. Said = {}
    BY <1>4, <1>7
  <2>2. Good(cluster[Key(o)], Key(o), run, cleaned) /\ cluster[Key(o)].object = o
    BY <1>7, Now DEF Matched, Held
  <2> QED BY <1>2, <1>7, <2>1, <2>2 DEF o, Good, Matched
<1> QED BY <1>1, <1>6, <1>7 DEF o, h, said

\* With the namespace that applyObject creates on the way, if any.
LEMMA Spaced ==
  ASSUME RunsInv, pc = "update", NEW spaced, NEW ns,
         obj.object.ns # "" => ns = obj.object.ns, ns \in Words \cup {""},
         spaced = [j \in DOMAIN cluster \cup Implicit(obj.object) |->
                     IF j \in DOMAIN cluster THEN cluster[j] ELSE Entry(NewNamespace(ns), run, None, {})]
  PROVE  /\ DOMAIN spaced = DOMAIN cluster \cup Implicit(obj.object)
         /\ \A j \in DOMAIN cluster : spaced[j] = cluster[j]
         /\ \A j \in DOMAIN spaced \ DOMAIN cluster :
              spaced[j].parent = None /\ spaced[j].object.child.run = None
         /\ Held(spaced, run, cleaned)
         /\ Tracked(spaced, adopted \cup Implicit(obj.object), run)
<1> DEFINE new == Entry(NewNamespace(ns), run, None, {})
           implicit == Implicit(obj.object)
<1>1. /\ DOMAIN spaced = DOMAIN cluster \cup implicit
      /\ \A j \in DOMAIN cluster : spaced[j] = cluster[j]
      /\ \A j \in DOMAIN spaced \ DOMAIN cluster : spaced[j] = new
  OBVIOUS
<1>2. \A j \in implicit : j = Key(NewNamespace(ns))
  BY DEF Implicit
<1>3. /\ Unmarked \in Marks /\ Unmarked.run = None /\ run \in 1 .. run /\ run # None
      /\ None \notin cleaned
  <2>1. Unmarked \in Marks /\ Unmarked.run = None
    BY DEF Unmarked, Marks
  <2> QED BY <2>1, Now, Constants
<1>4. /\ NewNamespace(ns) \in Object
      /\ NewNamespace(ns).kind = NamespaceKind /\ NewNamespace(ns).alias = FALSE
      /\ NewNamespace(ns).marks = Unmarked /\ NewNamespace(ns).child = Unmarked
  BY <1>3, Constants DEF NewNamespace, Object
<1>5. new.object = NewNamespace(ns) /\ new.by = run /\ new.parent = None /\ new.said = {}
  BY DEF Entry
<1> HIDE DEF new, implicit
<1>6. Good(new, Key(NewNamespace(ns)), run, cleaned)
  <2>1. Key(NewNamespace(ns))[1] = NamespaceKind
    BY <1>4, KeyOfObject
  <2> QED BY <1>3, <1>4, <1>5, <2>1 DEF Good
<1>7. Held(spaced, run, cleaned)
  <2>1. ASSUME NEW j \in DOMAIN spaced \ DOMAIN cluster
        PROVE  Good(spaced[j], j, run, cleaned) /\ Made(spaced, j, run)
    <3>1. spaced[j] = new /\ j = Key(NewNamespace(ns))
      BY <1>1, <1>2
    <3> QED BY <1>5, <1>6, <3>1 DEF Made
  <2>2. DOMAIN cluster \subseteq DOMAIN spaced
    BY <1>1
  <2> QED BY <1>1, <2>1, <2>2, Now, AddedKeeps
<1>8. Tracked(spaced, adopted \cup implicit, run)
  <2>1. Tracked(cluster, adopted, run)
    BY DEF RunsInv
  <2> QED BY <1>1, <1>3, <1>4, <1>5, <2>1 DEF Tracked
<1> QED BY <1>1, <1>3, <1>4, <1>5, <1>7, <1>8 DEF new, implicit

\* A create, a patch, and the namespace that applyObject makes on the way.
LEMMA ApplyKeeps ==
  ASSUME RunsInv, Apply
  PROVE  RunsInv'
<1> DEFINE first == obj.object
           o == [first EXCEPT !.ns = IF first.kind \in ClusterScoped THEN @ ELSE NamespaceOrDefault(first)]
           k == Key(o)
           implicit == Implicit(first)
           spaced == [j \in DOMAIN cluster \cup implicit |->
                        IF j \in DOMAIN cluster THEN cluster[j] ELSE Entry(NewNamespace(o.ns), run, None, {})]
<1>1. /\ pc = "update" /\ pc' = "next" /\ text' = None /\ obj' = None
      /\ UNCHANGED <<readerVars, decoded, fixtures, run, cleaned>>
  BY DEF Apply, Done
<1>2. first \in Object
  BY <1>1, Applicable
<1>3. /\ o \in Object /\ Key(o) = Key(first) /\ o.alias = first.alias /\ o.marks = first.marks
      /\ o.child = first.child /\ (first.ns # "" => o.ns = first.ns) /\ o.ns \in Words \cup {""}
  <2> HIDE DEF first
  <2>1. /\ o \in Object /\ Key(o) = Key(first) /\ o.alias = first.alias /\ o.marks = first.marks
        /\ o.child = first.child /\ (first.ns # "" => o.ns = first.ns)
    BY <1>2, KeyDefaulted
  <2> HIDE DEF o
  <2> QED BY <2>1, ObjectFields
<1>4. /\ ~o.alias /\ o.marks.managed /\ o.marks.run = run
      /\ o.child.run \in ((1 .. run) \cup {None}) \ cleaned
      /\ Said \subseteq Parts
      /\ "labels" \in Said => o.child.managed
      /\ "containers" \in Said => o.child.run = run
      /\ \/ o.child.run \in {run, None}
         \/ Said = {} /\ k \in DOMAIN cluster /\ o.child = cluster[k].object.child
  BY <1>1, <1>3, Applicable
<1>5. /\ DOMAIN spaced = DOMAIN cluster \cup implicit
      /\ \A j \in DOMAIN cluster : spaced[j] = cluster[j]
      /\ \A j \in DOMAIN spaced \ DOMAIN cluster :
           spaced[j].parent = None /\ spaced[j].object.child.run = None
      /\ Held(spaced, run, cleaned)
      /\ Tracked(spaced, adopted \cup implicit, run)
  BY <1>1, <1>3, Spaced
<1>6. /\ run # None /\ None \notin cleaned /\ run \in 1 .. run /\ run \notin cleaned
      /\ adopted \subseteq DOMAIN cluster
  BY <1>1, Now, Constants DEF RunsInv
<1>7. k \in Keys /\ k # None
  BY <1>3, KeyOfObject, Constants
<1>8. Hydrated'
  BY <1>1 DEF Hydrated
<1>9. CASE k \notin DOMAIN spaced
  <2> DEFINE e == Entry(o, run, None, Said)
             d == With(spaced, k, e)
  <2>1. cluster' = d /\ adopted' = adopted \cup (implicit \cup {k})
    BY <1>9 DEF Apply, Adopt
  <2>2. e.object = o /\ e.by = run /\ e.parent = None /\ e.said = Said
    BY EntryFields
  <2> HIDE DEF o, k, implicit, spaced, e
  <2>3. DOMAIN d = DOMAIN spaced \cup {k} /\ d[k] = e /\ \A j \in DOMAIN spaced : d[j] = spaced[j]
    BY <1>9 DEF With
  <2> HIDE DEF d
  <2>4. Good(e, k, run, cleaned)
    BY <1>3, <1>4, <1>6, <2>2 DEF Good, k
  <2>5. Held(d, run, cleaned)
    BY <1>5, <2>2, <2>3, <2>4, AddedKeeps DEF Made
  <2>6. Tracked(d, adopted \cup (implicit \cup {k}), run)
    BY <1>5, <2>3 DEF Tracked
  <2>7. adopted' \subseteq DOMAIN cluster'
    BY <1>5, <1>6, <2>1, <2>3
  <2>8. Held(cluster', run', cleaned') /\ Tracked(cluster', adopted', run')
    BY <1>1, <2>1, <2>5, <2>6
  <2> QED BY <1>1, <1>8, <2>7, <2>8, ClusterKeeps DEF RunsInv, TypeOK
<1>10. CASE k \in DOMAIN spaced
  <2> DEFINE was == spaced[k]
             new == Patched(was.object, o)
             said == Said \cup (IF was.by = run THEN was.said ELSE {})
             e == Entry(new, run, was.parent, said)
             old == IF new.child = was.object.child THEN {} ELSE ChildrenOf({k})
             w == With(spaced, k, e)
             d == Without(w, old)
  <2>1. cluster' = d /\ adopted' = (adopted \cup (implicit \cup {k})) \ old
    BY <1>10 DEF Apply, Adopt
  <2>2. e.object = new /\ e.by = run /\ e.parent = was.parent /\ e.said = said
    <3> HIDE DEF was, new, said
    <3> QED BY DEF Entry
  <2>3. Good(was, k, run, cleaned) /\ Made(spaced, k, run)
    BY <1>5, <1>10 DEF Held
  <2>4. /\ new \in Object /\ Key(new) = k /\ new.alias = o.alias /\ new.marks = o.marks
        /\ new.child.managed <=> (o.child.managed \/ was.object.child.managed)
        /\ new.child.run = IF o.child.run = None THEN was.object.child.run ELSE o.child.run
    <3>1. was.object \in Object /\ o \in Object
      BY <1>3, <2>3 DEF Good
    <3> HIDE DEF o, was, spaced
    <3> QED BY <3>1, PatchedFields DEF k
  <2>5. IF new.child = was.object.child THEN old = {}
        ELSE old = {j \in DOMAIN spaced : spaced[j].parent \in {k}}
    <3>1. ChildrenOf({k}) = {j \in DOMAIN spaced : spaced[j].parent \in {k}}
      BY <1>5, <1>7 DEF ChildrenOf
    <3> QED BY <3>1
  <2>6. \/ o.child.run \in {run, None}
        \/ Said = {} /\ o.child = was.object.child
    BY <1>4, <1>5
  <2> HIDE DEF o, k, implicit, spaced, was, new, e, old
  <2>7. /\ "labels" \in said => new.child.managed
        /\ "containers" \in said => new.child.run = run
    <3>1. was.by = run /\ "labels" \in was.said => was.object.child.managed
      BY <2>3 DEF Good
    <3>2. was.by = run /\ "containers" \in was.said => was.object.child.run = run
      BY <2>3 DEF Good
    <3>3. "labels" \in said => "labels" \in Said \/ (was.by = run /\ "labels" \in was.said)
      OBVIOUS
    <3>4. "containers" \in said => "containers" \in Said \/ (was.by = run /\ "containers" \in was.said)
      OBVIOUS
    <3> HIDE DEF said
    <3>5. "labels" \in said => new.child.managed
      BY <1>4, <2>4, <3>1, <3>3
    <3>6. ASSUME "containers" \in said
          PROVE  new.child.run = run
      BY <1>4, <1>6, <2>4, <2>6, <3>2, <3>4, <3>6
    <3> QED BY <3>5, <3>6
  <2>8. said \subseteq Parts
    BY <1>4, <2>3 DEF Good
  <2> HIDE DEF said
  <2>9. Good(e, k, run, cleaned)
    <3>1. new.child.run \in ((1 .. run) \cup {None}) \ cleaned
      BY <1>4, <2>3, <2>4 DEF Good
    <3> QED BY <1>4, <1>6, <2>2, <2>4, <2>7, <2>8, <3>1 DEF Good
  <2>10. e.object.marks.managed /\ e.object.marks.run = run
    BY <1>4, <2>2, <2>4
  <2>11. /\ \A j \in old : j \in DOMAIN spaced /\ j[1] = ChildKind /\ j # k
         /\ Held(d, run, cleaned)
    BY <1>5, <1>10, <2>2, <2>5, <2>9, <2>10, ChangedKeeps DEF was
  <2>12. /\ DOMAIN w = DOMAIN spaced /\ w[k] = e
         /\ \A j \in DOMAIN spaced \ {k} : w[j] = spaced[j]
    BY <1>10 DEF With
  <2> HIDE DEF w
  <2>13. DOMAIN d = DOMAIN spaced \ old
    BY <2>12, WithoutFields
  <2>14. Tracked(w, adopted \cup (implicit \cup {k}), run)
    BY <1>5, <2>12 DEF Tracked
  <2>15. \A j \in DOMAIN w \ old : w[j].parent \notin old
    <3>1. ASSUME NEW j \in DOMAIN w
          PROVE  w[j].parent = spaced[j].parent
      BY <2>2, <2>12 DEF was
    <3>2. \A j \in DOMAIN spaced : spaced[j].parent # None => spaced[j].parent[1] # ChildKind
      BY <1>5 DEF Held, Made
    <3>3. None \notin old
      BY <1>5, <2>11, HeldKeys
    <3> QED BY <2>11, <2>12, <3>1, <3>2, <3>3
  <2>16. Tracked(d, (adopted \cup (implicit \cup {k})) \ old, run)
    BY <2>14, <2>15, GoneTracked
  <2>17. adopted' \subseteq DOMAIN cluster'
    <3>1. (adopted \cup (implicit \cup {k})) \ old \subseteq DOMAIN d
      BY <1>5, <1>6, <1>10, <2>13
    <3> QED BY <2>1, <3>1
  <2>18. Held(cluster', run', cleaned') /\ Tracked(cluster', adopted', run')
    BY <1>1, <2>1, <2>11, <2>16
  <2> QED BY <1>1, <1>8, <2>17, <2>18, ClusterKeeps DEF RunsInv, TypeOK
<1> QED BY <1>9, <1>10

------------------------------------------------------------------------------
(***************************************************************************)
(* The theorems.                                                           *)
(***************************************************************************)
LEMMA InitHolds == Init => RunsInv
<1> SUFFICES ASSUME Init PROVE RunsInv
  OBVIOUS
<1> DEFINE default == NewNamespace("default")
           e == Entry(default, None, None, {})
<1>1. ReaderInv
  BY InitReader, DocumentsAssumption DEF Init
<1>2. PartsCounted
  <2>1. Len(<<>>) = 0
    OBVIOUS
  <2> QED BY <2>1 DEF Init, ReaderInit, PartsCounted
<1>3. run \in Runs /\ run = 1 /\ None # run /\ 0 \in 0 .. MaxLines
  <2>1. run = 1
    BY DEF Init
  <2>2. 0 \in 0 .. MaxLines
    BY DocumentsAssumption
  <2>3. 1 \in 1 .. MaxRuns
    <3>1. MaxRuns \in Nat \ {0}
      BY Constants
    <3> QED BY <3>1
  <2> QED BY <2>1, <2>2, <2>3, Constants
<1>4. Unmarked \in Marks /\ Unmarked.run = None
  BY DEF Unmarked, Marks
<1>5. /\ default \in Object /\ default.kind = NamespaceKind /\ default.alias = FALSE
      /\ default.marks = Unmarked /\ default.child = Unmarked
  BY <1>4, Constants DEF NewNamespace, Object
<1> HIDE DEF default
<1>6. e.object = default /\ e.by = None /\ e.parent = None /\ e.said = {}
  BY EntryFields
<1> HIDE DEF e
<1>7. DOMAIN cluster = {Key(default)} /\ \A k \in DOMAIN cluster : cluster[k] = e
  BY DEF Init, default, e
<1>8. cleaned = {} /\ adopted = {} /\ pc = "load" /\ fixtures = [k \in {} |-> None]
  BY DEF Init
<1>9. Good(e, Key(default), run, {})
  BY <1>3, <1>4, <1>5, <1>6 DEF Good
<1>10. Held(cluster, run, cleaned)
  BY <1>6, <1>7, <1>8, <1>9 DEF Held, Made
<1>11. Tracked(cluster, adopted, run)
  BY <1>3, <1>4, <1>5, <1>6, <1>7 DEF Tracked
<1>12. TypeOK
  <2>1. ReaderTypeOK
    BY <1>1 DEF ReaderInv
  <2>2. \A k \in DOMAIN cluster :
          /\ cluster[k].object \in Object /\ ~cluster[k].object.alias
          /\ cluster[k].by \in Runs \cup {None}
          /\ cluster[k].said \subseteq {"labels", "containers"}
    BY <1>3, <1>10, HeldTypes
  <2>3. decoded = 0 /\ text = None /\ obj = None
    BY DEF Init
  <2> QED BY <1>3, <1>8, <2>1, <2>2, <2>3 DEF TypeOK
<1>13. Hydrated
  BY <1>8 DEF Hydrated
<1> QED BY <1>1, <1>2, <1>8, <1>10, <1>11, <1>12, <1>13 DEF RunsInv

\* The invariant is inductive: one step per action.
LEMMA StepKeeps == RunsInv /\ [Next]_vars => RunsInv'
<1> SUFFICES ASSUME RunsInv, [Next]_vars PROVE RunsInv'
  OBVIOUS
<1>1. CASE Read \/ AddPart \/ ReadFails \/ Loaded
  BY <1>1, LoadKeeps
<1>2. CASE HydrateObject
  BY <1>2, HydrateKeeps
<1>3. CASE MatchAnonymous \/ MatchNamed
  BY <1>3, MatchKeeps
<1>4. CASE Apply
  BY <1>4, ApplyKeeps
<1>5. CASE Delete
  BY <1>5, DeleteKeeps
<1>6. CASE CleanUp
  BY <1>6, CleanUpKeeps
<1>7. CASE Spawn
  BY <1>7, SpawnKeeps
<1>8. CASE UNCHANGED vars
  <2>1. UNCHANGED <<readerVars, decoded, fixtures, pc, run, text, obj, cluster, adopted, cleaned>>
    BY <1>8 DEF vars, objectVars
  <2>2. Held(cluster, run, cleaned)' /\ (pc # "over" => Tracked(cluster, adopted, run)')
    BY <2>1, ClusterStays
  <2>3. Hydrated'
    BY <2>1 DEF RunsInv, Hydrated, Matched
  <2> QED BY <2>1, <2>2, <2>3, ClusterKeeps DEF RunsInv, TypeOK
<1> QED BY <1>1, <1>2, <1>3, <1>4, <1>5, <1>6, <1>7, <1>8 DEF Next, Over

\* Every reachable state has the invariant.
THEOREM RunsInvariant == Spec => []RunsInv
BY InitHolds, StepKeeps, PTL DEF Spec

\* Whatever the fixtures and the texts are, every variable has its type, and
\* what is adopted is in the cluster.
THEOREM TypeCorrect == Spec => []TypeOK
<1>1. RunsInv => TypeOK
  BY DEF RunsInv
<1> QED BY <1>1, RunsInvariant, PTL

\* Every object that a run applied bears its marks, and so does what is made of
\* it when a fragment of the run gave the template: the merge of a patch never
\* puts back what an earlier run marked it with.
THEOREM OwnIsSelected == Spec => []OwnSelected
<1>1. ASSUME RunsInv, NEW k \in DOMAIN cluster, cluster[k].by = run,
             ~(k[1] = NamespaceKind /\ cluster[k].object.marks = Unmarked),
             cluster[k].parent \in DOMAIN cluster =>
               {"labels", "containers"} \subseteq cluster[cluster[k].parent].said
      PROVE  cluster[k].object.marks.managed /\ cluster[k].object.marks.run = run
  <2> DEFINE p == cluster[k].parent
  <2>1. Good(cluster[k], k, run, cleaned) /\ Made(cluster, k, run)
    BY <1>1, Now DEF Held
  <2>2. CASE p = None
    BY <1>1, <2>1, <2>2 DEF Good
  <2>3. CASE p # None
    <3>1. CASE cluster[k].object.marks.managed /\ cluster[k].object.marks.run = cluster[k].by
      BY <1>1, <3>1
    <3>2. CASE cluster[k].object.marks = cluster[p].object.child /\ cluster[p].by = run
      <4>1. p \in DOMAIN cluster
        BY <2>1, <2>3 DEF Made
      <4>2. Good(cluster[p], p, run, cleaned)
        BY <1>1, <4>1, Now DEF Held
      <4>3. "labels" \in cluster[p].said /\ "containers" \in cluster[p].said
        BY <1>1, <4>1
      <4> QED BY <3>2, <4>2, <4>3 DEF Good
    <3> QED BY <1>1, <2>1, <2>3, <3>1, <3>2 DEF Made
  <2> QED BY <2>2, <2>3
<1>2. RunsInv => OwnSelected
  <2>1. \A k \in DOMAIN cluster :
          cluster[k].object.marks.managed /\ cluster[k].object.marks.run = run =>
            <<k, run>> \in GetObjects
    BY DEF GetObjects, SelectObjectsByLabel, RunIDFor
  <2> QED BY <1>1, <2>1 DEF OwnSelected
<1> QED BY <1>2, RunsInvariant, PTL

\* An anonymous fragment updates or deletes only what its own run applied.
THEOREM MatchedOnlyOwn == Spec => []MatchedIsOwn
<1>1. RunsInv => MatchedIsOwn
  <2> SUFFICES ASSUME RunsInv, pc = "update", text.object.name = "", text.apply # "fixture",
                      NEW k \in DOMAIN cluster, k = Key(obj.object)
               PROVE  cluster[k].by = run
    BY DEF MatchedIsOwn
  <2>1. /\ text \in Texts
        /\ \/ obj.object = Hydrate(text, fixtures, run).object /\ obj.object.name # ""
           \/ Matched(obj.object)
    BY DEF RunsInv, Hydrated
  <2>2. Hydrate(text, fixtures, run).object.name = ""
    <3>1. Replaced(text, fixtures) = text.object
      BY DEF Replaced
    <3>2. Hydrate(text, fixtures, run).object.name = Replaced(text, fixtures).name
      BY <2>1, HydratedName
    <3> QED BY <3>1, <3>2
  <2>3. Matched(obj.object)
    BY <2>1, <2>2
  <2> QED BY <2>3, Now DEF Matched, Held, Good
<1> QED BY <1>1, RunsInvariant, PTL

\* A cleanup leaves nothing behind with the ID of its run, and nothing that
\* would pass it on to an object still to be made.
THEOREM RunIdsGone == Spec => []RunIdsRetired
<1>1. RunsInv => RunIdsRetired
  <2>1. ASSUME RunsInv
        PROVE  \A k \in DOMAIN cluster : cluster[k].object.marks.run \notin cleaned
    BY <2>1, Now DEF Held, Good
  <2> QED BY <2>1 DEF RunIdsRetired, GetObjects, SelectObjectsByLabel, RunIDFor
<1> QED BY <1>1, RunsInvariant, PTL

==============================================================================
