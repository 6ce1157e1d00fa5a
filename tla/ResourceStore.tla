---------------------------- MODULE ResourceStore ----------------------------
(***************************************************************************)
(* The Rego data document: pkg/driver's regoDriver over OPA's in-memory    *)
(* store, and the functions of pkg/test that write to it.  Every call of   *)
(* the driver is a write transaction of its own, and storeItem makes up to *)
(* three of them.  Two threads write: the document's, which stores the     *)
(* resource versions and the last applied object, and the informers' event *)
(* handlers, which watcherLock lets in one at a time.                      *)
(***************************************************************************)
EXTENDS Discovery

CONSTANTS
  Objects,   \* the objects that informers report: kind, namespace and name
  Params,    \* the --param keys, split at their dots
  Contents,  \* what an item may hold
  Node       \* the empty object StorePath puts where there is nothing

pathForResource(resource, o) ==
  IF o.ns \in {"default", ""} THEN <<"resources", resource, o.name>>
  ELSE <<"resources", o.ns, resource, o.name>>

\* Where the documentation has the objects of a kind.
Documented(o) ==
  pathForResource((CHOOSE r \in Range(Resources) : r.kind = o.kind /\ ~r.sub).name, o)

ObjectPaths == {Documented(o) : o \in Objects}

Applied == <<"resources", "applied", "last">>

RunID == <<"test", "params", "run-id">>

VersionPaths == {<<"resources", r.name, ".versions">> : r \in {x \in Range(Resources) : ~x.sub}}

ParamPaths == {<<"test", "params">> \o key : key \in Params}

Own == {Applied, RunID} \cup VersionPaths \cup ParamPaths

Paths == ObjectPaths \cup Own

\* What is stored: what it holds, and where the documentation has checks look for it.
Item == [place : Paths, value : Contents]

ItemsFor(p) == {[place |-> p, value |-> c] : c \in Contents}

(***************************************************************************)
(* No path leads through another: no namespace has the name of a resource  *)
(* some object of which, in the default namespace, has that of another,    *)
(* and no parameter's key is the beginning of another's.  What is reported *)
(* as an object has a resource, and not only subresources, of its kind.    *)
(***************************************************************************)
ASSUME ResourceStoreAssumption ==
  /\ Objects \subseteq [kind : Kinds, ns : STRING, name : STRING]
  /\ \A o \in Objects : \E i \in DOMAIN Resources :
       Resources[i].kind = o.kind /\ ~Resources[i].sub
  /\ Params \subseteq Seq(STRING) \ {<<>>}
  /\ ObjectPaths \cap Own = {}
  /\ \A p, q \in Paths : IsPrefix(p, q) => p = q
  /\ Contents # {} /\ Node \notin Item

VARIABLES
  tree,   \* the store: what is under each path that leads somewhere
  op      \* what each thread is storing or removing

storeVars == <<tree, op>>
vars == <<discoveryVars, storeVars>>

Threads == {"document", "events"}

Idle == [step |-> "idle", path |-> <<>>, item |-> Node]

Steps == {"idle", "store", "make path", "store again", "store or not", "remove", "failed"}

\* Every variable has its type, and the tree is one: what has something below
\* it is an inner node.
TypeOK ==
  /\ DiscoveryTypeOK
  /\ <<>> \in DOMAIN tree
  /\ \A q \in DOMAIN tree :
       /\ tree[q] \in Item \cup {Node}
       /\ q # <<>> => Front(q) \in DOMAIN tree /\ tree[Front(q)] = Node
  /\ op \in [Threads -> [step : Steps, path : Paths \cup {<<>>}, item : Item \cup {Node}]]

Init ==
  /\ DiscoveryInit
  /\ tree = [q \in {<<>>} |-> Node]
  /\ op = [t \in Threads |-> Idle]

------------------------------------------------------------------------------
(***************************************************************************)
(* The driver's transactions.                                              *)
(***************************************************************************)
Below(p) == {q \in DOMAIN tree : IsPrefix(p, q)}

Replaceable(p) == p \in DOMAIN tree

AddableAnywhere(p) == TRUE

Addable(p) == Front(p) \in DOMAIN tree

StoredOverParent(p, c) ==
  [q \in (DOMAIN tree \ Below(Front(p))) \cup {Front(p), p} |-> IF q = p THEN c ELSE Node]

\* StoreItem replaces what is there, or else adds it below its parent.
Stored(p, c) ==
  [q \in (DOMAIN tree \ Below(p)) \cup {p} |-> IF q = p THEN c ELSE tree[q]]

\* StorePath fills in what is missing of a path, its end included.
MadePath(p) ==
  [q \in DOMAIN tree \cup Prefixes(p) |-> IF q \in DOMAIN tree THEN tree[q] ELSE Node]

RemovedWithParent(p) == Restrict(tree, DOMAIN tree \ Below(Front(p)))

\* RemovePath removes what is there and leaves its parents, empty or not.
Removed(p) == Restrict(tree, DOMAIN tree \ Below(p))

------------------------------------------------------------------------------
(***************************************************************************)
(* storeItem and removeResource, a transaction at a time.                  *)
(***************************************************************************)
Goto(t, step) == op' = [op EXCEPT ![t].step = step]

Begin(t, step, p, c) ==
  /\ op[t].step = "idle"
  /\ op' = [op EXCEPT ![t] = [step |-> step, path |-> p, item |-> c]]
  /\ UNCHANGED tree

\* storeResourceVersions and the result of an operation.
StoreOwn ==
  /\ \E p \in {Applied} \cup {<<"resources", r, ".versions">> : r \in ServerVersions} :
       \E i \in ItemsFor(p) : Begin("document", "store", p, i)
  /\ UNCHANGED discoveryVars

\* RegoParamOpt makes the path of a parameter first.
StoreParam ==
  /\ \E p \in ParamPaths : \E i \in ItemsFor(p) : Begin("document", "make path", p, i)
  /\ UNCHANGED discoveryVars

\* Run does not look at the error: without a parameter the ID is not stored.
StoreRunID ==
  /\ \E i \in ItemsFor(RunID) : Begin("document", "store or not", RunID, i)
  /\ UNCHANGED discoveryVars

LooksUpLive(kind) == KindIsServed(kind)

\* Both handlers look up the resource of the object's kind first.
LooksUp(kind) == KindIsFound(kind)

Handler(step, o, i) ==
  /\ o.kind \in informed
  /\ IF LooksUp(o.kind) THEN Begin("events", step, pathForResource(ResourceForKind(o.kind), o), i)
     ELSE Begin("events", "failed", <<>>, i)
  /\ UNCHANGED discoveryVars

StoreResource ==
  \E o \in Objects :
    \E i \in ItemsFor(Documented(o)) : KindIsServed(o.kind) /\ Handler("store", o, i)

\* An informer reports the deletion only of an object it has reported before,
\* also when its definition went first.
RemoveResource ==
  \E o \in Objects :
    LET p == Documented(o) IN p \in DOMAIN tree /\ tree[p] # Node /\ Handler("remove", o, Node)

StoreItem(t) ==
  /\ op[t].step \in {"store", "store again", "store or not"}
  /\ Replaceable(op[t].path) \/ Addable(op[t].path)
  /\ tree' = Stored(op[t].path, op[t].item)
  /\ op' = [op EXCEPT ![t] = Idle]

\* A NotFound is answered with StorePath the first time.
StoreItemFails(t) ==
  /\ op[t].step \in {"store", "store again", "store or not"}
  /\ ~(Replaceable(op[t].path) \/ Addable(op[t].path))
  /\ op' = [op EXCEPT ![t] =
              CASE @.step = "store" -> [@ EXCEPT !.step = "make path"]
                [] @.step = "store again" -> [@ EXCEPT !.step = "failed"]
                [] OTHER -> Idle]
  /\ UNCHANGED tree

StorePathOnly(t) ==
  /\ op[t].step = "make path"
  /\ tree' = MadePath(op[t].path)
  /\ op' = [op EXCEPT ![t] = Idle]

StorePath(t) ==
  /\ op[t].step = "make path"
  /\ tree' = MadePath(op[t].path)
  /\ Goto(t, "store again")

\* A NotFound is an error of removeResource.
RemovePath(t) ==
  /\ op[t].step = "remove"
  /\ tree' = Removed(op[t].path)
  /\ op' = [op EXCEPT ![t] =
              IF Replaceable(op[t].path) THEN Idle ELSE [@ EXCEPT !.step = "failed"]]

------------------------------------------------------------------------------
Transaction(t) ==
  /\ \/ StoreItem(t)
     \/ StoreItemFails(t)
     \/ StorePath(t)
     \/ RemovePath(t)
  /\ UNCHANGED discoveryVars

Next ==
  \/ (DefinitionsChange \/ InformOnKind \/ InformOnName) /\ UNCHANGED storeVars
  \/ StoreOwn
  \/ StoreParam
  \/ StoreRunID
  \/ StoreResource
  \/ RemoveResource
  \/ \E t \in Threads : Transaction(t)

Spec == Init /\ [][Next]_vars

------------------------------------------------------------------------------
(***************************************************************************)
(* Safety.                                                                 *)
(***************************************************************************)
\* No write and no lookup is in error, so no handler panics and no step is
\* fatal: between StorePath and the second StoreItem nobody takes the path away
\* again, and what once was found is found when the last event of it comes.
NeverFails == \A t \in Threads : op[t].step # "failed"

\* A check may meet the empty object StorePath left under an item's path, but
\* only while storeItem is about to fill it: no other item is ever half stored.
HalfStoredOnlyInFlight ==
  \A p \in Paths \cap DOMAIN tree :
    tree[p] = Node => \E t \in Threads : op[t].step = "store again" /\ op[t].path = p

\* Every item lies where the documentation has it, and nowhere else: an object
\* under its namespace and the resource of its kind, never a subresource that
\* shows the same; and what the program stores of its own under the path that
\* is meant for it.
NothingElsewhere ==
  \A q \in DOMAIN tree : tree[q] # Node => q \in Paths /\ tree[q].place = q

------------------------------------------------------------------------------
(***************************************************************************)
(* Why these hold in every step.                                           *)
(***************************************************************************)
Writing == {"store", "make path", "store again", "store or not"}

\* Every inner node is there for an item.
TreeOfPaths == \A q \in DOMAIN tree : \E p \in Paths : q \in Prefixes(p)

\* Neither thread stores or removes what the other one does.
ThreadsApart ==
  /\ op["document"].path \in Own \cup {<<>>}
  /\ op["document"].step # "remove"
  /\ op["events"].path \in ObjectPaths \cup {<<>>}
  /\ \A t \in Threads :
       /\ op[t].step # "idle" => op[t].path # <<>>
       /\ op[t].step \in Writing => op[t].item \in Item /\ op[t].item.place = op[t].path

\* The path of a second StoreItem, and that of a removal, is still there.
PathsThere ==
  /\ \A t \in Threads : op[t].step = "store again" => op[t].path \in DOMAIN tree
  /\ op["events"].step = "remove" =>
       op["events"].path \in DOMAIN tree /\ tree[op["events"].path] # Node

\* The cache has all resources of a kind or none, and some of each that an
\* informer was started for.
KindsComplete ==
  /\ \A i \in cache : Defined({Resources[i].kind}) \subseteq cache
  /\ \A kind \in informed : KindIsFound(kind)

StoreInv ==
  /\ TypeOK
  /\ TreeOfPaths
  /\ ThreadsApart
  /\ PathsThere
  /\ KindsComplete
  /\ NeverFails
  /\ HalfStoredOnlyInFlight
  /\ NothingElsewhere

Store == INSTANCE ItemStore
           WITH Contents <- Item,
                items <- [p \in {q \in Paths \cap DOMAIN tree : tree[q] # Node} |-> tree[p]]

\* Whatever its transactions are interleaved with, storing or removing an item
\* is one step and leaves every other item alone.
ImplementsItemStore == Store!Spec

==============================================================================
