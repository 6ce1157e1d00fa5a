------------------------------- MODULE Fixtures -------------------------------
(***************************************************************************)
(* The object fragments of a few runs: `modden run` loads a file of        *)
(* fixtures, hydrates each fragment, matches the anonymous ones with what  *)
(* the cluster holds, applies or deletes them, and in the end deletes what *)
(* it applied.  The runs, one after another, share the cluster; whatever   *)
(* --preserve leaves there meets the next one.  Here calls succeed at once *)
(* and events are never late: ObjectDriver is about the course of a call,  *)
(* TestRun about the steps of a document.                                  *)
(***************************************************************************)
EXTENDS Hydration

CONSTANTS
  NamespaceKind,  \* v1 Namespace
  ChildKind,      \* what controllers make of templates
  ClusterScoped,  \* the kinds that are not namespaced
  Written,        \* the objects that fixtures are
  Texts,          \* the texts of fragments
  MaxRuns         \* bound: runs of one command after another

(***************************************************************************)
(* No file has the ID of a run in it: a run makes its own when it begins.  *)
(***************************************************************************)
ASSUME FixturesAssumption ==
  /\ {NamespaceKind, ChildKind} \subseteq Kinds
  /\ NamespaceKind \in ClusterScoped /\ ClusterScoped \subseteq Kinds
  /\ Written \subseteq Object /\ Texts \subseteq Text
  /\ \A o \in Written \cup {t.object : t \in Texts} : o.child.run = None
  /\ MaxRuns \in Nat \ {0} /\ Runs = 1 .. MaxRuns
  /\ None \notin Kinds \X (Words \cup {""}) \X (Words \cup {""})

VARIABLES
  pc,        \* where the command is
  decoded,   \* AddFromFile: the parts of the file it has seen
  fixtures,  \* fixture.Set
  run,       \* the run, and its ID
  text,      \* the fragment being run
  obj,       \* Run: its hydrated object
  cluster,   \* the objects the API server holds, by key; history: whose they are
  adopted,   \* the keys of objectPool
  cleaned    \* history: the runs that have deleted their objects

objectVars == <<text, obj, cluster, adopted>>
vars == <<readerVars, pc, decoded, fixtures, run, objectVars, cleaned>>

\* Every variable has its type; only a fixture may still have an alias in it.
TypeOK ==
  /\ ReaderTypeOK
  /\ pc \in {"load", "next", "match", "update", "clean up", "over"}
  /\ decoded \in 0 .. MaxLines
  /\ \A k \in DOMAIN fixtures : fixtures[k] \in Object /\ KeyFor(fixtures[k]) = k
  /\ run \in Runs
  /\ text \in Text \cup {None}
  /\ obj = None \/ (obj.object \in Object /\ obj.operation \in {"update", "delete"})
  /\ \A k \in DOMAIN cluster :
       /\ cluster[k].object \in Object /\ ~cluster[k].object.alias
       /\ cluster[k].by \in Runs \cup {None}
       /\ cluster[k].said \subseteq {"labels", "containers"}
  /\ adopted \subseteq DOMAIN cluster
  /\ cleaned \subseteq Runs

------------------------------------------------------------------------------
(***************************************************************************)
(* The cluster.                                                            *)
(***************************************************************************)
\* Apply and Delete take the default namespace for one that is not given.
NamespaceOrDefault(o) == IF o.ns = "" THEN "default" ELSE o.ns

Key(o) == <<o.kind, o.name, IF o.kind \in ClusterScoped THEN "" ELSE NamespaceOrDefault(o)>>

NewNamespace(ns) ==
  [kind |-> NamespaceKind, name |-> ns, ns |-> "", alias |-> FALSE,
   marks |-> Unmarked, template |-> {}, child |-> Unmarked]

\* Kept with an object: the run that applied it last, the object it was made
\* of, if any, and what of its template that run's fragments have said.
Entry(o, by, parent, said) == [object |-> o, by |-> by, parent |-> parent, said |-> said]

With(held, k, entry) == [j \in DOMAIN held \cup {k} |-> IF j = k THEN entry ELSE held[j]]

Without(held, keys) == [j \in DOMAIN held \ keys |-> held[j]]

ChildrenOf(keys) == {j \in DOMAIN cluster : cluster[j].parent \in keys}

\* What goes when the objects with these keys go: what is in a namespace and
\* what a controller made.
Cascade(keys) ==
  LET names == {k[2] : k \in {j \in keys : j[1] = NamespaceKind}}
      held == keys \cup {j \in DOMAIN cluster : j[3] \in names}
  IN  held \cup ChildrenOf(held)

\* A patch merges the marks it has into those that are there.
Patched(old, o) ==
  [o EXCEPT !.template = @ \cup old.template,
            !.child = [managed |-> @.managed \/ old.child.managed,
                       run |-> IF @.run = None THEN old.child.run ELSE @.run]]

\* A controller makes an object of a template, marked the way that is.
Spawn ==
  \E k \in DOMAIN cluster :
    LET parent == cluster[k].object
        child == [kind |-> ChildKind, name |-> parent.name, ns |-> parent.ns, alias |-> FALSE,
                  marks |-> parent.child, template |-> {}, child |-> Unmarked]
    IN  /\ "containers" \in parent.template
        /\ Key(child) \notin DOMAIN cluster
        /\ cluster' = With(cluster, Key(child), Entry(child, cluster[k].by, k, {}))
        /\ pc # "load"
        /\ UNCHANGED <<readerVars, pc, decoded, fixtures, run, text, obj, adopted, cleaned>>

(***************************************************************************)
(* What `modden get objects` and a run see of it.                          *)
(***************************************************************************)
SelectObjectsByLabel == {k \in DOMAIN cluster : cluster[k].object.marks.managed}

\* All that the management label, which every fragment has, selects of a kind.
SelectObjects(kind) == {k \in SelectObjectsByLabel : k[1] = kind}

RunIDFor(k) == cluster[k].object.marks.run

GetObjects == {<<k, RunIDFor(k)>> : k \in SelectObjectsByLabel}

------------------------------------------------------------------------------
(***************************************************************************)
(* loadFixtures.                                                           *)
(***************************************************************************)
Read ==
  /\ pc = "load"
  /\ ReadNext
  /\ UNCHANGED <<pc, decoded, fixtures, run, objectVars, cleaned>>

\* Whatever is no object is passed over, or ends the command with an error.
AddPart ==
  /\ pc = "load" /\ reading = "done" /\ decoded < Len(parts)
  /\ decoded' = decoded + 1
  /\ \E content \in Contents :
       CASE Decode(content) = "object" ->
              /\ \E o \in Written : fixtures' = Insert(fixtures, o)
              /\ UNCHANGED pc
         [] Decode(content) = "invalid" -> pc' = "over" /\ UNCHANGED fixtures
         [] OTHER -> UNCHANGED <<pc, fixtures>>
  /\ UNCHANGED <<readerVars, run, objectVars, cleaned>>

ReadFails ==
  /\ pc = "load" /\ reading = "error"
  /\ pc' = "over"
  /\ UNCHANGED <<readerVars, decoded, fixtures, run, objectVars, cleaned>>

Loaded ==
  /\ pc = "load" /\ reading = "done" /\ decoded = Len(parts)
  /\ OpenFile(<<>>)
  /\ pc' = "next" /\ decoded' = 0
  /\ UNCHANGED <<fixtures, run, objectVars, cleaned>>

------------------------------------------------------------------------------
(***************************************************************************)
(* The steps of a fragment.  A fatal result is followed by the cleanup.    *)
(***************************************************************************)
HydrateObject ==
  /\ pc = "next"
  /\ \E t \in Texts :
       IF HydrateFails(t, fixtures)
       THEN pc' = "clean up" /\ UNCHANGED <<text, obj>>
       ELSE pc' = "match" /\ text' = t /\ obj' = Hydrate(t, fixtures, run)
  /\ UNCHANGED <<readerVars, decoded, fixtures, run, cluster, adopted, cleaned>>

Candidates == SelectObjects(obj.object.kind)

IsCandidate(k) == TRUE

\* ObjectRunID is this run's.
HasRunID(k) == RunIDFor(k) = run

\* The first in the order of the server's list that is the run's, of what all
\* labels of the fragment select: its own ones leave any part of the candidates.
MatchAnonymous ==
  /\ pc = "match" /\ obj.object.name = ""
  /\ \E selected \in SUBSET Candidates :
       LET own == {k \in selected : HasRunID(k)}
       IN  \/ /\ \E k \in own : obj' = [obj EXCEPT !.object = cluster[k].object]
              /\ pc' = "update"
           \/ own = {} /\ pc' = "clean up" /\ UNCHANGED obj
  /\ UNCHANGED <<readerVars, decoded, fixtures, run, text, cluster, adopted, cleaned>>

MatchNamed ==
  /\ pc = "match" /\ obj.object.name # ""
  /\ pc' = "update"
  /\ UNCHANGED <<readerVars, decoded, fixtures, run, objectVars, cleaned>>

Done(fatal) ==
  /\ pc' = IF fatal THEN "clean up" ELSE "next"
  /\ text' = None /\ obj' = None
  /\ UNCHANGED <<readerVars, decoded, fixtures, run, cleaned>>

\* The namespace that applyObject creates, if any.
Implicit(o) ==
  LET k == Key(NewNamespace(o.ns)) IN IF o.ns = "" \/ k \in DOMAIN cluster THEN {} ELSE {k}

AdoptCreated(keys) == adopted \cup (keys \ DOMAIN cluster)

\* What Apply got from the server, created or patched, is the driver's.
Adopt(keys) == adopted \cup keys

\* What a fragment says of the template; one that was matched says nothing.
Said == LET o == Replaced(text, fixtures) IN IF o.name = "" THEN {} ELSE o.template

\* Create, or patch what exists; a changed template makes its controller
\* replace what it made before.
Apply ==
  LET o == [obj.object EXCEPT !.ns = IF obj.object.kind \in ClusterScoped THEN @ ELSE NamespaceOrDefault(obj.object)]
      k == Key(o)
      spaced == [j \in DOMAIN cluster \cup Implicit(obj.object) |->
                   IF j \in DOMAIN cluster THEN cluster[j] ELSE Entry(NewNamespace(o.ns), run, None, {})]
  IN  /\ pc = "update" /\ obj.operation = "update"
      /\ IF k \in DOMAIN spaced
         THEN LET new == Patched(spaced[k].object, o)
                  said == Said \cup (IF spaced[k].by = run THEN spaced[k].said ELSE {})
                  old == IF new.child = spaced[k].object.child THEN {} ELSE ChildrenOf({k})
              IN  /\ cluster' = Without(With(spaced, k, Entry(new, run, spaced[k].parent, said)), old)
                  /\ adopted' = Adopt(Implicit(obj.object) \cup {k}) \ old
         ELSE /\ cluster' = With(spaced, k, Entry(o, run, None, Said))
              /\ adopted' = Adopt(Implicit(obj.object) \cup {k})
      /\ Done(FALSE)

DeleteKeepsAdopted ==
  /\ pc = "update" /\ obj.operation = "delete"
  /\ cluster' = Without(cluster, Cascade({Key(obj.object)})) /\ UNCHANGED adopted
  /\ Done(Key(obj.object) \notin DOMAIN cluster)

\* The check of a deletion makes the server's error a fatal result.
Delete ==
  LET gone == Cascade({Key(obj.object)})
  IN  /\ pc = "update" /\ obj.operation = "delete"
      /\ cluster' = Without(cluster, gone) /\ adopted' = adopted \ gone
      /\ Done(Key(obj.object) \notin DOMAIN cluster)

CleanUp ==
  /\ pc \in {"next", "clean up"}
  /\ \/ UNCHANGED <<cluster, cleaned>>
     \/ cluster' = Without(cluster, Cascade(adopted)) /\ cleaned' = cleaned \cup {run}
  /\ adopted' = {}
  /\ IF run < MaxRuns
     THEN run' = run + 1 /\ pc' = "next"
     ELSE pc' = "over" /\ UNCHANGED run
  /\ text' = None /\ obj' = None
  /\ UNCHANGED <<readerVars, decoded, fixtures>>

------------------------------------------------------------------------------
Init ==
  /\ ReaderInit
  /\ pc = "load" /\ decoded = 0
  /\ fixtures = [k \in {} |-> None]
  /\ run = 1
  /\ text = None /\ obj = None
  /\ cluster = [k \in {Key(NewNamespace("default"))} |-> Entry(NewNamespace("default"), None, None, {})]
  /\ adopted = {} /\ cleaned = {}

Over == pc = "over" /\ UNCHANGED vars

Next ==
  \/ Read
  \/ AddPart
  \/ ReadFails
  \/ Loaded
  \/ HydrateObject
  \/ MatchAnonymous
  \/ MatchNamed
  \/ Apply
  \/ Delete
  \/ CleanUp
  \/ Spawn
  \/ Over

Spec == Init /\ [][Next]_vars

------------------------------------------------------------------------------
(***************************************************************************)
(* Safety.                                                                 *)
(***************************************************************************)
\* A run can select what it applied, fixtures and renamed ones too, and what
\* controllers made of a template that it gave with labels and containers;
\* `get` lists it.  A namespace that applyObject created on the way is left
\* unmarked, and a template that no fragment said again as it was marked before.
OwnSelected ==
  \A k \in DOMAIN cluster :
    \/ cluster[k].by # run
    \/ k[1] = NamespaceKind /\ cluster[k].object.marks = Unmarked
    \/ /\ cluster[k].parent \in DOMAIN cluster
       /\ ~({"labels", "containers"} \subseteq cluster[cluster[k].parent].said)
    \/ <<k, run>> \in GetObjects

\* An anonymous fragment never stands for an object that another run applied,
\* or that was made of such an object.
MatchedIsOwn ==
  pc = "update" /\ text.object.name = "" /\ text.apply # "fixture" =>
    \A k \in DOMAIN cluster : k = Key(obj.object) => cluster[k].by = run

\* Nothing that bears the ID of a run is left once that run has cleaned up,
\* whatever it met of earlier runs and whatever fragment was fatal.
RunIdsRetired == \A r \in cleaned : ~\E k \in DOMAIN cluster : <<k, r>> \in GetObjects

------------------------------------------------------------------------------
(***************************************************************************)
(* What the repository says and this does not bear out.                    *)
(***************************************************************************)
\* The namespace can be changed by giving the new name of a fixture as
\* namespace/name.
RenamedWhereAsked ==
  pc = "match" /\ text.apply = "fixture" /\ text.as # None =>
    \/ text.as.ns = None \/ fixtures[KeyFor(text.object)].alias
    \/ obj.object.ns = text.as.ns

==============================================================================
