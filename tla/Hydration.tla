------------------------------ MODULE Hydration ------------------------------
(***************************************************************************)
(* Environment.HydrateObject, with the filters of pkg/filter and the       *)
(* fixture set: what becomes of the text of an object fragment.  Of a      *)
(* YAML object is kept what hydration reads and writes: its kind (for its  *)
(* apiVersion too), its name and namespace, the label and the annotation   *)
(* that mark it and, for a kind that has a template of other objects,      *)
(* which parts the template has and how those are marked.                  *)
(***************************************************************************)
EXTENDS Documents

CONSTANTS
  Kinds,   \* apiVersion and kind
  Words,   \* names of objects and of namespaces
  Runs,    \* what Environment.UniqueID gives to runs
  None     \* no run, or nothing said

ASSUME HydrationAssumption == "default" \in Words /\ "" \notin Words /\ None \notin Runs

Marks == [managed : BOOLEAN, run : Runs \cup {None}]

Unmarked == [managed |-> FALSE, run |-> None]

\* The namespace may be a YAML alias of the anchored name.
Object ==
  [kind : Kinds, name : Words \cup {""}, ns : Words \cup {""}, alias : BOOLEAN,
   marks : Marks, template : SUBSET {"labels", "containers"}, child : Marks]

Namespace(o) == IF o.alias THEN o.name ELSE o.ns

\* The object a fragment of YAML decodes to, with the aliases resolved.
Resolved(o) == [o EXCEPT !.ns = Namespace(o), !.alias = FALSE]

------------------------------------------------------------------------------
(***************************************************************************)
(* Filters.                                                                *)
(***************************************************************************)
Inject(o, run) ==
  [o EXCEPT !.marks = [managed |-> TRUE, run |-> run],
            !.child = [managed |-> @.managed \/ "labels" \in o.template,
                       run |-> IF "containers" \in o.template THEN run ELSE @.run]]

\* SplitObjectName: without a namespace in it, the name is one in "default".
SplitObjectName(as) ==
  <<IF as.ns = None THEN "default" ELSE as.ns, as.name>>

\* An alias keeps following the name.  A namespace that is there already is
\* set to the new name: setNode's value is only for a field that is missing.
Rename(o, new) ==
  [o EXCEPT !.name = new[2],
            !.ns = CASE o.alias -> @
                     [] ~o.alias /\ @ = "" -> new[1]
                     [] OTHER -> new[2]]

------------------------------------------------------------------------------
(***************************************************************************)
(* Fixtures.                                                               *)
(***************************************************************************)
KeyFor(o) == <<o.kind, o.name, Namespace(o)>>

\* The last fixture with a key is the one that is kept.
Insert(set, o) ==
  [k \in DOMAIN set \cup {KeyFor(o)} |-> IF k = KeyFor(o) THEN o ELSE set[k]]

Match(set, o) == KeyFor(o) \in DOMAIN set

\* What the set holds is not changed.
Renamed(fixture, as) == Rename(fixture, SplitObjectName(as))

------------------------------------------------------------------------------
(***************************************************************************)
(* HydrateObject.  The text of a fragment is its object and what its $apply*)
(* and $check fields say.  $apply is a string, or it names a fixture (by a *)
(* null or any mapping, too), perhaps with another name to give to it.     *)
(***************************************************************************)
ApplyForms == {"absent", "update", "delete", "fixture", "other string", "sequence"}

Text ==
  [object : Object, apply : ApplyForms, check : Contents \cup {"absent", "no string"},
   as : [ns : Words \cup {None}, name : Words] \cup {None}]

HydrateFails(text, set) ==
  \/ text.apply \in {"other string", "sequence"}
  \/ text.apply = "fixture" /\ ~Match(set, text.object)
  \/ text.check = "no string"
  \/ text.check # "absent" /\ NewRegoFragmentFails(text.check)

\* The fragment's object, or the fixture in its place.
Replaced(text, set) ==
  CASE text.apply # "fixture" -> text.object
    [] text.apply = "fixture" /\ text.as = None -> set[KeyFor(text.object)]
    [] OTHER -> Renamed(set[KeyFor(text.object)], text.as)

\* The mark is put on what the text says, before that is replaced.
HydrateMarksFirst(text, set, run) ==
  [object |-> Resolved(Replaced([text EXCEPT !.object = Inject(@, run)], set)),
   operation |-> IF text.apply = "delete" THEN "delete" ELSE "update"]

Hydrate(text, set, run) ==
  [object |-> Resolved(Inject(Replaced(text, set), run)),
   operation |-> IF text.apply = "delete" THEN "delete" ELSE "update"]

==============================================================================
