------------------------------ MODULE Discovery ------------------------------
(***************************************************************************)
(* pkg/driver's KubeClient: looking up, by kind or by name, the resources  *)
(* that the API server serves.  The client asks the server once and keeps  *)
(* the lists for as long as the command runs (client-go's memory cache,    *)
(* which nothing invalidates), while the server's lists change with the    *)
(* custom resource definitions it holds.                                   *)
(***************************************************************************)
EXTENDS Naturals, FiniteSets, SequencesExt

CONSTANTS
  Resources,  \* every resource there may be, in the order the server lists them
  Custom      \* the kinds that custom resource definitions define

(***************************************************************************)
(* Kinds have one resource, but for the subresources of it, which come     *)
(* later in the list.                                                      *)
(***************************************************************************)
ASSUME DiscoveryAssumption ==
  /\ Resources \in Seq([name : STRING, kind : STRING, sub : BOOLEAN])
  /\ \A i \in DOMAIN Resources : ~Resources[i].sub =>
       \A j \in DOMAIN Resources : Resources[j].kind = Resources[i].kind =>
         j = i \/ (j > i /\ Resources[j].sub)

VARIABLES
  served,    \* the server's resources now, as positions in Resources
  cache,     \* those that the memory cache holds
  informed   \* the kinds that an informer reports objects of

discoveryVars == <<served, cache, informed>>

Kinds == {Resources[i].kind : i \in DOMAIN Resources}

DiscoveryTypeOK ==
  /\ served \subseteq DOMAIN Resources
  /\ cache \subseteq DOMAIN Resources
  /\ informed \subseteq Kinds

Defined(kinds) == {i \in DOMAIN Resources : Resources[i].kind \in kinds}

\* The cache is filled before the first object is looked up.
DiscoveryInit ==
  /\ \E defined \in SUBSET Custom : served = DOMAIN Resources \ Defined(defined)
  /\ cache = served
  /\ informed = {}

------------------------------------------------------------------------------
Matching(lists, kind) == {i \in lists : Resources[i].kind = kind}

KindIsServed(kind) == Matching(served, kind) # {}

\* findAPIResourceForKind finds nothing, which is an error.
KindIsFound(kind) == Matching(cache, kind) # {}

LastResourceForKind(kind) ==
  Resources[CHOOSE i \in Matching(cache, kind) : \A j \in Matching(cache, kind) : j <= i].name

\* The first one in the list that has the kind.
ResourceForKind(kind) ==
  Resources[CHOOSE i \in Matching(cache, kind) : \A j \in Matching(cache, kind) : i <= j].name

ResourcesForName(name) == {i \in cache : Resources[i].name = name}

\* What of each name is served, without subresources: data.resources[n][".versions"].
ServerVersions == {Resources[i].name : i \in {j \in cache : ~Resources[j].sub}}

------------------------------------------------------------------------------
\* A definition is created or deleted, and its resources with it.
DefinitionsChange ==
  /\ \E kind \in Custom :
       served' = IF KindIsServed(kind) THEN served \ Defined({kind}) ELSE served \cup Defined({kind})
  /\ UNCHANGED <<cache, informed>>

Inform(kind) ==
  /\ informed' = informed \cup {kind}
  /\ UNCHANGED <<served, cache>>

\* Apply starts an informer for the kind it found.
InformOnKind == \E kind \in Kinds : KindIsFound(kind) /\ Inform(kind)

\* --watch starts one for each resource of a name.
InformOnName == \E name \in ServerVersions : \E i \in ResourcesForName(name) : Inform(Resources[i].kind)

==============================================================================
