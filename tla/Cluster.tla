------------------------------- MODULE Cluster -------------------------------
(***************************************************************************)
(* The Kubernetes API server, as pkg/driver uses it: a set of named        *)
(* objects that modden, controllers and other users create, write and      *)
(* delete.  It is external to the repository, so only what the driver can  *)
(* tell apart is kept: whether an object exists, whether it is being       *)
(* deleted, which incarnation of its name it is (the UID), its generation  *)
(* and its revision.                                                       *)
(***************************************************************************)
EXTENDS Naturals

CONSTANTS
  Keys,          \* object identities: group, kind, namespace and name
  None,          \* a value that is no key: no namespace, no target
  NamespaceOf,   \* the key of the namespace an object names, or None: the
                 \* object is cluster-scoped or in the default namespace
  Generational,  \* keys whose kind maintains metadata.generation
  Foreign,       \* keys that somebody else creates and deletes as well
  Preexisting,   \* keys that are there before the run begins
  MaxInc,        \* bound: incarnations of a key
  MaxForeignInc, \* bound: incarnations somebody else may bring about
  MaxRev         \* bound: revisions of an incarnation

ASSUME ClusterAssumption ==
  /\ None \notin Keys
  /\ NamespaceOf \in [Keys -> Keys \cup {None}]
  /\ \A k \in Keys : NamespaceOf[k] # None => NamespaceOf[NamespaceOf[k]] = None
  /\ Generational \subseteq Keys
  /\ Foreign \subseteq Keys /\ Preexisting \subseteq Keys
  /\ MaxInc \in Nat \ {0} /\ MaxRev \in Nat
  /\ MaxForeignInc \in 0 .. MaxInc

VARIABLE server   \* what the API server holds under each key

Phases == {"absent", "live", "terminating"}

\* Generations count some of the revisions.
Object ==
  {o \in [phase : Phases, inc : 0 .. MaxInc, gen : 0 .. MaxRev, rev : 0 .. MaxRev] :
     o.gen <= o.rev}

ClusterTypeOK == server \in [Keys -> Object]

Exists(o) == o.phase # "absent"

(***************************************************************************)
(* The UID the server gives an object: no two incarnations of a name share *)
(* one.  inc survives a deletion, so that the next incarnation is fresh.   *)
(***************************************************************************)
Uids == Keys \X (0 .. MaxInc)

UidOf(k, o) == <<k, o.inc>>

Present(u) == Exists(server[u[1]]) /\ server[u[1]].inc = u[2]

Live(u) == Present(u) /\ server[u[1]].phase = "live"

Gone(o) == [phase |-> "absent", inc |-> o.inc, gen |-> 0, rev |-> 0]

Unseen == [phase |-> "absent", inc |-> 0, gen |-> 0, rev |-> 0]

Fresh(o) == [phase |-> "live", inc |-> o.inc + 1, gen |-> 0, rev |-> 0]

(***************************************************************************)
(* A write bumps the revision; a write of the spec bumps the generation    *)
(* too, for the kinds that have one.                                       *)
(***************************************************************************)
Written(k, o, spec) ==
  IF spec /\ k \in Generational
  THEN [o EXCEPT !.rev = @ + 1, !.gen = @ + 1]
  ELSE [o EXCEPT !.rev = @ + 1]

Terminated(o) == [o EXCEPT !.phase = "terminating"]

ClusterInit ==
  server = [k \in Keys |-> IF k \in Preexisting THEN Fresh(Unseen) ELSE Unseen]

\* Objects are created only in a namespace that exists and is not on its way out.
NamespaceReady(k) ==
  NamespaceOf[k] # None => server[NamespaceOf[k]].phase = "live"

NamespaceEmpty(n) == \A k \in Keys : NamespaceOf[k] = n => ~Exists(server[k])

------------------------------------------------------------------------------
(***************************************************************************)
(* What the server does of its own accord and for its other clients.       *)
(***************************************************************************)
ControllerWrite(k) ==
  /\ Exists(server[k])
  /\ server[k].rev < MaxRev
  /\ \E spec \in BOOLEAN : server' = [server EXCEPT ![k] = Written(k, @, spec)]

\* Foreground deletion ends when the finalizers are done, a namespace's when
\* nothing is left in it.
Finalize(k) ==
  /\ server[k].phase = "terminating"
  /\ NamespaceEmpty(k)
  /\ server' = [server EXCEPT ![k] = Gone(@)]

\* The namespace controller deletes what a terminating namespace still holds.
Sweep(k) ==
  /\ NamespaceOf[k] # None
  /\ server[NamespaceOf[k]].phase = "terminating"
  /\ server[k].phase = "live"
  /\ server' = [server EXCEPT ![k] = Terminated(@)]

ForeignCreate(k) ==
  /\ k \in Foreign
  /\ ~Exists(server[k])
  /\ NamespaceReady(k)
  /\ server[k].inc < MaxForeignInc
  /\ server' = [server EXCEPT ![k] = Fresh(@)]

ForeignDelete(k) ==
  /\ k \in Foreign
  /\ server[k].phase = "live"
  /\ server' = [server EXCEPT ![k] = Terminated(@)]

ClusterNext ==
  \E k \in Keys :
    \/ ControllerWrite(k)
    \/ Finalize(k)
    \/ Sweep(k)
    \/ ForeignCreate(k)
    \/ ForeignDelete(k)

==============================================================================
