------------------------------ MODULE Informers ------------------------------
(***************************************************************************)
(* The client-go shared informers the object driver starts, one per        *)
(* GroupVersionResource.  External to the repository.  An informer lists   *)
(* and watches one resource, remembers what it has seen of each object and *)
(* queues an event for its handler whenever that changes; the queue is     *)
(* delivered in order by one goroutine per informer.                       *)
(*                                                                         *)
(* Observing an object is level triggered: what is seen is its state at    *)
(* the time, and states in between may go unseen.  That is what a list     *)
(* does, and it includes what a watch does.                                *)
(***************************************************************************)
EXTENDS Cluster, Sequences

CONSTANTS
  Resources,   \* the GroupVersionResources there may be an informer for
  Watches,     \* the keys that objects of a resource live under
  WatchGaps,   \* whether a watch may break, so that the informer lists again
  Resyncs,     \* whether a run lasts into a resync period
  MaxPending   \* bound: events queued for a handler

ASSUME InformersAssumption ==
  /\ Watches \in [Resources -> SUBSET Keys]
  /\ \A k \in Keys : \E r \in Resources : k \in Watches[r]
  /\ WatchGaps \in BOOLEAN /\ Resyncs \in BOOLEAN
  /\ MaxPending \in Nat \ {0}

VARIABLES
  known,     \* the indexer: what an informer last saw of each key
  pending    \* the events an informer has queued for its handler

EventTypes == {"add", "update", "delete", "tombstone"}

Event == [type : EventTypes, key : Keys, obj : Object]

InformersTypeOK ==
  /\ known \in [Resources -> [Keys -> Object]]
  /\ pending \in [Resources -> Seq(Event)]

InformersInit ==
  /\ known = [r \in Resources |-> [k \in Keys |-> Unseen]]
  /\ pending = [r \in Resources |-> <<>>]

Room(r) == Len(pending[r]) < MaxPending

Queue(r, type, k, o) ==
  pending' = [pending EXCEPT ![r] = Append(@, [type |-> type, key |-> k, obj |-> o])]

See(r, k) == known' = [known EXCEPT ![r][k] = server[k]]

Forget(r, k) == known' = [known EXCEPT ![r][k] = Gone(@)]

\* The incarnation the informer knows of is not there any more.
Vanished(r, k) == Exists(known[r][k]) /\ ~Present(UidOf(k, known[r][k]))

ObserveAdd(r, k) ==
  /\ Room(r)
  /\ ~Exists(known[r][k]) /\ Exists(server[k])
  /\ See(r, k)
  /\ Queue(r, "add", k, server[k])

ObserveUpdate(r, k) ==
  /\ Room(r)
  /\ Exists(known[r][k]) /\ ~Vanished(r, k) /\ known[r][k] # server[k]
  /\ See(r, k)
  /\ Queue(r, "update", k, server[k])

ObserveDelete(r, k) ==
  /\ Room(r)
  /\ Vanished(r, k)
  /\ Forget(r, k)
  /\ Queue(r, "delete", k, known[r][k])

(***************************************************************************)
(* A list after a gap in the watch: an object that went unseen is reported *)
(* as a cache.DeletedFinalStateUnknown, and one that was deleted and       *)
(* created again under its old name as an update.                          *)
(***************************************************************************)
ObserveTombstone(r, k) ==
  /\ WatchGaps /\ Room(r)
  /\ Vanished(r, k) /\ ~Exists(server[k])
  /\ Forget(r, k)
  /\ Queue(r, "tombstone", k, known[r][k])

ObserveReplaced(r, k) ==
  /\ WatchGaps /\ Room(r)
  /\ Vanished(r, k) /\ Exists(server[k])
  /\ See(r, k)
  /\ Queue(r, "update", k, server[k])

\* The periodic resync hands every known object to the handler once more; it
\* passes over an object that still has events queued.
Resync(r, k) ==
  /\ Resyncs /\ pending[r] = <<>>
  /\ Exists(known[r][k])
  /\ Queue(r, "update", k, known[r][k])
  /\ UNCHANGED known

Observe(r, k) ==
  \/ ObserveAdd(r, k)
  \/ ObserveUpdate(r, k)
  \/ ObserveDelete(r, k)
  \/ ObserveTombstone(r, k)
  \/ ObserveReplaced(r, k)

==============================================================================
