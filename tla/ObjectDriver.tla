----------------------------- MODULE ObjectDriver -----------------------------
(***************************************************************************)
(* One session of pkg/driver's object driver, driven by the run of a test  *)
(* document (pkg/test Run): the document's thread applies, deletes and in  *)
(* the end cleans up objects; meanwhile every informer's goroutine hands   *)
(* events first to the driver's own functions, which keep the pool of      *)
(* adopted objects under objectLock, and then, under watcherLock, to the   *)
(* functions Run registered, which mirror objects into the Rego store      *)
(* below data.resources.                                                   *)
(***************************************************************************)
EXTENDS Informers, Functions

CONSTANTS
  Managed,      \* the keys of the objects the document applies or deletes
  ResourceOf,   \* the resource a key is applied through
  Watched,      \* the resources named by --watch
  ApiFaults,    \* whether API calls may be refused or never reach the server
  LossyReplies  \* whether the reply to a call that was executed may be lost

ASSUME ObjectDriverAssumption ==
  /\ Managed \subseteq Keys
  /\ ResourceOf \in [Keys -> Resources]
  /\ \A k \in Keys : k \in Watches[ResourceOf[k]]
  /\ Watched \subseteq Resources
  /\ ApiFaults \in BOOLEAN /\ LossyReplies \in BOOLEAN

VARIABLES
  started,   \* informerPool: the resources that have an informer
  halfway,   \* informers whose handler has done its own function with the
             \* first pending event, but not yet called Next
  pool,      \* objectPool: adopted objects by UID
  watching,  \* whether Run's functions are registered with the mux
  mirror,    \* data.resources in the Rego store
  pc,        \* where the document's thread is
  target,    \* the object the document names in the current operation
  current,   \* the object being applied: target, or its namespace
  reply,     \* what the server answered, until it is adopted
  latest,    \* OperationResult.Latest of the Delete in progress
  targets,   \* DeleteAll: adopted UIDs still to delete
  errs,      \* DeleteAll: adopted UIDs whose deletion failed
  verdict,   \* how the run ended
  created,   \* history: UIDs of the objects this run created
  orphaned,  \* history: those of them the run never heard about
  unfound    \* history: the last incarnation of the namespace that the Apply in
             \* progress, or the last one, has looked for in vain

driverVars == <<started, halfway, pool, watching, mirror>>
callVars   == <<target, current, reply, latest>>
purgeVars  == <<targets, errs, verdict>>
history    == <<created, orphaned, unfound>>
vars == <<server, known, pending, driverVars, pc, callVars, purgeVars, history>>

EmptyMap == [x \in {} |-> Unseen]

Reply == [key : Keys, obj : Object]

Steps == {"start", "inform", "idle", "checkNamespace", "create", "patch", "adopt",
          "delete", "fatal", "purge", "cancelWatch", "stopInformers",
          "clearWatchers", "clearPool", "over"}

Verdicts == {"running", "aborted", "preserved", "purged", "failed", "crashed"}

\* Every variable has its type, and no step of the thread lacks what it works
\* on: an object to apply or delete, a namespace to look for, a reply to adopt.
TypeOK ==
  /\ ClusterTypeOK
  /\ InformersTypeOK
  /\ started \subseteq Resources
  /\ halfway \subseteq Resources
  /\ \A r \in halfway : pending[r] # <<>>
  /\ DOMAIN pool \subseteq Uids
  /\ \A u \in DOMAIN pool : pool[u] \in Object
  /\ watching \in BOOLEAN
  /\ DOMAIN mirror \subseteq Keys
  /\ \A k \in DOMAIN mirror : mirror[k] \in Object
  /\ pc \in Steps
  /\ target \in Keys \cup {None}
  /\ current \in Keys \cup {None}
  /\ reply \in Reply \cup {None}
  /\ pc = "adopt" => reply \in Reply
  /\ pc \in {"checkNamespace", "create", "patch", "adopt", "delete"} => target # None
  /\ pc \in {"create", "patch", "adopt"} => current # None
  /\ pc = "checkNamespace" => NamespaceOf[target] # None
  /\ latest \in Object \cup {None}
  /\ targets \subseteq Uids
  /\ errs \subseteq Uids
  /\ verdict \in Verdicts
  /\ created \subseteq Uids
  /\ orphaned \subseteq created
  /\ unfound \in Uids \cup {None}

Init ==
  /\ ClusterInit
  /\ InformersInit
  /\ started = {} /\ halfway = {}
  /\ pool = EmptyMap
  /\ watching = FALSE
  /\ mirror = EmptyMap
  /\ pc = "start"
  /\ target = None /\ current = None /\ reply = None /\ latest = None
  /\ targets = {} /\ errs = {}
  /\ verdict = "running"
  /\ created = {} /\ orphaned = {} /\ unfound = None

\* The process dies with the panic of any of its goroutines.
Alive == verdict # "crashed"

\* Done closes the stop channel before it clears anything.
Stopped == pc \in {"clearWatchers", "clearPool", "over"}

------------------------------------------------------------------------------
(***************************************************************************)
(* The server, and the informers that have been started.                   *)
(***************************************************************************)
Environment ==
  /\ ClusterNext
  /\ UNCHANGED <<known, pending, driverVars, pc, callVars, purgeVars, history>>

Inform(r) ==
  /\ Alive /\ ~Stopped /\ r \in started
  /\ \E k \in Watches[r] : Observe(r, k) \/ Resync(r, k)
  /\ UNCHANGED <<server, driverVars, pc, callVars, purgeVars, history>>

------------------------------------------------------------------------------
(***************************************************************************)
(* Event handlers: the driver's own function first, then Next.             *)
(***************************************************************************)
AnyGeneration(o, prev) == TRUE

OlderGeneration(o, prev) == o.gen < prev.gen

NewerGeneration(o, prev) == o.gen > prev.gen

Without(f, x) == Restrict(f, DOMAIN f \ {x})

With(f, x, v) == [y \in DOMAIN f \cup {x} |-> IF y = x THEN v ELSE f[y]]

AdoptsOnUpdate(u, o) == With(pool, u, o)

UpdateAdopted(u, o) ==
  IF u \in DOMAIN pool /\ NewerGeneration(o, pool[u])
  THEN With(pool, u, o)
  ELSE pool

DropAdoptedByName(u) == Restrict(pool, {w \in DOMAIN pool : w[1] # u[1]})

DropAdopted(u) == Without(pool, u)

\* AddFunc, UpdateFunc and DeleteFunc of InformOn, under objectLock.  A
\* tombstone is no *unstructured.Unstructured, so the assertion drops it.
HandleInPool(r) ==
  /\ Alive /\ pending[r] # <<>> /\ r \notin halfway
  /\ LET e == Head(pending[r])
         u == UidOf(e.key, e.obj)
     IN  \/ e.type \in {"add", "update"} /\ pool' = UpdateAdopted(u, e.obj)
         \/ e.type = "delete" /\ pool' = DropAdopted(u)
         \/ e.type = "tombstone" /\ pool' = pool
  /\ halfway' = halfway \cup {r}
  /\ UNCHANGED <<server, known, pending, started, watching, mirror, pc, callVars,
                 purgeVars, history>>

StoresUpdatesOnly(e) == e.type = "update"

Stores(e) == e.type \in {"add", "update"}

RemovesNothing(e) == FALSE

Removes(e) == e.type = "delete"

\* Next: the mux calls Run's functions, which store or remove the object.
\* Removing a path that is not there is an error, and must.Must panics.
NotifyWatcher(r) ==
  /\ Alive /\ r \in halfway
  /\ LET e == Head(pending[r])
     IN  \/ /\ ~watching \/ ~(Stores(e) \/ Removes(e))
            /\ UNCHANGED <<mirror, pc, verdict>>
         \/ /\ watching /\ Stores(e)
            /\ mirror' = With(mirror, e.key, e.obj)
            /\ UNCHANGED <<pc, verdict>>
         \/ /\ watching /\ Removes(e) /\ e.key \in DOMAIN mirror
            /\ mirror' = Without(mirror, e.key)
            /\ UNCHANGED <<pc, verdict>>
         \/ /\ watching /\ Removes(e) /\ e.key \notin DOMAIN mirror
            /\ verdict' = "crashed" /\ pc' = "over"
            /\ UNCHANGED mirror
  /\ pending' = [pending EXCEPT ![r] = Tail(@)]
  /\ halfway' = halfway \ {r}
  /\ UNCHANGED <<server, known, started, pool, watching, callVars, targets, errs, history>>

------------------------------------------------------------------------------
(***************************************************************************)
(* The document's thread: Run sets up, then applies and deletes objects.   *)
(***************************************************************************)
Watch ==
  /\ pc = "start"
  /\ watching' = TRUE
  /\ pc' = "inform"
  /\ UNCHANGED <<server, known, pending, started, halfway, pool, mirror, callVars,
                 purgeVars, history>>

\* InformOn for every --watch, then the discovery of resource versions, whose
\* failure ends the run before it has applied anything.
InformOnWatched ==
  /\ pc = "inform"
  /\ started' = started \cup Watched
  /\ \/ pc' = "idle" /\ UNCHANGED verdict
     \/ ApiFaults /\ pc' = "cancelWatch" /\ verdict' = "aborted"
  /\ UNCHANGED <<server, known, pending, halfway, pool, watching, mirror, callVars,
                 targets, errs, history>>

\* Driver.Apply up to its first write: InformOn is idempotent.
BeginApply(k) ==
  /\ current' = k
  /\ started' = started \cup {ResourceOf[k]}
  /\ pc' = "create"

\* bound: the server has an incarnation to spare for each create.
Creatable(k) == server[k].inc < MaxInc

ApplyObject(k) ==
  /\ pc = "idle"
  /\ Creatable(k)
  /\ NamespaceOf[k] # None => Creatable(NamespaceOf[k])
  /\ target' = k
  /\ unfound' = None
  /\ \/ NamespaceOf[k] = None /\ BeginApply(k)
     \/ NamespaceOf[k] # None /\ pc' = "checkNamespace" /\ UNCHANGED <<current, started>>
  /\ UNCHANGED <<server, known, pending, halfway, pool, watching, mirror, reply, latest,
                 purgeVars, created, orphaned>>

AlwaysCreateNamespace ==
  /\ pc = "checkNamespace"
  /\ BeginApply(NamespaceOf[target])
  /\ UNCHANGED <<server, known, pending, halfway, pool, watching, mirror, target, reply,
                 latest, purgeVars, history>>

\* applyObject creates the namespace first if it does not exist.
CheckNamespace ==
  /\ pc = "checkNamespace"
  /\ LET n == NamespaceOf[target]
     IN  \/ Exists(server[n]) /\ BeginApply(target) /\ UNCHANGED unfound
         \/ ~Exists(server[n]) /\ BeginApply(n) /\ unfound' = UidOf(n, server[n])
  /\ UNCHANGED <<server, known, pending, halfway, pool, watching, mirror, target, reply,
                 latest, purgeVars, created, orphaned>>

Answered(k, o) == reply' = [key |-> k, obj |-> o] /\ pc' = "adopt"

\* The client sees a transport error, which is fatal to the document.
LoseReply == LossyReplies /\ pc' = "fatal" /\ UNCHANGED reply

CreateObject ==
  /\ pc = "create"
  /\ ~Exists(server[current]) /\ NamespaceReady(current) /\ Creatable(current)
  /\ server' = [server EXCEPT ![current] = Fresh(@)]
  /\ created' = created \cup {UidOf(current, server'[current])}
  /\ \/ Answered(current, server'[current]) /\ UNCHANGED orphaned
     \/ /\ LoseReply
        /\ orphaned' = orphaned \cup {UidOf(current, server'[current])}
  /\ UNCHANGED <<known, pending, driverVars, target, current, latest, purgeVars, unfound>>

ConflictIsSuccess ==
  /\ pc = "create"
  /\ Exists(server[current])
  /\ pc' = "adopt"
  /\ UNCHANGED <<server, known, pending, driverVars, callVars, purgeVars, history>>

CreateConflict ==
  /\ pc = "create"
  /\ Exists(server[current]) /\ NamespaceReady(current)
  /\ pc' = "patch"
  /\ UNCHANGED <<server, known, pending, driverVars, callVars, purgeVars, history>>

\* The patch may or may not find something to change.
PatchObject ==
  /\ pc = "patch"
  /\ Exists(server[current])
  /\ \/ UNCHANGED server
     \/ /\ server[current].rev < MaxRev
        /\ server' = [server EXCEPT ![current] = Written(current, @, TRUE)]
  /\ Answered(current, server'[current]) \/ LoseReply
  /\ UNCHANGED <<known, pending, driverVars, target, current, latest, purgeVars, history>>

(***************************************************************************)
(* A call the server refuses is a StatusError: it becomes the result of    *)
(* the operation, for the document's check to judge.                       *)
(***************************************************************************)
Refused ==
  \/ pc = "create" /\ ~NamespaceReady(current)
  \/ pc = "patch" /\ ~Exists(server[current])
  \/ pc = "delete" /\ ~Exists(server[target])
  \/ ApiFaults /\ pc \in {"create", "patch", "delete"}

CallRefused ==
  /\ Refused
  /\ pc' = "idle"
  /\ target' = None /\ current' = None /\ latest' = None
  /\ UNCHANGED <<server, known, pending, driverVars, reply, purgeVars, history>>

\* Any other error is fatal to the document.
CallFails ==
  /\ ApiFaults /\ pc \in {"checkNamespace", "create", "patch", "delete"}
  /\ pc' = "fatal"
  /\ target' = None /\ current' = None /\ latest' = None
  /\ UNCHANGED <<server, known, pending, driverVars, reply, purgeVars, history>>

Tracked(u, o) == IF u \in DOMAIN pool THEN UpdateAdopted(u, o) ELSE With(pool, u, o)

\* Adopt ends Apply; the namespace's Apply is followed by the object's.
Adopt ==
  /\ pc = "adopt"
  /\ pool' = Tracked(UidOf(reply.key, reply.obj), reply.obj)
  /\ reply' = None
  /\ \/ current # target /\ BeginApply(target) /\ UNCHANGED target
     \/ /\ current = target
        /\ pc' = "idle" /\ target' = None /\ current' = None
        /\ UNCHANGED started
  /\ UNCHANGED <<server, known, pending, halfway, watching, mirror, latest, purgeVars, history>>

\* Driver.Delete: find an adopted object of that name, in map order.
Adopted(k) == {u \in DOMAIN pool : u[1] = k}

DeleteObject(k) ==
  /\ pc = "idle"
  /\ target' = k
  /\ \/ Adopted(k) = {} /\ latest' = None
     \/ \E u \in Adopted(k) : latest' = pool[u]
  /\ pc' = "delete"
  /\ UNCHANGED <<server, known, pending, driverVars, current, reply, purgeVars, history>>

\* The server deletes by name, whichever incarnation has it.
Deleted(k) == IF server[k].phase = "live" THEN [server EXCEPT ![k] = Terminated(@)] ELSE server

DeleteCall ==
  /\ pc = "delete"
  /\ Exists(server[target])
  /\ server' = Deleted(target)
  /\ (pc' = "idle" /\ UNCHANGED reply) \/ LoseReply
  /\ target' = None /\ latest' = None
  /\ UNCHANGED <<known, pending, driverVars, current, purgeVars, history>>

------------------------------------------------------------------------------
(***************************************************************************)
(* The end of the run, reached after the last fragment or a fatal result.  *)
(***************************************************************************)
Leaving == pc \in {"idle", "fatal"}

Preserve ==
  /\ Leaving
  /\ verdict' = "preserved"
  /\ pc' = "cancelWatch"
  /\ UNCHANGED <<server, known, pending, driverVars, callVars, targets, errs, history>>

DeleteAllButOne ==
  /\ Leaving
  /\ \E u \in DOMAIN pool : targets' = DOMAIN pool \ {u}
  /\ pc' = "purge"
  /\ UNCHANGED <<server, known, pending, driverVars, callVars, errs, verdict, history>>

DeleteAllForgets ==
  /\ Leaving
  /\ targets' = DOMAIN pool /\ pool' = EmptyMap
  /\ pc' = "purge"
  /\ UNCHANGED <<server, known, pending, started, halfway, watching, mirror, callVars,
                 errs, verdict, history>>

\* DeleteAll copies the pool under objectLock and then deletes without it.
DeleteAll ==
  /\ Leaving
  /\ targets' = DOMAIN pool
  /\ pc' = "purge"
  /\ UNCHANGED <<server, known, pending, driverVars, callVars, errs, verdict, history>>

PurgeStopsAtError(u) ==
  /\ pc = "purge" /\ u \in targets
  /\ \/ /\ Exists(server[u[1]])
        /\ server' = Deleted(u[1])
        /\ targets' = targets \ {u}
        /\ UNCHANGED errs
     \/ /\ ~Exists(server[u[1]])
        /\ errs' = errs \cup {u}
        /\ targets' = {}
        /\ UNCHANGED server
  /\ UNCHANGED <<known, pending, driverVars, pc, callVars, verdict, history>>

PurgeDelete(u) ==
  /\ pc = "purge" /\ u \in targets
  /\ \/ /\ Exists(server[u[1]])
        /\ server' = Deleted(u[1])
        /\ errs' = errs \/ (LossyReplies /\ errs' = errs \cup {u})
     \/ /\ ApiFaults \/ ~Exists(server[u[1]])
        /\ errs' = errs \cup {u}
        /\ UNCHANGED server
  /\ targets' = targets \ {u}
  /\ UNCHANGED <<known, pending, driverVars, pc, callVars, verdict, history>>

PurgeEndIgnoresErrors ==
  /\ pc = "purge" /\ targets = {}
  /\ verdict' = "purged"
  /\ pc' = "cancelWatch"
  /\ UNCHANGED <<server, known, pending, driverVars, callVars, targets, errs, history>>

\* With an error must.Must panics, once the deferred calls have run.
PurgeEnd ==
  /\ pc = "purge" /\ targets = {}
  /\ verdict' = IF errs = {} THEN "purged" ELSE "failed"
  /\ pc' = "cancelWatch"
  /\ UNCHANGED <<server, known, pending, driverVars, callVars, targets, errs, history>>

\* The deferred calls: the watch is cancelled, then the driver is done.
CancelWatch ==
  /\ pc = "cancelWatch"
  /\ watching' = FALSE
  /\ pc' = "stopInformers"
  /\ UNCHANGED <<server, known, pending, started, halfway, pool, mirror, callVars,
                 purgeVars, history>>

StopInformers ==
  /\ pc = "stopInformers"
  /\ pc' = "clearWatchers"
  /\ UNCHANGED <<server, known, pending, driverVars, callVars, purgeVars, history>>

ClearWatchers ==
  /\ pc = "clearWatchers"
  /\ watching' = FALSE
  /\ pc' = "clearPool"
  /\ UNCHANGED <<server, known, pending, started, halfway, pool, mirror, callVars,
                 purgeVars, history>>

ClearPool ==
  /\ pc = "clearPool"
  /\ pool' = EmptyMap
  /\ started' = {}
  /\ pc' = "over"
  /\ UNCHANGED <<server, known, pending, halfway, watching, mirror, callVars, purgeVars, history>>

------------------------------------------------------------------------------
Finish ==
  \/ \E u \in targets : PurgeDelete(u)
  \/ PurgeEnd
  \/ CancelWatch
  \/ StopInformers
  \/ ClearWatchers
  \/ ClearPool

Operate ==
  \/ CheckNamespace
  \/ CreateObject
  \/ CreateConflict
  \/ PatchObject
  \/ CallRefused
  \/ CallFails
  \/ Adopt
  \/ DeleteCall

Document ==
  \/ Watch
  \/ InformOnWatched
  \/ \E k \in Managed : ApplyObject(k) \/ DeleteObject(k)
  \/ Operate
  \/ Preserve
  \/ DeleteAll
  \/ Finish

Handle(r) == HandleInPool(r) \/ NotifyWatcher(r)

\* After the run there is only the cluster left to move.
Over == pc = "over" /\ UNCHANGED vars

Next ==
  \/ Environment
  \/ \E r \in Resources : Inform(r) \/ Handle(r)
  \/ Document
  \/ Over

Spec == Init /\ [][Next]_vars

(***************************************************************************)
(* Fairness.  The Go scheduler runs every goroutine that can run; the      *)
(* server finishes the deletions it has accepted.  An informer's queue has *)
(* no bound in the code, so what it has to report is only ever held up by  *)
(* MaxPending here: hence strong fairness of observing and resyncing.      *)
(***************************************************************************)
ObserveKey(r, k) ==
  /\ Alive /\ ~Stopped /\ r \in started /\ k \in Watches[r]
  /\ Observe(r, k)
  /\ UNCHANGED <<server, driverVars, pc, callVars, purgeVars, history>>

ResyncKey(r, k) ==
  /\ Alive /\ ~Stopped /\ r \in started /\ k \in Watches[r]
  /\ Resync(r, k)
  /\ UNCHANGED <<server, driverVars, pc, callVars, purgeVars, history>>

Reclaim(k) == (Finalize(k) \/ Sweep(k)) /\ Environment

InformerFairness ==
  \A r \in Resources :
    /\ WF_vars(Handle(r))
    /\ \A k \in Keys : SF_vars(ObserveKey(r, k)) /\ SF_vars(ResyncKey(r, k))

\* The document's thread may stay where it is, waiting for a check.
WatchSpec == Spec /\ InformerFairness

\* The document's thread goes through with what it has begun.
RunSpec == Spec /\ WF_vars(Operate) /\ WF_vars(Finish) /\ \A k \in Keys : WF_vars(Reclaim(k))

------------------------------------------------------------------------------
(***************************************************************************)
(* Safety.                                                                 *)
(***************************************************************************)
\* The object is in the pool, or Apply is on its way to put it there.
InHand(u) ==
  \/ u \in DOMAIN pool
  \/ pc = "adopt" /\ u = UidOf(reply.key, reply.obj)

\* The driver loses no object: whatever this run created, and heard about, and
\* the server still holds, is in the pool or about to be put there, until Done
\* clears it.  A late delete event of an earlier incarnation must not drop it.
CreatedTracked ==
  pc # "over" => \A u \in created \ orphaned : Present(u) => InHand(u)

\* What an informer knows of is an incarnation that is, or was, the server's.
KnownPast ==
  \A r \in Resources, k \in Keys : known[r][k].inc <= server[k].inc

\* A delete event never lies: its incarnation is gone, for good.
DeletionsTrue ==
  \A r \in Resources : \A n \in 1 .. Len(pending[r]) :
    LET e == pending[r][n]
    IN  e.type = "delete" =>
          /\ e.obj.inc <= server[e.key].inc
          /\ ~Present(UidOf(e.key, e.obj))

\* The run has created nothing that the server has not had.
CreatedPast == \A u \in created : u[2] <= server[u[1]].inc

\* Why CreatedTracked holds in every step.
Tracking == KnownPast /\ DeletionsTrue /\ CreatedPast /\ CreatedTracked

\* DeleteAll leaves nothing behind: each object of the run that is still live
\* after it is one whose own deletion was answered with an error.
CleanupAttempted ==
  verdict \in {"purged", "failed"} =>
    \A u \in created \ orphaned : Live(u) => u \in errs

\* Why CleanupAttempted holds in every step: what DeleteAll has still to leave
\* behind is on its list, and once the run has a verdict it creates no more.
Cleaning ==
  /\ verdict # "running" =>
       pc \in {"cancelWatch", "stopInformers", "clearWatchers", "clearPool", "over"}
  /\ pc = "purge" =>
       \A u \in created \ orphaned : Live(u) => u \in targets \cup errs
  /\ CleanupAttempted

\* What the run of a document sees of the session.
SessionPhase ==
  IF pc = "purge" THEN "cleaning"
  ELSE [running |-> "open", purged |-> "clean", failed |-> "unclean", aborted |-> "ended",
        preserved |-> "ended", crashed |-> "ended"][verdict]

Held == {u \in created \ orphaned : Live(u)}

Promised ==
  INSTANCE Session WITH phase <- SessionPhase, made <- created \ orphaned, held <- Held,
                        failed <- errs

\* The driver implements Session: a run creates nothing more once DeleteAll has
\* copied the pool, and DeleteAll succeeds only if nothing of the run is left.
ImplementsSession == Promised!Spec

\* The Apply in progress has looked for the name of u in vain, and u came to be
\* only after that.
MadeSinceLookup(u) == unfound \in Uids /\ unfound[1] = u[1] /\ unfound[2] < u[2]

\* The Apply in progress has looked for k in vain; if it is there now, it was
\* made since.
MissingSince(k) ==
  /\ unfound \in Uids /\ unfound[1] = k
  /\ unfound[2] <= server[k].inc
  /\ Exists(server[k]) => unfound[2] < server[k].inc

\* Why OnlyMissingAdopted holds: under the name that applyObject did not find,
\* and then creates or patches, there is nothing that was there when it looked.
Owning ==
  /\ target \in Managed \cup {None}
  /\ pc \in {"create", "patch"} => current \in Managed \/ MissingSince(current)
  /\ pc = "adopt" => reply.key \in Managed \/ MadeSinceLookup(UidOf(reply.key, reply.obj))

\* No event makes Run's handlers panic: a removal always finds its path.
NoHandlerPanic == verdict # "crashed"

\* Whether a key that is in the mirror, or is not, is there when the first n
\* events of a queue have been handled.
MirroredAfter(there, queue, n, k) ==
  \/ there /\ \A i \in 1 .. n : ~(queue[i].key = k /\ Removes(queue[i]))
  \/ \E m \in 1 .. n :
       /\ queue[m].key = k /\ Stores(queue[m])
       /\ \A i \in (m + 1) .. n : ~(queue[i].key = k /\ Removes(queue[i]))

\* An informer has nothing to say of objects it does not watch.
OwnKeysOnly ==
  \A r \in Resources :
    /\ \A n \in 1 .. Len(pending[r]) : pending[r][n].key \in Watches[r]
    /\ \A k \in Keys : Exists(known[r][k]) => k \in Watches[r]

\* Each removal that is queued will find its path, and so would one of any
\* object that an informer knows.
RemovalsFind ==
  \A r \in Resources :
    /\ \A n \in 1 .. Len(pending[r]) :
         LET e == pending[r][n]
         IN  Removes(e) => MirroredAfter(e.key \in DOMAIN mirror, pending[r], n - 1, e.key)
    /\ \A k \in Keys :
         Exists(known[r][k]) => MirroredAfter(k \in DOMAIN mirror, pending[r], Len(pending[r]), k)

\* Why no handler panics where every key has one informer: no event comes
\* before the handlers are registered, so that they see every one.
Mirroring ==
  /\ pc = "start" => started = {} /\ \A r \in Resources : pending[r] = <<>>
  /\ OwnKeysOnly
  /\ watching \/ pc = "start" => RemovalsFind
  /\ NoHandlerPanic

\* Done forgets the adopted objects, and an event that arrives late, from an
\* informer that has not noticed yet, brings none of them back.
LateEventsIgnored == pc = "over" /\ Alive => DOMAIN pool = {}

\* An adopted object leaves the pool only when the server has dropped it, or
\* with the whole pool in Done.
AdoptedUntilGone ==
  [][\A u \in DOMAIN pool \ DOMAIN pool' : ~Present(u) \/ pc = "clearPool"]_vars

\* The driver takes over an object the document does not mention (the namespace
\* that applyObject creates) only if it was not there when this Apply looked for
\* it.  Somebody else may create it between the lookup and the create, which then
\* is a conflict; one that was there before is never adopted.
OnlyMissingAdopted ==
  [][\A u \in DOMAIN pool' \ DOMAIN pool : u[1] \in Managed \/ MadeSinceLookup(u)]_vars

\* Replies and events race to the pool; the copy in it never goes back to an
\* older generation.
GenerationMonotone ==
  [][\A u \in DOMAIN pool \cap DOMAIN pool' : pool'[u].gen >= pool[u].gen]_vars

------------------------------------------------------------------------------
(***************************************************************************)
(* Liveness.                                                               *)
(***************************************************************************)
MirrorAgrees(k) ==
  /\ k \in DOMAIN mirror <=> Exists(server[k])
  /\ k \in DOMAIN mirror => mirror[k] = server[k]

Mirrored(k) == watching /\ ResourceOf[k] \in started

\* While the document waits, data.resources comes to agree with the server.
MirrorConverges == \A k \in Keys : <>[](Mirrored(k) => MirrorAgrees(k))

\* The copy in the pool comes to be of the generation the server has, also
\* when the event overtook the reply that led to the adoption.
AdoptedCatchesUp ==
  \A u \in Uids : <>[](Mirrored(u[1]) /\ u \in DOMAIN pool /\ Present(u) =>
                       pool[u].gen = server[u[1]].gen)

\* Cleanup finishes: once it has begun, every object of the run is gone for
\* good, but for those whose deletion was answered with an error.
CleanupCompletes ==
  pc = "purge" ~> pc = "over" /\ \A u \in created \ orphaned : Present(u) => u \in errs

------------------------------------------------------------------------------
(***************************************************************************)
(* What the repository says and this does not bear out.                    *)
(***************************************************************************)
\* runner.go asserts that DeleteAll succeeds, when the server refuses nothing.
DeleteAllSucceeds == verdict # "failed"

\* The pool's copy of an adopted object is updated when the object changes.
AdoptedFollowsChanges ==
  \A u \in Uids : <>[](Mirrored(u[1]) /\ u \in DOMAIN pool /\ Present(u) =>
                       pool[u].rev = server[u[1]].rev)

\* An object that was deleted does not stay in data.resources.
DeletedUnpublished ==
  \A k \in Keys :
    k \in DOMAIN mirror /\ ~Exists(server[k]) ~>
      k \notin DOMAIN mirror \/ Exists(server[k]) \/ ~watching

==============================================================================
