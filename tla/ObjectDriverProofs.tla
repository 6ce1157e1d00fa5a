-------------------------- MODULE ObjectDriverProofs --------------------------
(***************************************************************************)
(* Theorems about ObjectDriver.                                            *)
(***************************************************************************)
EXTENDS ObjectDriver, TLAPS

------------------------------------------------------------------------------
(***************************************************************************)
(* The operators that make the next state of an object.                    *)
(***************************************************************************)
\* An object that is gone, being deleted or created anew is an object.
LEMMA ObjectOperators ==
  /\ Unseen \in Object
  /\ \A o \in Object : Gone(o) \in Object /\ Terminated(o) \in Object
  /\ \A o \in Object : o.inc < MaxInc => Fresh(o) \in Object
  /\ \A k \in Keys, o \in Object, spec \in BOOLEAN :
       o.rev < MaxRev => Written(k, o, spec) \in Object
<1>1. Unseen \in Object
  BY ClusterAssumption DEF Object, Phases, Unseen
<1>2. ASSUME NEW o \in Object
      PROVE  Gone(o) \in Object /\ Terminated(o) \in Object
  <2>1. Gone(o) \in Object
    BY ClusterAssumption DEF Object, Phases, Gone
  <2>2. Terminated(o) \in Object
    BY ClusterAssumption DEF Object, Phases, Terminated
  <2> QED BY <2>1, <2>2
<1>3. ASSUME NEW o \in Object, o.inc < MaxInc
      PROVE  Fresh(o) \in Object
  BY <1>3, ClusterAssumption DEF Object, Phases, Fresh
<1>4. ASSUME NEW k \in Keys, NEW o \in Object, NEW spec \in BOOLEAN, o.rev < MaxRev
      PROVE  Written(k, o, spec) \in Object
  <2>1. [o EXCEPT !.rev = @ + 1, !.gen = @ + 1] \in Object
    <3> DEFINE p == [o EXCEPT !.rev = @ + 1, !.gen = @ + 1]
    <3>1. o.gen + 1 \in 0 .. MaxRev /\ o.rev + 1 \in 0 .. MaxRev /\ o.gen + 1 <= o.rev + 1
      BY <1>4, ClusterAssumption DEF Object
    <3>2. p \in [phase : Phases, inc : 0 .. MaxInc, gen : 0 .. MaxRev, rev : 0 .. MaxRev]
      BY <3>1 DEF Object
    <3>3. p.gen = o.gen + 1 /\ p.rev = o.rev + 1
      BY DEF Object
    <3> QED BY <3>1, <3>2, <3>3 DEF Object
  <2>2. [o EXCEPT !.rev = @ + 1] \in Object
    BY <1>4, ClusterAssumption DEF Object
  <2> QED BY <2>1, <2>2, Zenon DEF Written
<1> QED BY <1>1, <1>2, <1>3, <1>4

\* The next event of a queue, and the rest of it.
LEMMA EventQueue ==
  ASSUME NEW q \in Seq(Event), q # <<>>
  PROVE  /\ Head(q) \in Event
         /\ Tail(q) \in Seq(Event)
         /\ Head(q).key \in Keys /\ Head(q).obj \in Object
         /\ UidOf(Head(q).key, Head(q).obj) \in Uids
<1>1. Head(q) \in Event /\ Tail(q) \in Seq(Event)
  OBVIOUS
<1>2. Head(q).key \in Keys /\ Head(q).obj \in Object
  BY <1>1 DEF Event
<1> QED BY <1>1, <1>2 DEF UidOf, Uids, Object

------------------------------------------------------------------------------
(***************************************************************************)
(* Type correctness.                                                       *)
(***************************************************************************)
LEMMA ClusterStep ==
  ASSUME ClusterTypeOK, ClusterNext
  PROVE  ClusterTypeOK'
<1>1. PICK k \in Keys :
        \/ ControllerWrite(k)
        \/ Finalize(k)
        \/ Sweep(k)
        \/ ForeignCreate(k)
        \/ ForeignDelete(k)
  BY DEF ClusterNext
<1>2. server[k] \in Object
  BY DEF ClusterTypeOK
<1>3. CASE ControllerWrite(k)
  BY <1>2, <1>3, ObjectOperators DEF ControllerWrite, ClusterTypeOK
<1>4. CASE Finalize(k)
  BY <1>2, <1>4, ObjectOperators DEF Finalize, ClusterTypeOK
<1>5. CASE Sweep(k)
  BY <1>2, <1>5, ObjectOperators DEF Sweep, ClusterTypeOK
<1>6. CASE ForeignCreate(k)
  <2>1. server[k].inc < MaxInc
    BY <1>2, <1>6, ClusterAssumption DEF ForeignCreate, Object
  <2> QED BY <1>2, <1>6, <2>1, ObjectOperators DEF ForeignCreate, ClusterTypeOK
<1>7. CASE ForeignDelete(k)
  BY <1>2, <1>7, ObjectOperators DEF ForeignDelete, ClusterTypeOK
<1> QED BY <1>1, <1>3, <1>4, <1>5, <1>6, <1>7

\* An event is queued with the object as the informer saw it.
LEMMA QueueTyped ==
  ASSUME InformersTypeOK, NEW r \in Resources, NEW t \in EventTypes,
         NEW k \in Keys, NEW o \in Object, Queue(r, t, k, o)
  PROVE  /\ pending' \in [Resources -> Seq(Event)]
         /\ \A q \in Resources : pending[q] # <<>> => pending'[q] # <<>>
<1>1. [type |-> t, key |-> k, obj |-> o] \in Event
  BY DEF Event
<1>2. pending[r] \in Seq(Event)
  BY DEF InformersTypeOK
<1>3. /\ Append(pending[r], [type |-> t, key |-> k, obj |-> o]) \in Seq(Event)
      /\ Append(pending[r], [type |-> t, key |-> k, obj |-> o]) # <<>>
  BY <1>1, <1>2
<1> QED BY <1>3 DEF Queue, InformersTypeOK

\* An informer only adds to its queue.
LEMMA InformStep ==
  ASSUME ClusterTypeOK, InformersTypeOK, NEW r \in Resources, Inform(r)
  PROVE  /\ InformersTypeOK'
         /\ \A q \in Resources : pending[q] # <<>> => pending'[q] # <<>>
<1>1. PICK k \in Watches[r] : Observe(r, k) \/ Resync(r, k)
  BY DEF Inform
<1>2. k \in Keys
  BY <1>1, InformersAssumption
<1>3. server[k] \in Object /\ known[r][k] \in Object /\ Gone(known[r][k]) \in Object
  BY <1>2, ObjectOperators DEF ClusterTypeOK, InformersTypeOK
<1>4. See(r, k) => known' \in [Resources -> [Keys -> Object]]
  BY <1>2, <1>3 DEF See, InformersTypeOK
<1>5. Forget(r, k) => known' \in [Resources -> [Keys -> Object]]
  BY <1>2, <1>3 DEF Forget, InformersTypeOK
<1>6. CASE ObserveAdd(r, k)
  BY <1>2, <1>3, <1>4, <1>6, QueueTyped DEF ObserveAdd, InformersTypeOK, EventTypes
<1>7. CASE ObserveUpdate(r, k)
  BY <1>2, <1>3, <1>4, <1>7, QueueTyped DEF ObserveUpdate, InformersTypeOK, EventTypes
<1>8. CASE ObserveDelete(r, k)
  BY <1>2, <1>3, <1>5, <1>8, QueueTyped DEF ObserveDelete, InformersTypeOK, EventTypes
<1>9. CASE ObserveTombstone(r, k)
  BY <1>2, <1>3, <1>5, <1>9, QueueTyped DEF ObserveTombstone, InformersTypeOK, EventTypes
<1>10. CASE ObserveReplaced(r, k)
  BY <1>2, <1>3, <1>4, <1>10, QueueTyped DEF ObserveReplaced, InformersTypeOK, EventTypes
<1>11. CASE Resync(r, k)
  BY <1>2, <1>3, <1>11, QueueTyped DEF Resync, InformersTypeOK, EventTypes
<1> QED BY <1>1, <1>6, <1>7, <1>8, <1>9, <1>10, <1>11 DEF Observe

\* What a handler does to the pool keeps it a pool.
LEMMA PoolTyped ==
  ASSUME TypeOK, NEW u \in Uids, NEW o \in Object,
         NEW p, p \in {UpdateAdopted(u, o), Tracked(u, o), DropAdopted(u)}
  PROVE  DOMAIN p \subseteq Uids /\ \A w \in DOMAIN p : p[w] \in Object
<1>1. p \in {pool, With(pool, u, o), DropAdopted(u)}
  BY Zenon DEF UpdateAdopted, Tracked
<1>2. CASE p = pool
  BY <1>2 DEF TypeOK
<1>3. CASE p = DropAdopted(u)
  BY <1>3 DEF TypeOK, DropAdopted, Without, Restrict
<1>4. CASE p = With(pool, u, o)
  BY <1>4 DEF TypeOK, With
<1> QED BY <1>1, <1>2, <1>3, <1>4

\* The driver's own function of an informer.
LEMMA HandleInPoolTyped ==
  ASSUME TypeOK, NEW r \in Resources, HandleInPool(r)
  PROVE  TypeOK'
<1> DEFINE e == Head(pending[r])
           u == UidOf(e.key, e.obj)
<1>1. pending[r] \in Seq(Event) /\ pending[r] # <<>>
  BY DEF TypeOK, InformersTypeOK, HandleInPool
<1>2. e.obj \in Object /\ u \in Uids
  BY <1>1, EventQueue
<1>3. pool' \in {UpdateAdopted(u, e.obj), DropAdopted(u), pool}
  BY DEF HandleInPool
<1>4. DOMAIN pool' \subseteq Uids /\ \A w \in DOMAIN pool' : pool'[w] \in Object
  <2>1. CASE pool' = pool
    BY <2>1 DEF TypeOK
  <2>2. CASE pool' \in {UpdateAdopted(u, e.obj), Tracked(u, e.obj), DropAdopted(u)}
    BY <1>2, <2>2, PoolTyped
  <2> QED BY <1>3, <2>1, <2>2
<1>5. halfway' \subseteq Resources /\ \A q \in halfway' : pending'[q] # <<>>
  BY <1>1 DEF TypeOK, HandleInPool
<1> QED BY <1>4, <1>5 DEF TypeOK, ClusterTypeOK, InformersTypeOK, HandleInPool, callVars, purgeVars, history

\* The functions that Run registered.
LEMMA NotifyWatcherTyped ==
  ASSUME TypeOK, NEW r \in Resources, NotifyWatcher(r)
  PROVE  TypeOK'
<1> DEFINE e == Head(pending[r])
<1>1. pending[r] \in Seq(Event) /\ pending[r] # <<>>
  BY DEF TypeOK, InformersTypeOK, NotifyWatcher
<1>2. e.key \in Keys /\ e.obj \in Object /\ Tail(pending[r]) \in Seq(Event)
  BY <1>1, EventQueue
<1>3. mirror' = mirror \/ mirror' = With(mirror, e.key, e.obj) \/ mirror' = Without(mirror, e.key)
  BY DEF NotifyWatcher
<1>4. DOMAIN mirror' \subseteq Keys /\ \A k \in DOMAIN mirror' : mirror'[k] \in Object
  BY <1>2, <1>3 DEF TypeOK, With, Without, Restrict
<1>5. pending' \in [Resources -> Seq(Event)]
  BY <1>2 DEF TypeOK, InformersTypeOK, NotifyWatcher
<1>6. halfway' \subseteq Resources /\ \A q \in halfway' : pending'[q] # <<>>
  BY DEF TypeOK, InformersTypeOK, NotifyWatcher
<1>7. \/ pc' = pc /\ verdict' = verdict
      \/ pc' = "over" /\ verdict' = "crashed"
  BY DEF NotifyWatcher
<1>8. pc' \in Steps /\ verdict' \in Verdicts /\ (pc' = "adopt" => pc = "adopt")
  BY <1>7 DEF TypeOK, Steps, Verdicts
<1> QED BY <1>4, <1>5, <1>6, <1>8
    DEF TypeOK, ClusterTypeOK, InformersTypeOK, NotifyWatcher, callVars, history

\* The server after a deletion.
LEMMA DeletedTyped ==
  ASSUME TypeOK, NEW k \in Keys
  PROVE  Deleted(k) \in [Keys -> Object]
<1>1. Terminated(server[k]) \in Object
  BY ObjectOperators DEF TypeOK, ClusterTypeOK
<1> QED BY <1>1 DEF Deleted, TypeOK, ClusterTypeOK

\* The steps of the document's thread, one by one.
LEMMA DocumentTyped ==
  ASSUME TypeOK, Document
  PROVE  TypeOK'
<1> USE ClusterAssumption, ObjectDriverAssumption
<1>1. CASE Watch
  BY <1>1 DEF Watch, TypeOK, ClusterTypeOK, InformersTypeOK, Steps, Verdicts,
      driverVars, callVars, purgeVars, history
<1>2. CASE InformOnWatched
  BY <1>2 DEF InformOnWatched, TypeOK, ClusterTypeOK, InformersTypeOK, Steps, Verdicts,
      driverVars, callVars, purgeVars, history
<1>3. CASE \E k \in Managed : ApplyObject(k)
  BY <1>3 DEF ApplyObject, BeginApply, TypeOK, ClusterTypeOK, InformersTypeOK, Steps, Verdicts,
      driverVars, callVars, purgeVars, history
<1>4. CASE \E k \in Managed : DeleteObject(k)
  BY <1>4 DEF DeleteObject, Adopted, TypeOK, ClusterTypeOK, InformersTypeOK, Steps, Verdicts,
      driverVars, callVars, purgeVars, history
<1>5. CASE CheckNamespace
  <2>1. target \in Keys /\ NamespaceOf[target] \in Keys
    BY <1>5 DEF CheckNamespace, TypeOK
  <2>2. current' \in Keys /\ started' \subseteq Resources /\ pc' = "create"
    BY <1>5, <2>1 DEF CheckNamespace, BeginApply, TypeOK
  <2>3. unfound' \in Uids \cup {None}
    BY <1>5, <2>1 DEF CheckNamespace, TypeOK, ClusterTypeOK, UidOf, Uids, Object
  <2> QED BY <1>5, <2>1, <2>2, <2>3 DEF CheckNamespace, TypeOK, ClusterTypeOK, InformersTypeOK,
      Steps, Verdicts, driverVars, callVars, purgeVars, history
<1>6. CASE CreateObject
  <2>1. current \in Keys /\ server[current] \in Object /\ server[current].inc < MaxInc
    BY <1>6 DEF CreateObject, Creatable, TypeOK, ClusterTypeOK, Object
  <2>2. Fresh(server[current]) \in Object
    BY <2>1, ObjectOperators
  <2>3. server' \in [Keys -> Object] /\ server'[current] = Fresh(server[current])
    BY <1>6, <2>1, <2>2 DEF CreateObject, TypeOK, ClusterTypeOK
  <2>4. UidOf(current, server'[current]) \in Uids
    BY <2>1, <2>2, <2>3 DEF UidOf, Uids, Object
  <2>5. [key |-> current, obj |-> server'[current]] \in Reply
    BY <2>1, <2>2, <2>3 DEF Reply
  <2>6. created' \subseteq Uids /\ orphaned' \subseteq created'
    BY <1>6, <2>4 DEF CreateObject, TypeOK
  <2>7. /\ pc' \in {"adopt", "fatal"}
        /\ reply' \in Reply \cup {None}
        /\ pc' = "adopt" => reply' = [key |-> current, obj |-> server'[current]]
    BY <1>6, <2>5 DEF CreateObject, Answered, LoseReply, TypeOK
  <2> QED BY <1>6, <2>3, <2>5, <2>6, <2>7 DEF CreateObject, TypeOK, ClusterTypeOK, InformersTypeOK, Steps, Verdicts,
      driverVars, callVars, purgeVars, history
<1>7. CASE CreateConflict
  BY <1>7 DEF CreateConflict, TypeOK, ClusterTypeOK, InformersTypeOK, Steps, Verdicts,
      driverVars, callVars, purgeVars, history
<1>8. CASE PatchObject
  <2>1. current \in Keys /\ server[current] \in Object
    BY <1>8 DEF PatchObject, TypeOK, ClusterTypeOK
  <2>2. server[current].rev < MaxRev => Written(current, server[current], TRUE) \in Object
    BY <2>1, ObjectOperators
  <2>3. server' \in [Keys -> Object]
    BY <1>8, <2>1, <2>2 DEF PatchObject, TypeOK, ClusterTypeOK
  <2>4. [key |-> current, obj |-> server'[current]] \in Reply
    BY <2>1, <2>3 DEF Reply
  <2>5. /\ pc' \in {"adopt", "fatal"}
        /\ reply' \in Reply \cup {None}
        /\ pc' = "adopt" => reply' = [key |-> current, obj |-> server'[current]]
    BY <1>8, <2>4 DEF PatchObject, Answered, LoseReply, TypeOK
  <2> QED BY <1>8, <2>3, <2>4, <2>5 DEF PatchObject, TypeOK, ClusterTypeOK, InformersTypeOK, Steps, Verdicts,
      driverVars, callVars, purgeVars, history
<1>9. CASE CallRefused
  BY <1>9 DEF CallRefused, TypeOK, ClusterTypeOK, InformersTypeOK, Steps, Verdicts,
      driverVars, callVars, purgeVars, history
<1>10. CASE CallFails
  BY <1>10 DEF CallFails, TypeOK, ClusterTypeOK, InformersTypeOK, Steps, Verdicts,
      driverVars, callVars, purgeVars, history
<1>11. CASE Adopt
  <2> DEFINE u == UidOf(reply.key, reply.obj)
  <2>1. reply.obj \in Object /\ u \in Uids
    BY <1>11 DEF Adopt, TypeOK, Reply, UidOf, Uids, Object
  <2>2. pool' = Tracked(u, reply.obj)
    BY <1>11 DEF Adopt
  <2>3. DOMAIN pool' \subseteq Uids /\ \A w \in DOMAIN pool' : pool'[w] \in Object
    BY <2>1, <2>2, PoolTyped
  <2> QED BY <1>11, <2>3 DEF Adopt, BeginApply, TypeOK, ClusterTypeOK, InformersTypeOK, Steps, Verdicts,
      driverVars, callVars, purgeVars, history
<1>12. CASE DeleteCall
  <2>1. target \in Keys
    BY <1>12 DEF DeleteCall, TypeOK
  <2>2. server' \in [Keys -> Object]
    BY <1>12, <2>1, DeletedTyped DEF DeleteCall, TypeOK
  <2> QED BY <1>12, <2>2 DEF DeleteCall, LoseReply, TypeOK, ClusterTypeOK, InformersTypeOK, Steps, Verdicts,
      driverVars, callVars, purgeVars, history
<1>13. CASE Preserve
  BY <1>13 DEF Preserve, TypeOK, ClusterTypeOK, InformersTypeOK, Steps, Verdicts,
      driverVars, callVars, purgeVars, history
<1>14. CASE DeleteAll
  BY <1>14 DEF DeleteAll, TypeOK, ClusterTypeOK, InformersTypeOK, Steps, Verdicts,
      driverVars, callVars, purgeVars, history
<1>15. CASE \E u \in targets : PurgeDelete(u)
  <2>1. PICK u \in targets : PurgeDelete(u)
    BY <1>15
  <2>2. u \in Uids /\ u[1] \in Keys
    BY <2>1 DEF TypeOK, Uids
  <2>3. server' = server \/ server' = Deleted(u[1])
    BY <2>1 DEF PurgeDelete
  <2>4. server' \in [Keys -> Object]
    BY <2>2, <2>3, DeletedTyped DEF TypeOK, ClusterTypeOK
  <2>5. errs' = errs \/ errs' = errs \cup {u}
    BY <2>1 DEF PurgeDelete
  <2> QED BY <2>1, <2>2, <2>4, <2>5 DEF PurgeDelete, TypeOK, ClusterTypeOK, InformersTypeOK, Steps, Verdicts,
      driverVars, callVars, purgeVars, history
<1>16. CASE PurgeEnd
  BY <1>16 DEF PurgeEnd, TypeOK, ClusterTypeOK, InformersTypeOK, Steps, Verdicts,
      driverVars, callVars, purgeVars, history
<1>17. CASE CancelWatch
  BY <1>17 DEF CancelWatch, TypeOK, ClusterTypeOK, InformersTypeOK, Steps, Verdicts,
      driverVars, callVars, purgeVars, history
<1>18. CASE StopInformers
  BY <1>18 DEF StopInformers, TypeOK, ClusterTypeOK, InformersTypeOK, Steps, Verdicts,
      driverVars, callVars, purgeVars, history
<1>19. CASE ClearWatchers
  BY <1>19 DEF ClearWatchers, TypeOK, ClusterTypeOK, InformersTypeOK, Steps, Verdicts,
      driverVars, callVars, purgeVars, history
<1>20. CASE ClearPool
  BY <1>20 DEF ClearPool, EmptyMap, TypeOK, ClusterTypeOK, InformersTypeOK, Steps, Verdicts,
      driverVars, callVars, purgeVars, history
<1> QED BY <1>1, <1>2, <1>3, <1>4, <1>5, <1>6, <1>7, <1>8, <1>9, <1>10, <1>11, <1>12, <1>13, <1>14, <1>15, <1>16, <1>17, <1>18, <1>19, <1>20 DEF Document, Operate, Finish

\* TypeOK is inductive.
LEMMA StepTyped ==
  ASSUME TypeOK, [Next]_vars
  PROVE  TypeOK'
<1>1. CASE Environment
  <2>1. ClusterTypeOK'
    BY <1>1, ClusterStep DEF TypeOK, Environment
  <2> QED BY <1>1, <2>1 DEF Environment, TypeOK, InformersTypeOK, driverVars, callVars,
      purgeVars, history
<1>2. ASSUME NEW r \in Resources, Inform(r)
      PROVE  TypeOK'
  <2>1. InformersTypeOK'
    BY <1>2, InformStep DEF TypeOK
  <2>2. \A q \in halfway' : pending'[q] # <<>>
    BY <1>2, InformStep DEF TypeOK, Inform, driverVars
  <2> QED BY <1>2, <2>1, <2>2 DEF Inform, TypeOK, ClusterTypeOK, driverVars, callVars,
      purgeVars, history
<1>3. ASSUME NEW r \in Resources, Handle(r)
      PROVE  TypeOK'
  BY <1>3, HandleInPoolTyped, NotifyWatcherTyped DEF Handle
<1>4. CASE Document
  BY <1>4, DocumentTyped
<1>5. CASE UNCHANGED vars
  BY <1>5 DEF vars, TypeOK, ClusterTypeOK, InformersTypeOK, driverVars, callVars, purgeVars, history
<1> QED BY <1>1, <1>2, <1>3, <1>4, <1>5 DEF Next, Over

\* The state keeps its types, and no step of the document's thread lacks the
\* object, namespace or reply it works on (runner.go Run, object.go Apply).
THEOREM TypeCorrect == Spec => []TypeOK
<1>1. Init => TypeOK
  <2> SUFFICES ASSUME Init PROVE TypeOK
    OBVIOUS
  <2>1. Unseen.inc < MaxInc
    BY ClusterAssumption DEF Unseen
  <2>2. Fresh(Unseen) \in Object /\ Unseen \in Object
    BY <2>1, ObjectOperators
  <2>3. ClusterTypeOK
    BY <2>2 DEF Init, ClusterInit, ClusterTypeOK
  <2>4. InformersTypeOK
    BY <2>2 DEF Init, InformersInit, InformersTypeOK
  <2>5. DOMAIN pool = {} /\ DOMAIN mirror = {}
    BY DEF Init, EmptyMap
  <2> QED BY <2>3, <2>4, <2>5 DEF Init, TypeOK, Steps, Verdicts
<1>2. TypeOK /\ [Next]_vars => TypeOK'
  BY StepTyped
<1> QED BY <1>1, <1>2, PTL DEF Spec

------------------------------------------------------------------------------
(***************************************************************************)
(* The server only moves forward: an incarnation that is gone stays gone,  *)
(* and one that is being deleted does not come back to life.               *)
(***************************************************************************)
Follows(o, p) ==
  /\ o.inc <= p.inc
  /\ p.inc = o.inc /\ Exists(p) => Exists(o)
  /\ p.inc = o.inc /\ p.phase = "live" => o.phase = "live"

\* Every operator that makes the next state of an object moves it forward.
LEMMA OperatorsFollow ==
  ASSUME NEW o \in Object
  PROVE  /\ Follows(o, o)
         /\ Follows(o, Gone(o))
         /\ Follows(o, Fresh(o))
         /\ Exists(o) => Follows(o, Terminated(o))
         /\ \A k \in Keys, spec \in BOOLEAN : Exists(o) => Follows(o, Written(k, o, spec))
<1>1. o.inc \in Nat
  BY ClusterAssumption DEF Object
<1>2. Gone(o).inc = o.inc /\ ~Exists(Gone(o)) /\ Gone(o).phase = "absent"
  BY DEF Gone, Exists
<1>3. Fresh(o).inc = o.inc + 1
  BY DEF Fresh
<1>4. Terminated(o).inc = o.inc /\ Terminated(o).phase = "terminating"
  BY DEF Terminated, Object
<1>5. \A k \in Keys, spec \in BOOLEAN :
        Written(k, o, spec).inc = o.inc /\ Written(k, o, spec).phase = o.phase
  <2> TAKE k \in Keys, spec \in BOOLEAN
  <2>1. /\ [o EXCEPT !.rev = @ + 1, !.gen = @ + 1].inc = o.inc
        /\ [o EXCEPT !.rev = @ + 1].inc = o.inc
        /\ [o EXCEPT !.rev = @ + 1, !.gen = @ + 1].phase = o.phase
        /\ [o EXCEPT !.rev = @ + 1].phase = o.phase
    BY DEF Object
  <2> QED BY <2>1, Zenon DEF Written
<1> QED BY <1>1, <1>2, <1>3, <1>4, <1>5 DEF Follows

\* One step of anybody moves every object forward.
LEMMA ServerForward ==
  ASSUME TypeOK, [Next]_vars
  PROVE  \A k \in Keys : Follows(server[k], server'[k])
<1> DEFINE Sets(k, o) == server' = [server EXCEPT ![k] = o]
<1>1. ASSUME NEW k \in Keys, NEW o, Follows(server[k], o), Sets(k, o)
      PROVE  \A j \in Keys : Follows(server[j], server'[j])
  BY <1>1, OperatorsFollow DEF TypeOK, ClusterTypeOK
<1>2. CASE UNCHANGED server
  BY <1>2, OperatorsFollow DEF TypeOK, ClusterTypeOK
<1>3. ASSUME NEW k \in Keys, server' = Deleted(k)
      PROVE  \A j \in Keys : Follows(server[j], server'[j])
  <2>1. CASE server[k].phase = "live"
    <3>1. Follows(server[k], Terminated(server[k]))
      BY <2>1, OperatorsFollow DEF TypeOK, ClusterTypeOK, Exists
    <3> QED BY <1>1, <1>3, <2>1, <3>1 DEF Deleted
  <2>2. CASE server[k].phase # "live"
    BY <1>2, <1>3, <2>2 DEF Deleted
  <2> QED BY <2>1, <2>2
<1>4. CASE Environment
  <2>1. PICK k \in Keys :
          \/ ControllerWrite(k)
          \/ Finalize(k)
          \/ Sweep(k)
          \/ ForeignCreate(k)
          \/ ForeignDelete(k)
    BY <1>4 DEF Environment, ClusterNext
  <2>2. server[k] \in Object
    BY DEF TypeOK, ClusterTypeOK
  <2>3. PICK o : Sets(k, o) /\ Follows(server[k], o)
    <3>1. CASE ControllerWrite(k)
      <4>1. PICK spec \in BOOLEAN : Sets(k, Written(k, server[k], spec))
        BY <3>1 DEF ControllerWrite
      <4>2. Follows(server[k], Written(k, server[k], spec))
        BY <2>2, <3>1, OperatorsFollow, Zenon DEF ControllerWrite
      <4> QED BY <4>1, <4>2
    <3>2. CASE Finalize(k)
      BY <2>2, <3>2, OperatorsFollow DEF Finalize
    <3>3. CASE Sweep(k)
      BY <2>2, <3>3, OperatorsFollow DEF Sweep, Exists
    <3>4. CASE ForeignCreate(k)
      BY <2>2, <3>4, OperatorsFollow DEF ForeignCreate
    <3>5. CASE ForeignDelete(k)
      BY <2>2, <3>5, OperatorsFollow DEF ForeignDelete, Exists
    <3> QED BY <2>1, <3>1, <3>2, <3>3, <3>4, <3>5
  <2> QED BY <1>1, <2>3
<1>5. CASE CreateObject
  BY <1>1, <1>5, OperatorsFollow DEF CreateObject, TypeOK, ClusterTypeOK
<1>6. CASE PatchObject
  <2>1. current \in Keys /\ server[current] \in Object
    BY <1>6 DEF PatchObject, TypeOK, ClusterTypeOK
  <2>2. Follows(server[current], Written(current, server[current], TRUE))
    BY <1>6, <2>1, OperatorsFollow, Zenon DEF PatchObject
  <2> QED BY <1>1, <1>2, <1>6, <2>1, <2>2 DEF PatchObject
<1>7. CASE DeleteCall
  BY <1>3, <1>7 DEF DeleteCall, TypeOK
<1>8. CASE \E u \in targets : PurgeDelete(u)
  <2>1. PICK u \in targets : PurgeDelete(u)
    BY <1>8
  <2>2. u[1] \in Keys /\ (server' = server \/ server' = Deleted(u[1]))
    BY <2>1 DEF PurgeDelete, TypeOK, Uids
  <2> QED BY <1>2, <1>3, <2>2
<1>9. CASE UNCHANGED vars
  BY <1>2, <1>9 DEF vars
<1>10. CASE \E r \in Resources : Inform(r) \/ Handle(r)
  BY <1>2, <1>10 DEF Inform, Handle, HandleInPool, NotifyWatcher
<1>11. CASE \/ Watch \/ InformOnWatched \/ CheckNamespace \/ CreateConflict
            \/ CallRefused \/ CallFails \/ Adopt \/ Preserve \/ DeleteAll
            \/ PurgeEnd \/ CancelWatch \/ StopInformers \/ ClearWatchers \/ ClearPool
            \/ \E k \in Managed : ApplyObject(k) \/ DeleteObject(k)
  BY <1>2, <1>11 DEF Watch, InformOnWatched, CheckNamespace, CreateConflict, CallRefused,
     CallFails, Adopt, Preserve, DeleteAll, PurgeEnd, CancelWatch, StopInformers,
     ClearWatchers, ClearPool, ApplyObject, DeleteObject
<1> QED BY <1>4, <1>5, <1>6, <1>7, <1>8, <1>9, <1>10, <1>11
    DEF Next, Document, Operate, Finish, Over

\* What is gone stays gone: a UID of the past is not present again.
LEMMA GoneForGood ==
  ASSUME TypeOK, [Next]_vars, NEW u \in Uids, u[2] <= server[u[1]].inc
  PROVE  /\ u[2] <= server'[u[1]].inc
         /\ Present(u)' => Present(u)
         /\ Live(u)' => Live(u)
<1>1. u[1] \in Keys /\ u[2] \in Nat
  BY ClusterAssumption DEF Uids
<1>2. server[u[1]] \in Object /\ server'[u[1]] \in Object
  BY <1>1, StepTyped DEF TypeOK, ClusterTypeOK
<1>3. server[u[1]].inc \in Nat /\ server'[u[1]].inc \in Nat
  BY <1>2, ClusterAssumption DEF Object
<1>4. Follows(server[u[1]], server'[u[1]])
  BY <1>1, ServerForward
<1>5. server[u[1]].phase = "live" => Exists(server[u[1]])
  BY DEF Exists
<1> QED BY <1>1, <1>3, <1>4, <1>5 DEF Follows, Present, Live

------------------------------------------------------------------------------
(***************************************************************************)
(* The pool loses nothing: Tracking is inductive.                          *)
(***************************************************************************)
\* The steps that move an informer's index or queue.
LEMMA InformersUnchanged ==
  ASSUME [Next]_vars, \A r \in Resources : ~Inform(r)
  PROVE  /\ UNCHANGED known
         /\ UNCHANGED pending \/ \E r \in Resources : NotifyWatcher(r)
<1>1. CASE Environment \/ UNCHANGED vars
  BY <1>1 DEF Environment, vars
<1>2. CASE \E r \in Resources : Handle(r)
  BY <1>2 DEF Handle, HandleInPool, NotifyWatcher
<1>3. CASE Document
  BY <1>3 DEF Document, Operate, Finish, Watch, InformOnWatched, ApplyObject, DeleteObject,
     CheckNamespace, CreateObject, CreateConflict, PatchObject, CallRefused, CallFails, Adopt,
     DeleteCall, Preserve, DeleteAll, PurgeDelete, PurgeEnd, CancelWatch, StopInformers,
     ClearWatchers, ClearPool
<1> QED BY <1>1, <1>2, <1>3 DEF Next, Over

\* An informer knows only of incarnations the server has, or had.
LEMMA KnownPastStep ==
  ASSUME TypeOK, KnownPast, [Next]_vars
  PROVE  KnownPast'
<1>1. ASSUME NEW k \in Keys
      PROVE  /\ server[k].inc \in Nat /\ server'[k].inc \in Nat
             /\ server[k].inc <= server'[k].inc
  <2>1. server[k] \in Object /\ server'[k] \in Object
    BY StepTyped DEF TypeOK, ClusterTypeOK
  <2>2. Follows(server[k], server'[k])
    BY ServerForward
  <2> QED BY <2>1, <2>2, ClusterAssumption DEF Object, Follows
<1>2. ASSUME NEW r \in Resources, NEW k \in Keys
      PROVE  known[r][k].inc \in Nat /\ known[r][k].inc <= server[k].inc
  BY ClusterAssumption DEF TypeOK, InformersTypeOK, Object, KnownPast
<1>3. ASSUME NEW r \in Resources, Inform(r)
      PROVE  KnownPast'
  <2>1. PICK k \in Watches[r] : Observe(r, k) \/ Resync(r, k)
    BY <1>3 DEF Inform
  <2>2. k \in Keys /\ server' = server
    BY <1>3, InformersAssumption DEF Inform
  <2>3. See(r, k) \/ Forget(r, k) \/ UNCHANGED known
    BY <2>1 DEF Observe, ObserveAdd, ObserveUpdate, ObserveDelete, ObserveTombstone,
       ObserveReplaced, Resync
  <2>4. \A q \in Resources, j \in Keys :
          known'[q][j].inc = known[q][j].inc \/ known'[q][j] = server[j]
    <3>1. CASE See(r, k)
      BY <2>2, <3>1 DEF See, TypeOK, InformersTypeOK
    <3>2. CASE Forget(r, k)
      <4>1. Gone(known[r][k]).inc = known[r][k].inc
        BY DEF Gone
      <4> QED BY <2>2, <3>2, <4>1 DEF Forget, TypeOK, InformersTypeOK
    <3> QED BY <2>3, <3>1, <3>2
  <2> QED BY <1>1, <1>2, <2>2, <2>4 DEF KnownPast
<1>4. CASE \A r \in Resources : ~Inform(r)
  BY <1>1, <1>2, <1>4, InformersUnchanged DEF KnownPast
<1> QED BY <1>3, <1>4

\* What an event says of a deletion is true, and stays true.
TrueDeletion(e) ==
  e.type = "delete" => /\ e.obj.inc <= server[e.key].inc
                       /\ ~Present(UidOf(e.key, e.obj))

\* A deletion that is true stays true, since no incarnation comes back.
LEMMA TrueDeletionStep ==
  ASSUME TypeOK, [Next]_vars, NEW e \in Event, TrueDeletion(e)
  PROVE  TrueDeletion(e)'
<1>1. UidOf(e.key, e.obj) \in Uids
  BY DEF Event, UidOf, Uids, Object
<1>2. UidOf(e.key, e.obj)[1] = e.key /\ UidOf(e.key, e.obj)[2] = e.obj.inc
  BY DEF UidOf
<1> QED BY <1>1, <1>2, GoneForGood DEF TrueDeletion

\* An informer queues a deletion only when it is one.
LEMMA NewEvent ==
  ASSUME TypeOK, KnownPast, NEW r \in Resources, Inform(r)
  PROVE  \E e \in Event : /\ TrueDeletion(e)'
                          /\ pending' = [pending EXCEPT ![r] = Append(@, e)]
<1>1. PICK k \in Watches[r] : Observe(r, k) \/ Resync(r, k)
  BY DEF Inform
<1>2. k \in Keys /\ server' = server
  BY InformersAssumption DEF Inform
<1>3. server[k] \in Object /\ known[r][k] \in Object
  BY <1>2 DEF TypeOK, ClusterTypeOK, InformersTypeOK
<1> DEFINE Ev(t, o) == [type |-> t, key |-> k, obj |-> o]
<1>4. ASSUME NEW t \in EventTypes, t # "delete", NEW o \in Object, Queue(r, t, k, o)
      PROVE  /\ Ev(t, o) \in Event /\ TrueDeletion(Ev(t, o))'
             /\ pending' = [pending EXCEPT ![r] = Append(@, Ev(t, o))]
  BY <1>2, <1>4 DEF Event, TrueDeletion, Queue
<1>5. CASE ObserveDelete(r, k)
  <2>1. PICK o \in Object : o = known[r][k]
    BY <1>3
  <2>2. Ev("delete", o) \in Event
    BY <1>2 DEF Event, EventTypes
  <2>3. o.inc <= server[k].inc /\ ~Present(UidOf(k, o))
    BY <1>2, <1>5, <2>1 DEF ObserveDelete, Vanished, KnownPast
  <2>4. TrueDeletion(Ev("delete", o))'
    BY <1>2, <2>3 DEF TrueDeletion, Present
  <2>5. pending' = [pending EXCEPT ![r] = Append(@, Ev("delete", o))]
    BY <1>5, <2>1 DEF ObserveDelete, Queue
  <2> QED BY <2>2, <2>4, <2>5
<1>6. CASE ~ObserveDelete(r, k)
  <2>1. \E t \in EventTypes \ {"delete"}, o \in Object : Queue(r, t, k, o)
    BY <1>1, <1>3, <1>6 DEF Observe, ObserveAdd, ObserveUpdate, ObserveTombstone, ObserveReplaced,
       Resync, EventTypes
  <2> QED BY <1>4, <2>1
<1> QED BY <1>5, <1>6

\* Every deletion that is queued is true when it is queued.
LEMMA DeletionsTrueStep ==
  ASSUME TypeOK, KnownPast, DeletionsTrue, [Next]_vars
  PROVE  DeletionsTrue'
<1>1. \A q \in Resources : pending[q] \in Seq(Event) /\ pending'[q] \in Seq(Event)
  BY StepTyped DEF TypeOK, InformersTypeOK
<1> DEFINE Old(e) == \E q \in Resources : \E n \in 1 .. Len(pending[q]) : e = pending[q][n]
<1>2. ASSUME NEW e \in Event, Old(e)
      PROVE  TrueDeletion(e)'
  BY <1>2, TrueDeletionStep DEF DeletionsTrue, TrueDeletion
<1>3. SUFFICES ASSUME NEW q \in Resources, NEW n \in 1 .. Len(pending'[q])
               PROVE  \E e \in Event : e = pending'[q][n] /\ TrueDeletion(e)'
  BY DEF DeletionsTrue, TrueDeletion
<1>4. pending'[q][n] \in Event
  BY <1>1
<1>5. CASE UNCHANGED pending
  BY <1>2, <1>4, <1>5
<1>6. ASSUME NEW r \in Resources, NotifyWatcher(r)
      PROVE  \E e \in Event : e = pending'[q][n] /\ TrueDeletion(e)'
  <2>1. pending' = [pending EXCEPT ![r] = Tail(@)] /\ pending[r] # <<>>
    BY <1>6 DEF NotifyWatcher, TypeOK
  <2>2. \E m \in 1 .. Len(pending[q]) : pending'[q][n] = pending[q][m]
    <3>1. CASE q = r
      <4>1. pending'[q] = Tail(pending[q]) /\ Len(pending'[q]) = Len(pending[q]) - 1
        BY <1>1, <2>1, <3>1 DEF TypeOK, InformersTypeOK
      <4>2. n + 1 \in 1 .. Len(pending[q]) /\ pending'[q][n] = pending[q][n + 1]
        BY <1>1, <4>1
      <4> QED BY <4>2
    <3>2. CASE q # r
      BY <1>1, <2>1, <3>2 DEF TypeOK, InformersTypeOK
    <3> QED BY <3>1, <3>2
  <2> QED BY <1>2, <1>4, <2>2
<1>7. ASSUME NEW r \in Resources, Inform(r)
      PROVE  \E e \in Event : e = pending'[q][n] /\ TrueDeletion(e)'
  <2>1. PICK e \in Event : /\ TrueDeletion(e)'
                          /\ pending' = [pending EXCEPT ![r] = Append(@, e)]
    BY <1>7, NewEvent
  <2>2. pending'[q][n] = e \/ \E m \in 1 .. Len(pending[q]) : pending'[q][n] = pending[q][m]
    <3>1. CASE q = r
      <4>1. pending'[q] = Append(pending[q], e)
        BY <2>1, <3>1 DEF TypeOK, InformersTypeOK
      <4> QED BY <1>1, <4>1
    <3>2. CASE q # r
      BY <1>1, <2>1, <3>2 DEF TypeOK, InformersTypeOK
    <3> QED BY <3>1, <3>2
  <2> QED BY <1>2, <1>4, <2>1, <2>2
<1> QED BY <1>5, <1>6, <1>7, InformersUnchanged

\* The steps of the document's thread other than creating, adopting and Done's
\* last leave the pool and the history alone.
ThreadStep ==
  \/ Watch \/ InformOnWatched \/ CheckNamespace \/ CreateConflict \/ PatchObject
  \/ CallRefused \/ CallFails \/ DeleteCall \/ Preserve \/ DeleteAll \/ PurgeEnd
  \/ CancelWatch \/ StopInformers \/ ClearWatchers
  \/ \E k \in Managed : ApplyObject(k) \/ DeleteObject(k)
  \/ \E u \in targets : PurgeDelete(u)

\* The steps of the document's thread that matter to the pool, and the others.
LEMMA ThreadSteps ==
  /\ Document <=> ThreadStep \/ CreateObject \/ Adopt \/ ClearPool
  /\ ThreadStep => UNCHANGED <<pool, created, orphaned>> /\ pc \notin {"adopt", "over"}
<1>1. Document <=> ThreadStep \/ CreateObject \/ Adopt \/ ClearPool
  BY DEF Document, Operate, Finish, ThreadStep
<1>2. ThreadStep => UNCHANGED <<pool, created, orphaned>> /\ pc \notin {"adopt", "over"}
  BY DEF ThreadStep, Watch, InformOnWatched, CheckNamespace, CreateConflict, PatchObject,
     CallRefused, CallFails, DeleteCall, Preserve, DeleteAll, PurgeEnd, CancelWatch,
     StopInformers, ClearWatchers, ApplyObject, DeleteObject, PurgeDelete, Leaving, Refused,
     driverVars, history
<1> QED BY <1>1, <1>2

\* A created object is one of the server's past, and CreateObject adds its own.
LEMMA CreatedPastStep ==
  ASSUME TypeOK, CreatedPast, [Next]_vars
  PROVE  CreatedPast'
<1>1. ASSUME NEW u \in created
      PROVE  u[2] <= server'[u[1]].inc
  BY GoneForGood DEF TypeOK, CreatedPast
<1>2. CASE CreateObject
  <2>1. current \in Keys /\ server[current] \in Object
    BY <1>2 DEF CreateObject, TypeOK, ClusterTypeOK
  <2>2. server'[current] \in Object
    BY <2>1, StepTyped DEF TypeOK, ClusterTypeOK
  <2>3. server'[current].inc \in Nat
    BY <2>2, ClusterAssumption DEF Object
  <2>4. created' = created \cup {<<current, server'[current].inc>>}
    BY <1>2 DEF CreateObject, UidOf
  <2>5. ASSUME NEW u \in created'
        PROVE  u[2] <= server'[u[1]].inc
    BY <1>1, <2>3, <2>4, <2>5
  <2> QED BY <2>5 DEF CreatedPast
<1>3. CASE created' = created
  BY <1>1, <1>3 DEF CreatedPast
<1>4. CASE ~CreateObject
  <2>1. created' = created
    BY <1>4, ThreadSteps DEF Next, Environment, Inform, Handle, HandleInPool, NotifyWatcher,
       Adopt, ClearPool, Over, vars, history
  <2> QED BY <1>3, <2>1
<1> QED BY <1>2, <1>4

\* The head of a queue is a true deletion, if it is one.
LEMMA HeadTrue ==
  ASSUME TypeOK, DeletionsTrue, NEW r \in Resources, pending[r] # <<>>
  PROVE  TrueDeletion(Head(pending[r]))
<1>1. pending[r] \in Seq(Event)
  BY DEF TypeOK, InformersTypeOK
<1>2. 1 \in 1 .. Len(pending[r]) /\ Head(pending[r]) = pending[r][1]
  BY <1>1
<1> QED BY <1>2 DEF DeletionsTrue, TrueDeletion

\* An event takes out of the pool at most an object that is gone.
LEMMA HandlerKeeps ==
  ASSUME TypeOK, DeletionsTrue, NEW r \in Resources, HandleInPool(r),
         NEW u \in DOMAIN pool, u \notin DOMAIN pool'
  PROVE  ~Present(u)
<1> DEFINE e == Head(pending[r])
           d == UidOf(e.key, e.obj)
<1>1. pending[r] # <<>> /\ TrueDeletion(e)
  BY HeadTrue DEF HandleInPool
<1>2. CASE e.type = "delete"
  <2>1. pool' = DropAdopted(d)
    BY <1>2 DEF HandleInPool
  <2>2. u = d
    BY <2>1 DEF DropAdopted, Without, Restrict
  <2> QED BY <1>1, <1>2, <2>2 DEF TrueDeletion
<1>3. CASE e.type # "delete"
  <2>1. pool' = pool \/ pool' = UpdateAdopted(d, e.obj)
    BY <1>3 DEF HandleInPool
  <2>2. DOMAIN pool \subseteq DOMAIN pool'
    BY <2>1 DEF UpdateAdopted, With
  <2> QED BY <2>2
<1> QED BY <1>2, <1>3

\* Adopt puts the object of the reply in the pool, and takes nothing out.
LEMMA AdoptKeeps ==
  ASSUME Adopt
  PROVE  DOMAIN pool' = DOMAIN pool \cup {UidOf(reply.key, reply.obj)}
BY DEF Adopt, Tracked, UpdateAdopted, With

\* An object of the run is handed from the reply to the pool, and only a true
\* deletion takes it out.
LEMMA CreatedTrackedStep ==
  ASSUME TypeOK, Tracking, [Next]_vars
  PROVE  CreatedTracked'
<1> SUFFICES ASSUME pc' # "over", NEW u \in created' \ orphaned', Present(u)'
             PROVE  InHand(u)'
  BY DEF CreatedTracked
<1> USE DEF Tracking
<1>1. ASSUME u \in created \ orphaned
      PROVE  Present(u) /\ (pc # "over" => InHand(u))
  <2>1. Present(u)
    BY <1>1, GoneForGood DEF TypeOK, CreatedPast
  <2> QED BY <1>1, <2>1 DEF CreatedTracked
<1>2. CASE UNCHANGED <<pool, pc, reply, created, orphaned>>
  BY <1>1, <1>2 DEF InHand
<1>3. CASE Environment \/ \E r \in Resources : Inform(r)
  BY <1>2, <1>3 DEF Environment, Inform, driverVars, callVars, history
<1>4. ASSUME NEW r \in Resources, HandleInPool(r)
      PROVE  InHand(u)'
  <2>1. UNCHANGED <<server, pc, reply, created, orphaned>>
    BY <1>4 DEF HandleInPool, callVars, history
  <2>2. u \in DOMAIN pool => u \in DOMAIN pool'
    BY <1>1, <1>4, <2>1, HandlerKeeps
  <2> QED BY <1>1, <2>1, <2>2 DEF InHand
<1>5. ASSUME NEW r \in Resources, NotifyWatcher(r)
      PROVE  InHand(u)'
  BY <1>2, <1>5 DEF NotifyWatcher, callVars, history
<1>6. CASE CreateObject
  <2>1. CASE u = UidOf(current, server'[current])
    <3>1. Answered(current, server'[current])
      BY <1>6, <2>1 DEF CreateObject
    <3> QED BY <2>1, <3>1 DEF Answered, InHand
  <2>2. CASE u # UidOf(current, server'[current])
    <3>1. u \in created \ orphaned /\ pool' = pool /\ pc = "create"
      BY <1>6, <2>2 DEF CreateObject, driverVars
    <3> QED BY <1>1, <3>1 DEF InHand
  <2> QED BY <2>1, <2>2
<1>7. CASE Adopt
  <2>1. pc = "adopt" /\ UNCHANGED <<created, orphaned>>
    BY <1>7 DEF Adopt, history
  <2> QED BY <1>1, <1>7, <2>1, AdoptKeeps DEF InHand
<1>8. CASE ThreadStep
  BY <1>1, <1>8, ThreadSteps DEF InHand
<1>9. CASE ClearPool
  BY <1>9 DEF ClearPool
<1>10. CASE UNCHANGED vars
  BY <1>2, <1>10 DEF vars, driverVars, callVars, history
<1> QED BY <1>3, <1>4, <1>5, <1>6, <1>7, <1>8, <1>9, <1>10, ThreadSteps DEF Next, Handle, Over

\* Nothing is known, queued or created at first.
LEMMA TrackingInit ==
  ASSUME Init
  PROVE  Tracking
<1>1. KnownPast
  <2>1. ASSUME NEW k \in Keys PROVE server[k].inc \in {0, 1}
    BY DEF Init, ClusterInit, Unseen, Fresh
  <2>2. ASSUME NEW r \in Resources, NEW k \in Keys PROVE known[r][k].inc = 0
    BY DEF Init, InformersInit, Unseen
  <2>3. ASSUME NEW r \in Resources, NEW k \in Keys
        PROVE  known[r][k].inc <= server[k].inc
    <3>1. server[k].inc = 0 \/ server[k].inc = 1
      BY <2>1
    <3>2. known[r][k].inc = 0
      BY <2>2
    <3> QED BY <3>1, <3>2
  <2> QED BY <2>3 DEF KnownPast
<1>2. DeletionsTrue
  BY DEF Init, InformersInit, DeletionsTrue
<1> QED BY <1>1, <1>2 DEF Init, Tracking, CreatedPast, CreatedTracked

\* Tracking is inductive.
LEMMA TrackingStep ==
  ASSUME TypeOK, Tracking, [Next]_vars
  PROVE  Tracking'
BY KnownPastStep, DeletionsTrueStep, CreatedPastStep, CreatedTrackedStep DEF Tracking

\* The driver loses no object: whatever the run created and heard about, and the
\* server still holds, is in objectPool, or Apply has the reply in its hands,
\* whatever the informers deliver and when (object.go InformOn, Apply, Adopt).
THEOREM NothingLost == Spec => []CreatedTracked
<1>1. Init => Tracking
  BY TrackingInit
<1>2. TypeOK /\ Tracking /\ [Next]_vars => Tracking'
  BY TrackingStep
<1>3. Tracking => CreatedTracked
  BY DEF Tracking
<1> QED BY <1>1, <1>2, <1>3, TypeCorrect, PTL DEF Spec

------------------------------------------------------------------------------
(***************************************************************************)
(* DeleteAll leaves nothing behind: Cleaning is inductive.                 *)
(***************************************************************************)
\* What the server was told to delete by name is not live under any UID.
LEMMA DeletedNotLive ==
  ASSUME TypeOK, NEW u \in Uids, server' = Deleted(u[1])
  PROVE  ~Live(u)'
<1>1. u[1] \in Keys /\ server[u[1]] \in Object
  BY DEF Uids, TypeOK, ClusterTypeOK
<1>2. server'[u[1]].phase # "live"
  <2>1. Terminated(server[u[1]]).phase # "live"
    BY <1>1 DEF Terminated, Object
  <2> QED BY <1>1, <2>1 DEF Deleted, TypeOK, ClusterTypeOK
<1> QED BY <1>2 DEF Live

Ending == {"cancelWatch", "stopInformers", "clearWatchers", "clearPool", "over"}

\* The steps that may change the verdict, where they lead, and the steps that
\* may not.
LEMMA Verdict ==
  ASSUME TypeOK, [Next]_vars
  PROVE  \/ UNCHANGED <<verdict, pc, errs, targets, created, orphaned>>
         \/ pc' \in Ending /\ verdict' \in {"crashed", "aborted", "preserved"}
         \/ PurgeEnd
         \/ DeleteAll
         \/ \E u \in targets : PurgeDelete(u)
         \/ pc \in Ending /\ pc' \in Ending /\ UNCHANGED <<verdict, errs, created, orphaned>>
         \/ pc \notin Ending /\ pc' # "purge" /\ UNCHANGED verdict
<1>1. CASE Environment \/ (\E r \in Resources : Inform(r)) \/ UNCHANGED vars
  BY <1>1 DEF Environment, Inform, vars, purgeVars, history
<1>2. CASE \E r \in Resources : Handle(r)
  BY <1>2 DEF Handle, HandleInPool, NotifyWatcher, purgeVars, history, Ending
<1>3. CASE Watch \/ InformOnWatched \/ Preserve
  BY <1>3 DEF Watch, InformOnWatched, Preserve, Ending, purgeVars
<1>4. CASE Operate \/ \E k \in Managed : ApplyObject(k) \/ DeleteObject(k)
  <2>1. verdict' = verdict /\ pc \notin Ending
    BY <1>4 DEF Operate, ApplyObject, DeleteObject, CheckNamespace, CreateObject, CreateConflict,
       PatchObject, CallRefused, Refused, CallFails, Adopt, DeleteCall, Ending, purgeVars
  <2>2. pc' # "purge"
    BY <1>4 DEF Operate, ApplyObject, DeleteObject, BeginApply, CheckNamespace, CreateObject,
       Answered, LoseReply, CreateConflict, PatchObject, CallRefused, CallFails, Adopt, DeleteCall
  <2> QED BY <2>1, <2>2
<1>5. CASE CancelWatch \/ StopInformers \/ ClearWatchers \/ ClearPool
  BY <1>5 DEF CancelWatch, StopInformers, ClearWatchers, ClearPool, Ending, purgeVars, history
<1> QED BY <1>1, <1>2, <1>3, <1>4, <1>5 DEF Next, Document, Finish, Over

\* Cleaning is inductive: a deletion ends an object's being live, and none comes
\* to be live again.
LEMMA CleaningStep ==
  ASSUME TypeOK, Tracking, Cleaning, [Next]_vars
  PROVE  Cleaning'
<1> DEFINE Left == {u \in created \ orphaned : Live(u)}
<1>1. verdict # "running" => pc \in Ending
  BY DEF Cleaning, Ending
<1>2. ASSUME NEW u \in created, Live(u)'
      PROVE  Live(u)
  BY <1>2, GoneForGood DEF TypeOK, Tracking, CreatedPast
<1>3. CASE UNCHANGED <<verdict, pc, errs, targets, created, orphaned>>
  BY <1>2, <1>3 DEF Cleaning, CleanupAttempted
<1>4. CASE pc' \in Ending /\ verdict' \in {"crashed", "aborted", "preserved"}
  BY <1>4 DEF Cleaning, CleanupAttempted, Ending
<1>5. CASE PurgeEnd
  <2>1. /\ pc = "purge" /\ targets = {} /\ pc' = "cancelWatch"
        /\ UNCHANGED <<errs, created, orphaned>>
    BY <1>5 DEF PurgeEnd, history
  <2> QED BY <1>2, <2>1 DEF Cleaning, CleanupAttempted
<1>6. CASE DeleteAll
  <2>1. /\ pc \in {"idle", "fatal"} /\ pc' = "purge" /\ targets' = DOMAIN pool
        /\ UNCHANGED <<verdict, created, orphaned>>
    BY <1>6 DEF DeleteAll, Leaving, history
  <2>2. verdict = "running"
    BY <1>1, <2>1 DEF Ending
  <2>3. ASSUME NEW u \in created \ orphaned, Live(u)'
        PROVE  u \in targets'
    <3>1. Present(u)
      BY <1>2, <2>3 DEF Live
    <3>2. InHand(u)
      BY <2>1, <3>1 DEF Tracking, CreatedTracked
    <3> QED BY <2>1, <3>2 DEF InHand
  <2> QED BY <2>1, <2>2, <2>3 DEF Cleaning, CleanupAttempted
<1>7. CASE \E w \in targets : PurgeDelete(w)
  <2>1. PICK w \in targets : PurgeDelete(w)
    BY <1>7
  <2>2. /\ pc = "purge" /\ pc' = "purge" /\ UNCHANGED <<verdict, created, orphaned>>
        /\ targets' = targets \ {w} /\ errs \subseteq errs'
        /\ server' = Deleted(w[1]) \/ w \in errs'
    BY <2>1 DEF PurgeDelete, history
  <2>3. verdict = "running"
    BY <1>1, <2>2 DEF Ending
  <2>4. ASSUME NEW u \in created \ orphaned, Live(u)'
        PROVE  u \in targets' \cup errs'
    <3>1. u \in targets \cup errs /\ u \in Uids
      BY <1>2, <2>2, <2>4 DEF Cleaning, TypeOK
    <3>2. u = w => w \in errs'
      BY <2>2, <2>4, <3>1, DeletedNotLive
    <3> QED BY <2>2, <3>1, <3>2
  <2> QED BY <2>2, <2>3, <2>4 DEF Cleaning, CleanupAttempted
<1>8. CASE pc \in Ending /\ pc' \in Ending /\ UNCHANGED <<verdict, errs, created, orphaned>>
  BY <1>2, <1>8 DEF Cleaning, CleanupAttempted, Ending
<1>9. CASE pc \notin Ending /\ pc' # "purge" /\ UNCHANGED verdict
  BY <1>1, <1>9 DEF Cleaning, CleanupAttempted
<1> QED BY <1>3, <1>4, <1>5, <1>6, <1>7, <1>8, <1>9, Verdict

\* Once DeleteAll is through, an object of the run that is still live is one
\* whose own deletion was answered with an error (object.go DeleteAll, Delete).
THEOREM NothingLeftBehind == Spec => []CleanupAttempted
<1>1. Init => Tracking /\ Cleaning
  BY TrackingInit DEF Init, Cleaning, CleanupAttempted
<1>2. TypeOK /\ Tracking /\ Cleaning /\ [Next]_vars => Tracking' /\ Cleaning'
  BY TrackingStep, CleaningStep
<1>3. Cleaning => CleanupAttempted
  BY DEF Cleaning
<1> QED BY <1>1, <1>2, <1>3, TypeCorrect, PTL DEF Spec

------------------------------------------------------------------------------
(***************************************************************************)
(* What no step may do to the pool.                                        *)
(***************************************************************************)
\* Only handlers, Adopt and Done touch the pool.
LEMMA PoolSteps ==
  ASSUME [Next]_vars
  PROVE  \/ UNCHANGED pool
         \/ \E r \in Resources : HandleInPool(r)
         \/ Adopt
         \/ ClearPool
<1>1. CASE Environment \/ (\E r \in Resources : Inform(r)) \/ UNCHANGED vars
  BY <1>1 DEF Environment, Inform, vars, driverVars
<1>2. CASE \E r \in Resources : Handle(r)
  BY <1>2 DEF Handle, NotifyWatcher
<1>3. CASE Document
  <2>1. CreateObject => UNCHANGED pool
    BY DEF CreateObject, driverVars
  <2> QED BY <1>3, <2>1, ThreadSteps
<1> QED BY <1>1, <1>2, <1>3 DEF Next, Over

\* A handler or Adopt replaces a copy only by one of a newer generation.
LEMMA CopiesGrow ==
  ASSUME TypeOK, NEW w \in Uids, NEW o \in Object,
         NEW p, p \in {pool, UpdateAdopted(w, o), Tracked(w, o), DropAdopted(w)},
         NEW u \in DOMAIN pool \cap DOMAIN p
  PROVE  p[u].gen >= pool[u].gen
<1>1. pool[u].gen \in Nat /\ o.gen \in Nat
  BY ClusterAssumption DEF TypeOK, Object
<1>2. CASE p = pool
  BY <1>1, <1>2
<1>3. CASE p = DropAdopted(w)
  BY <1>1, <1>3 DEF DropAdopted, Without, Restrict
<1>4. CASE p = With(pool, w, o)
  <2>1. CASE u = w
    <3>1. p = UpdateAdopted(w, o) \/ p = Tracked(w, o) => p = pool \/ NewerGeneration(o, pool[w])
      BY <2>1, Zenon DEF UpdateAdopted, Tracked
    <3>2. p[u] = o
      BY <1>4, <2>1 DEF With
    <3>3. p = DropAdopted(w) => u # w
      BY DEF DropAdopted, Without, Restrict
    <3> QED BY <1>1, <1>2, <2>1, <3>1, <3>2, <3>3 DEF NewerGeneration
  <2>2. CASE u # w
    BY <1>1, <1>4, <2>2 DEF With
  <2> QED BY <2>1, <2>2
<1>5. p \in {pool, With(pool, w, o), DropAdopted(w)}
  BY Zenon DEF UpdateAdopted, Tracked
<1> QED BY <1>2, <1>3, <1>4, <1>5

\* The copy of an adopted object never goes back to an older generation, in
\* whichever order replies and events reach the pool (object.go
\* updateAdoptedObject, Adopt).
THEOREM GenerationsGrow == Spec => GenerationMonotone
<1>1. ASSUME TypeOK, [Next]_vars, NEW u \in DOMAIN pool \cap DOMAIN pool'
      PROVE  pool'[u].gen >= pool[u].gen
  <2>1. pool[u].gen \in Nat
    BY <1>1, ClusterAssumption DEF TypeOK, Object
  <2>2. CASE UNCHANGED pool
    BY <2>1, <2>2
  <2>3. ASSUME NEW r \in Resources, HandleInPool(r)
        PROVE  pool'[u].gen >= pool[u].gen
    <3> DEFINE e == Head(pending[r])
               w == UidOf(e.key, e.obj)
    <3>1. w \in Uids /\ e.obj \in Object
      BY <1>1, <2>3, EventQueue DEF HandleInPool, TypeOK, InformersTypeOK
    <3>2. pool' \in {pool, UpdateAdopted(w, e.obj), DropAdopted(w)}
      BY <2>3 DEF HandleInPool
    <3> QED BY <1>1, <3>1, <3>2, CopiesGrow
  <2>4. CASE Adopt
    <3>1. reply \in Reply /\ pool' = Tracked(UidOf(reply.key, reply.obj), reply.obj)
      BY <1>1, <2>4 DEF Adopt, TypeOK
    <3>2. reply.obj \in Object /\ UidOf(reply.key, reply.obj) \in Uids
      BY <3>1 DEF Reply, UidOf, Uids, Object
    <3> QED BY <1>1, <3>1, <3>2, CopiesGrow
  <2>5. CASE ClearPool
    BY <2>5 DEF ClearPool, EmptyMap
  <2> QED BY <1>1, <2>2, <2>3, <2>4, <2>5, PoolSteps
<1>2. TypeOK /\ [Next]_vars =>
        [\A u \in DOMAIN pool \cap DOMAIN pool' : pool'[u].gen >= pool[u].gen]_vars
  BY <1>1
<1> QED BY <1>2, TypeCorrect, PTL DEF Spec, GenerationMonotone

\* An adopted object is let go only when the server has dropped it, or by Done
\* (object.go InformOn, Done).
THEOREM KeptUntilGone == Spec => AdoptedUntilGone
<1>1. ASSUME TypeOK, Tracking, [Next]_vars, NEW u \in DOMAIN pool \ DOMAIN pool'
      PROVE  ~Present(u) \/ pc = "clearPool"
  <2>1. CASE \E r \in Resources : HandleInPool(r)
    BY <1>1, <2>1, HandlerKeeps DEF Tracking
  <2>2. CASE Adopt
    BY <2>2, AdoptKeeps
  <2>3. CASE ClearPool
    BY <2>3 DEF ClearPool
  <2> QED BY <1>1, <2>1, <2>2, <2>3, PoolSteps
<1>2. TypeOK /\ Tracking /\ [Next]_vars =>
        [\A u \in DOMAIN pool \ DOMAIN pool' : ~Present(u) \/ pc = "clearPool"]_vars
  BY <1>1
<1>3. Init => Tracking
  BY TrackingInit
<1>4. TypeOK /\ Tracking /\ [Next]_vars => Tracking'
  BY TrackingStep
<1> QED BY <1>2, <1>3, <1>4, TypeCorrect, PTL DEF Spec, AdoptedUntilGone

------------------------------------------------------------------------------
(***************************************************************************)
(* The pool after the run.                                                 *)
(***************************************************************************)
\* Nothing but Done's last step and a panic ends the run.
LEMMA EndOfRun ==
  ASSUME [Next]_vars, pc # "over", pc' = "over"
  PROVE  ClearPool \/ verdict' = "crashed"
<1>1. CASE Environment \/ (\E r \in Resources : Inform(r)) \/ UNCHANGED vars
  BY <1>1 DEF Environment, Inform, vars
<1>2. CASE \E r \in Resources : Handle(r)
  BY <1>2 DEF Handle, HandleInPool, NotifyWatcher
<1>3. CASE Document
  BY <1>3 DEF Document, Operate, Finish, Watch, InformOnWatched, ApplyObject, DeleteObject,
     BeginApply, CheckNamespace, CreateObject, Answered, LoseReply, CreateConflict, PatchObject,
     CallRefused, CallFails, Adopt, DeleteCall, Preserve, DeleteAll, PurgeDelete, PurgeEnd,
     CancelWatch, StopInformers, ClearWatchers
<1> QED BY <1>1, <1>2, <1>3 DEF Next, Over

\* A process that has died stays dead.
LEMMA CrashIsFinal ==
  ASSUME [Next]_vars, pc = "over", verdict = "crashed"
  PROVE  verdict' = "crashed"
<1>1. CASE Environment \/ (\E r \in Resources : Inform(r)) \/ UNCHANGED vars
  BY <1>1 DEF Environment, Inform, vars, purgeVars
<1>2. CASE \E r \in Resources : Handle(r)
  BY <1>2 DEF Handle, HandleInPool, NotifyWatcher, Alive
<1>3. CASE Document
  <2>1. CASE ThreadStep
    BY <2>1, ThreadSteps
  <2>2. CASE CreateObject \/ Adopt \/ ClearPool
    BY <2>2 DEF CreateObject, Adopt, ClearPool
  <2> QED BY <1>3, <2>1, <2>2, ThreadSteps
<1> QED BY <1>1, <1>2, <1>3 DEF Next, Over

\* An event never puts an object into the pool that is not there.
LEMMA HandlersAddNothing ==
  ASSUME NEW r \in Resources, HandleInPool(r)
  PROVE  DOMAIN pool' \subseteq DOMAIN pool
<1> DEFINE e == Head(pending[r])
           u == UidOf(e.key, e.obj)
<1>1. pool' \in {UpdateAdopted(u, e.obj), DropAdopted(u), pool}
  BY DEF HandleInPool
<1>2. DOMAIN UpdateAdopted(u, e.obj) \subseteq DOMAIN pool
  BY DEF UpdateAdopted, With
<1>3. DOMAIN DropAdopted(u) \subseteq DOMAIN pool
  BY DEF DropAdopted, Without, Restrict
<1> QED BY <1>1, <1>2, <1>3

\* Done forgets the adopted objects, and no late event brings one back
\* (object.go Done, updateAdoptedObject).
THEOREM NoneComesBack == Spec => []LateEventsIgnored
<1>1. Init => LateEventsIgnored
  BY DEF Init, LateEventsIgnored
<1>2. ASSUME LateEventsIgnored, [Next]_vars
      PROVE  LateEventsIgnored'
  <2> SUFFICES ASSUME pc' = "over", verdict' # "crashed"
               PROVE  DOMAIN pool' = {}
    BY DEF LateEventsIgnored, Alive
  <2>1. CASE pc # "over"
    <3>1. ClearPool
      BY <1>2, <2>1, EndOfRun
    <3> QED BY <3>1 DEF ClearPool, EmptyMap
  <2>2. CASE pc = "over"
    <3>1. DOMAIN pool = {}
      BY <1>2, <2>2, CrashIsFinal DEF LateEventsIgnored, Alive
    <3>2. ~Adopt
      BY <2>2 DEF Adopt
    <3> QED BY <1>2, <3>1, <3>2, PoolSteps, HandlersAddNothing DEF ClearPool, EmptyMap
  <2> QED BY <2>1, <2>2
<1> QED BY <1>1, <1>2, PTL DEF Spec

------------------------------------------------------------------------------
(***************************************************************************)
(* Whose objects are adopted: Owning is inductive.                         *)
(***************************************************************************)
\* The document names only its own objects.
LEMMA TargetManaged ==
  ASSUME Owning, [Next]_vars
  PROVE  target' \in Managed \cup {None}
<1>1. CASE Environment \/ (\E r \in Resources : Inform(r)) \/ UNCHANGED vars
  BY <1>1 DEF Environment, Inform, vars, callVars, Owning
<1>2. CASE \E r \in Resources : Handle(r)
  BY <1>2 DEF Handle, HandleInPool, NotifyWatcher, callVars, Owning
<1>3. CASE Document
  BY <1>3 DEF Document, Operate, Finish, Watch, InformOnWatched, ApplyObject, DeleteObject,
     BeginApply, CheckNamespace, CreateObject, CreateConflict, PatchObject,
     CallRefused, CallFails, Adopt, DeleteCall, Preserve, DeleteAll, PurgeDelete, PurgeEnd,
     CancelWatch, StopInformers, ClearWatchers, ClearPool, callVars, Owning
<1> QED BY <1>1, <1>2, <1>3 DEF Next, Over

\* The steps that lead to a call to the server, or to an answer.
LEMMA ApplySteps ==
  ASSUME [Next]_vars
  PROVE  \/ UNCHANGED <<pc, current, reply, unfound>>
         \/ pc' \notin {"create", "patch", "adopt"}
         \/ \E k \in Managed : ApplyObject(k)
         \/ CheckNamespace
         \/ CreateObject
         \/ CreateConflict
         \/ PatchObject
         \/ Adopt
<1>1. CASE Environment \/ (\E r \in Resources : Inform(r) \/ Handle(r)) \/ UNCHANGED vars
  BY <1>1 DEF Environment, Inform, Handle, HandleInPool, NotifyWatcher, vars, callVars, history
<1>2. CASE Document
  BY <1>2 DEF Document, Operate, Finish, Watch, InformOnWatched, DeleteObject,
     CallRefused, CallFails, DeleteCall, LoseReply, Preserve, DeleteAll, PurgeDelete, PurgeEnd,
     CancelWatch, StopInformers, ClearWatchers, ClearPool, callVars, history
<1> QED BY <1>1, <1>2 DEF Next, Over

\* Whoever makes an object, it is of a later incarnation than the one that was
\* looked for.
LEMMA StillMissingSince ==
  ASSUME TypeOK, [Next]_vars, unfound' = unfound, NEW k \in Keys, MissingSince(k)
  PROVE  /\ unfound \in Uids /\ unfound[1] = k
         /\ unfound[2] <= server'[k].inc
         /\ Exists(server'[k]) => unfound[2] < server'[k].inc
<1>1. unfound \in Uids /\ unfound[2] \in Nat
  BY ClusterAssumption DEF TypeOK, MissingSince, Uids
<1>2. server[k] \in Object /\ server'[k] \in Object
  BY StepTyped DEF TypeOK, ClusterTypeOK
<1>3. server[k].inc \in Nat /\ server'[k].inc \in Nat
  BY <1>2, ClusterAssumption DEF Object
<1>4. Follows(server[k], server'[k])
  BY ServerForward
<1> QED BY <1>1, <1>3, <1>4 DEF Follows, MissingSince

\* The server's answer to a create or a patch shows an object of the document,
\* or one that was made since applyObject looked for it.
LEMMA AnswerMadeSince ==
  ASSUME TypeOK, Owning, [Next]_vars, CreateObject \/ PatchObject, pc' = "adopt"
  PROVE  reply'.key \in Managed \/ MadeSinceLookup(UidOf(reply.key, reply.obj))'
<1>1. /\ pc \in {"create", "patch"} /\ unfound' = unfound
      /\ reply' = [key |-> current, obj |-> server'[current]]
  BY DEF CreateObject, PatchObject, Answered, LoseReply, history
<1>2. current \in Keys
  BY <1>1 DEF TypeOK
<1>3. Exists(server'[current])
  <2>1. server[current] \in Object
    BY <1>2 DEF TypeOK, ClusterTypeOK
  <2>2. CASE CreateObject
    <3>1. server'[current] = Fresh(server[current])
      BY <1>2, <2>2 DEF CreateObject, TypeOK, ClusterTypeOK
    <3> QED BY <3>1 DEF Fresh, Exists
  <2>3. CASE PatchObject
    <3>1. Exists(server[current])
      BY <2>3 DEF PatchObject
    <3>2. \/ server'[current] = server[current]
          \/ server'[current] = Written(current, server[current], TRUE)
      BY <1>2, <2>3 DEF PatchObject, TypeOK, ClusterTypeOK
    <3>3. Written(current, server[current], TRUE).phase = server[current].phase
      <4>1. /\ [server[current] EXCEPT !.rev = @ + 1, !.gen = @ + 1].phase = server[current].phase
            /\ [server[current] EXCEPT !.rev = @ + 1].phase = server[current].phase
        BY <2>1 DEF Object
      <4> QED BY <4>1, Zenon DEF Written
    <3> QED BY <3>1, <3>2, <3>3 DEF Exists
  <2> QED BY <2>2, <2>3
<1>4. CASE current \in Managed
  BY <1>1, <1>4
<1>5. CASE current \notin Managed
  <2>1. PICK k \in Keys : k = current /\ MissingSince(k)
    BY <1>1, <1>2, <1>5 DEF Owning
  <2>2. /\ unfound \in Uids /\ unfound[1] = k
        /\ Exists(server'[k]) => unfound[2] < server'[k].inc
    BY <1>1, <2>1, StillMissingSince
  <2> QED BY <1>1, <1>3, <2>1, <2>2 DEF MadeSinceLookup, UidOf
<1> QED BY <1>4, <1>5

\* Owning is preserved by every step.
LEMMA OwningStep ==
  ASSUME TypeOK, Owning, [Next]_vars
  PROVE  Owning'
<1>1. target' \in Managed \cup {None} /\ TypeOK'
  BY TargetManaged, StepTyped
<1>2. ASSUME pc' \in {"create", "patch"} => pc \in {"create", "patch"},
             UNCHANGED <<current, unfound>>
      PROVE  pc' \in {"create", "patch"} => current' \in Managed \/ MissingSince(current)'
  <2> SUFFICES ASSUME pc' \in {"create", "patch"}, current \notin Managed
               PROVE  MissingSince(current)'
    BY <1>2
  <2>1. current \in Keys
    BY <1>2 DEF TypeOK
  <2>2. PICK k \in Keys : k = current /\ MissingSince(k)
    BY <1>2, <2>1 DEF Owning
  <2>3. /\ unfound \in Uids /\ unfound[1] = k
        /\ unfound[2] <= server'[k].inc
        /\ Exists(server'[k]) => unfound[2] < server'[k].inc
    BY <1>2, <2>2, StillMissingSince
  <2> QED BY <1>2, <2>2, <2>3 DEF MissingSince
<1>3. /\ pc' \in {"create", "patch"} => current' \in Managed \/ MissingSince(current)'
      /\ pc' = "adopt" =>
           reply'.key \in Managed \/ MadeSinceLookup(UidOf(reply.key, reply.obj))'
  <2>1. CASE UNCHANGED <<pc, current, reply, unfound>>
    <3>1. UNCHANGED reply /\ UNCHANGED unfound /\ UNCHANGED pc
      BY <2>1
    <3>2. pc' = "adopt" =>
            reply'.key \in Managed \/ MadeSinceLookup(UidOf(reply.key, reply.obj))'
      BY <3>1 DEF Owning, MadeSinceLookup
    <3> QED BY <1>2, <2>1, <3>2
  <2>2. CASE \E k \in Managed : ApplyObject(k)
    BY <2>2 DEF ApplyObject, BeginApply
  <2>3. CASE CheckNamespace
    <3>1. target \in Managed /\ pc' = "create" /\ NamespaceOf[target] \in Keys
      BY <2>3, ClusterAssumption DEF CheckNamespace, BeginApply, Owning, TypeOK
    <3>2. CASE current' = target
      BY <3>1, <3>2
    <3>3. CASE current' # target
      <4>1. PICK n \in Keys : /\ n = NamespaceOf[target] /\ current' = n /\ server' = server
                              /\ ~Exists(server[n]) /\ unfound' = UidOf(n, server[n])
        BY <2>3, <3>1, <3>3 DEF CheckNamespace, BeginApply
      <4>2. server[n].inc \in 0 .. MaxInc /\ server[n].inc \in Nat
        BY ClusterAssumption DEF TypeOK, ClusterTypeOK, Object
      <4>3. unfound' \in Uids
        BY <4>1, <4>2 DEF UidOf, Uids
      <4>4. MissingSince(current)'
        BY <4>1, <4>2, <4>3 DEF MissingSince, UidOf
      <4> QED BY <3>1, <4>4
    <3> QED BY <3>2, <3>3
  <2>4. CASE CreateObject \/ PatchObject
    <3>1. pc' \in {"adopt", "fatal"}
      BY <2>4 DEF CreateObject, PatchObject, Answered, LoseReply
    <3> QED BY <2>4, <3>1, AnswerMadeSince
  <2>5. CASE CreateConflict
    <3>1. pc = "create" /\ pc' = "patch" /\ UNCHANGED <<current, unfound>>
      BY <2>5 DEF CreateConflict, callVars, history
    <3> QED BY <1>2, <3>1
  <2>6. CASE Adopt
    <3>1. pc' \in {"create", "idle"} /\ (pc' = "create" => current' = target)
      BY <2>6 DEF Adopt, BeginApply
    <3>2. target \in Managed
      BY <2>6 DEF Adopt, Owning, TypeOK
    <3> QED BY <3>1, <3>2
  <2>7. CASE pc' \notin {"create", "patch", "adopt"}
    BY <2>7
  <2> QED BY <2>1, <2>2, <2>3, <2>4, <2>5, <2>6, <2>7, ApplySteps
<1> QED BY <1>1, <1>3 DEF Owning

\* Only Adopt makes the pool longer.
LEMMA AdoptedNow ==
  ASSUME [Next]_vars, NEW u \in DOMAIN pool' \ DOMAIN pool
  PROVE  pc = "adopt" /\ u = UidOf(reply.key, reply.obj)
<1>1. Adopt
  BY PoolSteps, HandlersAddNothing DEF ClearPool, EmptyMap
<1> QED BY <1>1, AdoptKeeps DEF Adopt

\* Of what the document does not mention, the driver adopts nothing that was
\* there when applyObject looked for it (runner.go applyObject, object.go Apply),
\* whatever others create and delete in between.
THEOREM OnlyMissing == Spec => OnlyMissingAdopted
<1>1. Init => Owning
  BY DEF Init, Owning
<1>2. TypeOK /\ Owning /\ [Next]_vars => Owning'
  BY OwningStep
<1>3. ASSUME Owning, [Next]_vars, NEW u \in DOMAIN pool' \ DOMAIN pool
      PROVE  u[1] \in Managed \/ MadeSinceLookup(u)
  <2>1. pc = "adopt" /\ u = UidOf(reply.key, reply.obj)
    BY <1>3, AdoptedNow
  <2> QED BY <1>3, <2>1 DEF Owning, UidOf
<1>4. Owning /\ [Next]_vars =>
        [\A u \in DOMAIN pool' \ DOMAIN pool : u[1] \in Managed \/ MadeSinceLookup(u)]_vars
  BY <1>3
<1> QED BY <1>1, <1>2, <1>4, TypeCorrect, PTL DEF Spec, OnlyMissingAdopted

==============================================================================
