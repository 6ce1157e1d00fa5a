----------------------------- MODULE MirrorProofs -----------------------------
(***************************************************************************)
(* Theorems about what ObjectDriver's handlers do to the mirror of objects *)
(* below data.resources.                                                   *)
(***************************************************************************)
EXTENDS ObjectDriverProofs

\* No object is reported by two informers: each group, version and resource
\* that is watched shows objects of its own.
OneInformerPerKey ==
  \A r, s \in Resources : r # s => Watches[r] \cap Watches[s] = {}

------------------------------------------------------------------------------
(***************************************************************************)
(* The mirror, and the events that wait for it.                            *)
(***************************************************************************)
\* An event that is queued leaves what comes before it as it is.
LEMMA MirroredBefore ==
  ASSUME NEW q \in Seq(Event), NEW e \in Event, NEW n \in 0 .. Len(q), NEW k,
         NEW there \in BOOLEAN, MirroredAfter(there, q, n, k)
  PROVE  MirroredAfter(there, Append(q, e), n, k)
<1>1. \A i \in 1 .. n : i \in 1 .. Len(q) /\ Append(q, e)[i] = q[i]
  OBVIOUS
<1>2. \A m \in 1 .. n : \A i \in (m + 1) .. n : i \in 1 .. n
  OBVIOUS
<1> QED BY <1>1, <1>2 DEF MirroredAfter

\* An event of another object, or one that removes nothing, takes nothing out.
LEMMA MirroredStays ==
  ASSUME NEW q \in Seq(Event), NEW e \in Event, NEW k, NEW there \in BOOLEAN,
         MirroredAfter(there, q, Len(q), k), e.key # k \/ ~Removes(e)
  PROVE  MirroredAfter(there, Append(q, e), Len(q) + 1, k)
<1> DEFINE p == Append(q, e)
           Kept(m) == \A i \in (m + 1) .. (Len(q) + 1) : ~(p[i].key = k /\ Removes(p[i]))
<1>1. \A i \in 1 .. (Len(q) + 1) : 
        \/ i \in 1 .. Len(q) /\ p[i] = q[i]
        \/ i = Len(q) + 1 /\ p[i] = e
  OBVIOUS
<1>2. CASE there /\ \A i \in 1 .. Len(q) : ~(q[i].key = k /\ Removes(q[i]))
  BY <1>1, <1>2 DEF MirroredAfter
<1>3. CASE \E m \in 1 .. Len(q) :
             /\ q[m].key = k /\ Stores(q[m])
             /\ \A i \in (m + 1) .. Len(q) : ~(q[i].key = k /\ Removes(q[i]))
  <2>1. PICK m \in 1 .. Len(q) :
             /\ q[m].key = k /\ Stores(q[m])
             /\ \A i \in (m + 1) .. Len(q) : ~(q[i].key = k /\ Removes(q[i]))
    BY <1>3
  <2>2. m \in 1 .. (Len(q) + 1) /\ p[m] = q[m]
    OBVIOUS
  <2>3. \A i \in (m + 1) .. (Len(q) + 1) : i \in (m + 1) .. Len(q) \/ i = Len(q) + 1
    OBVIOUS
  <2>4. Kept(m)
    <3> SUFFICES ASSUME NEW i \in (m + 1) .. (Len(q) + 1)
                 PROVE  ~(p[i].key = k /\ Removes(p[i]))
      OBVIOUS
    <3>1. i \in 1 .. (Len(q) + 1)
      OBVIOUS
    <3>2. CASE i \in (m + 1) .. Len(q)
      <4>1. p[i] = q[i]
        BY <3>2
      <4> QED BY <2>1, <3>2, <4>1
    <3>3. CASE i = Len(q) + 1
      BY <3>3
    <3> QED BY <2>3, <3>2, <3>3
  <2> QED BY <2>1, <2>2, <2>4 DEF MirroredAfter
<1> QED BY <1>2, <1>3 DEF MirroredAfter

\* An event that stores an object puts it there.
LEMMA MirroredAdded ==
  ASSUME NEW q \in Seq(Event), NEW e \in Event, NEW there \in BOOLEAN, Stores(e)
  PROVE  MirroredAfter(there, Append(q, e), Len(q) + 1, e.key)
<1>1. Len(q) + 1 \in 1 .. (Len(q) + 1) /\ Append(q, e)[Len(q) + 1] = e
  OBVIOUS
<1>2. ((Len(q) + 1) + 1) .. (Len(q) + 1) = {}
  OBVIOUS
<1> QED BY <1>1, <1>2 DEF MirroredAfter

\* Once the first event has been handled, the rest leads to the same.
LEMMA MirroredNext ==
  ASSUME NEW q \in Seq(Event), q # <<>>, NEW n \in 1 .. Len(q), NEW k,
         NEW there \in BOOLEAN, NEW now \in BOOLEAN, MirroredAfter(there, q, n, k),
         Head(q).key = k /\ Stores(Head(q)) => now,
         there /\ ~(Head(q).key = k /\ Removes(Head(q))) => now
  PROVE  MirroredAfter(now, Tail(q), n - 1, k)
<1> DEFINE t == Tail(q)
<1>1. \A i \in 1 .. (n - 1) : t[i] = q[i + 1] /\ i + 1 \in 1 .. n
  OBVIOUS
<1>2. 1 \in 1 .. n /\ q[1] = Head(q)
  OBVIOUS
<1>3. CASE there /\ \A i \in 1 .. n : ~(q[i].key = k /\ Removes(q[i]))
  BY <1>1, <1>2, <1>3 DEF MirroredAfter
<1>4. CASE \E m \in 1 .. n :
             /\ q[m].key = k /\ Stores(q[m])
             /\ \A i \in (m + 1) .. n : ~(q[i].key = k /\ Removes(q[i]))
  <2>1. PICK m \in 1 .. n :
             /\ q[m].key = k /\ Stores(q[m])
             /\ \A i \in (m + 1) .. n : ~(q[i].key = k /\ Removes(q[i]))
    BY <1>4
  <2>2. CASE m = 1
    <3>1. now
      BY <1>2, <2>1, <2>2
    <3>2. \A i \in 1 .. (n - 1) : i + 1 \in (m + 1) .. n
      BY <2>2
    <3>3. \A i \in 1 .. (n - 1) : ~(t[i].key = k /\ Removes(t[i]))
      BY <1>1, <2>1, <3>2
    <3> QED BY <3>1, <3>3 DEF MirroredAfter
  <2>3. CASE m # 1
    <3>1. m - 1 \in 1 .. (n - 1) /\ t[m - 1] = q[m]
      BY <2>3
    <3>2. \A i \in ((m - 1) + 1) .. (n - 1) : i + 1 \in (m + 1) .. n /\ i \in 1 .. (n - 1)
      BY <2>3
    <3>3. \A i \in ((m - 1) + 1) .. (n - 1) : ~(t[i].key = k /\ Removes(t[i]))
      BY <1>1, <2>1, <3>2
    <3> QED BY <2>1, <3>1, <3>3 DEF MirroredAfter
  <2> QED BY <2>2, <2>3
<1> QED BY <1>3, <1>4 DEF MirroredAfter

------------------------------------------------------------------------------
(***************************************************************************)
(* The steps.                                                              *)
(***************************************************************************)
\* What an informer queues is of an object it watches; it removes only what it
\* knew, and what it knows afterwards it has told.
LEMMA QueuedEvent ==
  ASSUME TypeOK, NEW r \in Resources, Inform(r)
  PROVE  \E e \in Event :
           /\ e.key \in Watches[r]
           /\ pending' = [pending EXCEPT ![r] = Append(@, e)]
           /\ Removes(e) => Exists(known[r][e.key])
           /\ Exists(known'[r][e.key]) => Stores(e)
           /\ \A q \in Resources, j \in Keys :
                q # r \/ j # e.key => known'[q][j] = known[q][j]
<1>1. PICK k \in Watches[r] : Observe(r, k) \/ Resync(r, k)
  BY DEF Inform
<1>2. k \in Keys
  BY InformersAssumption
<1>3. server[k] \in Object /\ known[r][k] \in Object
  BY <1>2 DEF TypeOK, ClusterTypeOK, InformersTypeOK
<1> DEFINE Queued ==
             \E e \in Event :
               /\ e.key \in Watches[r]
               /\ pending' = [pending EXCEPT ![r] = Append(@, e)]
               /\ Removes(e) => Exists(known[r][e.key])
               /\ Exists(known'[r][e.key]) => Stores(e)
               /\ \A q \in Resources, j \in Keys :
                    q # r \/ j # e.key => known'[q][j] = known[q][j]
           Others == \A q \in Resources, j \in Keys :
                       q # r \/ j # k => known'[q][j] = known[q][j]
<1>4. ASSUME NEW t \in EventTypes, NEW o \in Object, Queue(r, t, k, o), Others,
             t = "delete" => Exists(known[r][k]),
             Exists(known'[r][k]) => t \in {"add", "update"}
      PROVE  Queued
  <2> DEFINE e == [type |-> t, key |-> k, obj |-> o]
  <2>1. e \in Event /\ e.key = k /\ e.type = t
    BY <1>2 DEF Event
  <2>2. pending' = [pending EXCEPT ![r] = Append(@, e)]
    BY <1>4 DEF Queue
  <2>3. Removes(e) => t = "delete"
    BY <2>1 DEF Removes
  <2>4. t \in {"add", "update"} => Stores(e)
    BY <2>1 DEF Stores
  <2> QED BY <1>4, <2>1, <2>2, <2>3, <2>4
<1>5. See(r, k) \/ UNCHANGED known => Others
  BY <1>2 DEF See, TypeOK, InformersTypeOK
<1>6. Forget(r, k) => Others /\ ~Exists(known'[r][k])
  BY <1>2 DEF Forget, Gone, Exists, TypeOK, InformersTypeOK
<1>7. CASE ObserveAdd(r, k)
  BY <1>3, <1>4, <1>5, <1>7 DEF ObserveAdd, EventTypes
<1>8. CASE ObserveUpdate(r, k)
  BY <1>3, <1>4, <1>5, <1>8 DEF ObserveUpdate, EventTypes
<1>9. CASE ObserveDelete(r, k)
  BY <1>3, <1>4, <1>6, <1>9 DEF ObserveDelete, Vanished, EventTypes
<1>10. CASE ObserveTombstone(r, k)
  BY <1>3, <1>4, <1>6, <1>10 DEF ObserveTombstone, EventTypes
<1>11. CASE ObserveReplaced(r, k)
  BY <1>3, <1>4, <1>5, <1>11 DEF ObserveReplaced, EventTypes
<1>12. CASE Resync(r, k)
  BY <1>3, <1>4, <1>5, <1>12 DEF Resync, EventTypes
<1> QED BY <1>1, <1>7, <1>8, <1>9, <1>10, <1>11, <1>12 DEF Observe

\* A deletion is queued only for what the informer knew, which an earlier event
\* of the queue has stored or will.
LEMMA InformMirrors ==
  ASSUME TypeOK, Mirroring, NEW r \in Resources, Inform(r)
  PROVE  Mirroring'
<1>1. r \in started /\ pc # "start" /\ UNCHANGED <<pc, watching, mirror, verdict>>
  BY DEF Inform, Mirroring, driverVars, purgeVars
<1>2. PICK e \in Event :
        /\ e.key \in Watches[r]
        /\ pending' = [pending EXCEPT ![r] = Append(@, e)]
        /\ Removes(e) => Exists(known[r][e.key])
        /\ Exists(known'[r][e.key]) => Stores(e)
        /\ \A q \in Resources, j \in Keys :
             q # r \/ j # e.key => known'[q][j] = known[q][j]
  BY QueuedEvent
<1> DEFINE p == pending[r]
           l == Len(pending[r])
<1>3. p \in Seq(Event) /\ l \in Nat /\ e.key \in Keys
  <2>1. p \in Seq(Event)
    BY DEF TypeOK, InformersTypeOK
  <2>2. e.key \in Keys
    BY DEF Event
  <2> QED BY <2>1, <2>2
<1>4. /\ pending'[r] = Append(p, e) /\ Len(pending'[r]) = l + 1
      /\ \A n \in 1 .. l : pending'[r][n] = p[n]
      /\ pending'[r][l + 1] = e
      /\ \A q \in Resources \ {r} : pending'[q] = pending[q]
  <2>1. pending'[r] = Append(p, e) /\ \A q \in Resources \ {r} : pending'[q] = pending[q]
    BY <1>2 DEF TypeOK, InformersTypeOK
  <2>2. /\ Len(Append(p, e)) = l + 1 /\ Append(p, e)[l + 1] = e
        /\ \A n \in 1 .. l : Append(p, e)[n] = p[n]
    BY <1>3
  <2> QED BY <2>1, <2>2
<1>5. OwnKeysOnly'
  <2>1. ASSUME NEW q \in Resources, NEW n \in 1 .. Len(pending'[q])
        PROVE  pending'[q][n].key \in Watches[q]
    <3>1. CASE q = r
      <4>1. n \in 1 .. l \/ n = l + 1
        BY <1>3, <1>4, <2>1, <3>1
      <4> QED BY <1>2, <1>4, <3>1, <4>1 DEF Mirroring, OwnKeysOnly
    <3>2. CASE q # r
      BY <1>4, <2>1, <3>2 DEF Mirroring, OwnKeysOnly
    <3> QED BY <3>1, <3>2
  <2>2. ASSUME NEW q \in Resources, NEW j \in Keys, Exists(known'[q][j])
        PROVE  j \in Watches[q]
    BY <1>2, <2>2 DEF Mirroring, OwnKeysOnly
  <2> QED BY <2>1, <2>2 DEF OwnKeysOnly
<1>6. ASSUME watching
      PROVE  RemovalsFind'
  <2>1. RemovalsFind
    BY <1>6 DEF Mirroring
  <2> DEFINE There(j) == j \in DOMAIN mirror
  <2>2. \A j : There(j) \in BOOLEAN /\ There(j)' = There(j)
    BY <1>1
  <2>3. ASSUME NEW n \in 1 .. Len(pending'[r]), Removes(pending'[r][n])
        PROVE  MirroredAfter(There(pending'[r][n].key), pending'[r], n - 1, pending'[r][n].key)
    <3>1. CASE n \in 1 .. l
      <4>1. MirroredAfter(There(p[n].key), p, n - 1, p[n].key)
        BY <1>4, <2>1, <2>3, <3>1 DEF RemovalsFind
      <4>2. n - 1 \in 0 .. l
        BY <1>3, <3>1
      <4>3. MirroredAfter(There(p[n].key), Append(p, e), n - 1, p[n].key)
        BY <1>3, <2>2, <4>1, <4>2, MirroredBefore
      <4> QED BY <1>4, <3>1, <4>3
    <3>2. CASE n = l + 1
      <4>1. MirroredAfter(There(e.key), p, l, e.key)
        BY <1>2, <1>3, <1>4, <2>1, <2>3, <3>2 DEF RemovalsFind
      <4>2. l \in 0 .. l /\ n - 1 = l
        BY <1>3, <3>2
      <4>3. MirroredAfter(There(e.key), Append(p, e), l, e.key)
        BY <1>3, <2>2, <4>1, <4>2, MirroredBefore
      <4> QED BY <1>4, <3>2, <4>2, <4>3
    <3>3. n \in 1 .. l \/ n = l + 1
      BY <1>3, <1>4, <2>3
    <3> QED BY <3>1, <3>2, <3>3
  <2>4. ASSUME NEW j \in Keys, Exists(known'[r][j])
        PROVE  MirroredAfter(There(j), Append(p, e), l + 1, j)
    <3>1. CASE j = e.key
      <4>1. Stores(e)
        BY <1>2, <2>4, <3>1
      <4>2. MirroredAfter(There(e.key), Append(p, e), l + 1, e.key)
        BY <1>3, <2>2, <4>1, MirroredAdded
      <4> QED BY <3>1, <4>2
    <3>2. CASE j # e.key
      <4>1. MirroredAfter(There(j), p, l, j)
        BY <1>2, <2>1, <2>4, <3>2 DEF RemovalsFind
      <4> QED BY <1>3, <2>2, <3>2, <4>1, MirroredStays
    <3> QED BY <3>1, <3>2
  <2>5. ASSUME NEW q \in Resources, q # r
        PROVE  pending'[q] = pending[q] /\ \A j \in Keys : known'[q][j] = known[q][j]
    BY <1>2, <1>4, <2>5
  <2>6. ASSUME NEW q \in Resources, NEW n \in 1 .. Len(pending'[q]), Removes(pending'[q][n])
        PROVE  MirroredAfter(There(pending'[q][n].key), pending'[q], n - 1, pending'[q][n].key)
    <3>1. CASE q = r
      BY <2>3, <2>6, <3>1
    <3>2. CASE q # r
      BY <2>1, <2>5, <2>6, <3>2 DEF RemovalsFind
    <3> QED BY <3>1, <3>2
  <2>7. ASSUME NEW q \in Resources, NEW j \in Keys, Exists(known'[q][j])
        PROVE  MirroredAfter(There(j), pending'[q], Len(pending'[q]), j)
    <3>1. CASE q = r
      BY <1>4, <2>4, <2>7, <3>1
    <3>2. CASE q # r
      BY <2>1, <2>5, <2>7, <3>2 DEF RemovalsFind
    <3> QED BY <3>1, <3>2
  <2> QED BY <1>1, <2>6, <2>7 DEF RemovalsFind, MirroredAfter, Removes, Stores
<1> QED BY <1>1, <1>5, <1>6 DEF Mirroring, NoHandlerPanic

\* With one informer per key, handling an event leaves every other queue's
\* objects alone, and finds what it removes.
LEMMA NotifyMirrors ==
  ASSUME OneInformerPerKey, TypeOK, Mirroring, NEW r \in Resources, NotifyWatcher(r)
  PROVE  Mirroring'
<1> DEFINE p == pending[r]
           l == Len(pending[r])
           e == Head(pending[r])
           There(j) == j \in DOMAIN mirror
           Now(j) == j \in DOMAIN mirror'
<1>1. p \in Seq(Event) /\ p # <<>> /\ pc # "start"
  BY DEF NotifyWatcher, TypeOK, InformersTypeOK, Mirroring
<1>2. /\ e \in Event /\ e.key \in Keys /\ l \in Nat \ {0} /\ e = p[1]
      /\ Tail(p) \in Seq(Event) /\ Len(Tail(p)) = l - 1
      /\ \A n \in 1 .. (l - 1) : Tail(p)[n] = p[n + 1]
  <2>1. e \in Event /\ Tail(p) \in Seq(Event)
    BY <1>1
  <2>2. l \in Nat \ {0} /\ e = p[1] /\ Len(Tail(p)) = l - 1
    BY <1>1
  <2>3. \A n \in 1 .. (l - 1) : Tail(p)[n] = p[n + 1]
    BY <1>1
  <2> QED BY <2>1, <2>2, <2>3 DEF Event
<1>3. /\ pending'[r] = Tail(p)
      /\ \A q \in Resources \ {r} : pending'[q] = pending[q]
      /\ UNCHANGED <<known, started, watching>>
  BY DEF NotifyWatcher, TypeOK, InformersTypeOK
<1>4. e.key \in Watches[r]
  BY <1>2 DEF Mirroring, OwnKeysOnly
<1>5. OwnKeysOnly'
  <2>1. ASSUME NEW q \in Resources, NEW n \in 1 .. Len(pending'[q])
        PROVE  pending'[q][n].key \in Watches[q]
    <3>1. CASE q = r
      <4>1. n \in 1 .. (l - 1)
        BY <1>2, <1>3, <2>1, <3>1
      <4>2. n + 1 \in 1 .. l
        BY <1>2, <4>1
      <4>3. pending'[q][n] = p[n + 1]
        BY <1>2, <1>3, <3>1, <4>1
      <4> QED BY <3>1, <4>2, <4>3 DEF Mirroring, OwnKeysOnly
    <3>2. CASE q # r
      BY <1>3, <2>1, <3>2 DEF Mirroring, OwnKeysOnly
    <3> QED BY <3>1, <3>2
  <2> QED BY <1>3, <2>1 DEF Mirroring, OwnKeysOnly
<1>6. CASE ~watching
  <2>1. UNCHANGED <<pc, verdict>>
    BY <1>6 DEF NotifyWatcher
  <2> QED BY <1>1, <1>3, <1>5, <1>6, <2>1 DEF Mirroring, NoHandlerPanic
<1>7. CASE watching
  <2>1. RemovalsFind
    BY <1>7 DEF Mirroring
  <2>2. Removes(e) => There(e.key)
    <3>1. 1 \in 1 .. l /\ 1 - 1 = 0 /\ 1 .. 0 = {}
      BY <1>2
    <3>2. Removes(e) => MirroredAfter(There(e.key), p, 0, e.key)
      BY <1>2, <2>1, <3>1 DEF RemovalsFind
    <3> QED BY <3>1, <3>2 DEF MirroredAfter
  <2>3. UNCHANGED <<pc, verdict>>
    BY <1>7, <2>2 DEF NotifyWatcher
  <2>4. /\ Stores(e) => mirror' = With(mirror, e.key, e.obj)
        /\ Removes(e) => mirror' = Without(mirror, e.key)
        /\ ~(Stores(e) \/ Removes(e)) => mirror' = mirror
    BY <1>7, <2>2 DEF NotifyWatcher, Stores, Removes
  <2>5. /\ \A j \in Keys : j # e.key => (Now(j) <=> There(j))
        /\ Stores(e) => Now(e.key)
        /\ There(e.key) /\ ~Removes(e) => Now(e.key)
    BY <2>4 DEF With, Without, Restrict
  <2>6. ASSUME NEW n \in 1 .. l, NEW j \in Keys, MirroredAfter(There(j), p, n, j)
        PROVE  MirroredAfter(Now(j), Tail(p), n - 1, j)
    <3>1. There(j) \in BOOLEAN /\ Now(j) \in BOOLEAN
      OBVIOUS
    <3>2. /\ e.key = j /\ Stores(e) => Now(j)
          /\ There(j) /\ ~(e.key = j /\ Removes(e)) => Now(j)
      BY <2>5
    <3> QED BY <1>1, <2>6, <3>1, <3>2, MirroredNext
  <2>7. ASSUME NEW q \in Resources, NEW n \in 1 .. Len(pending'[q]), Removes(pending'[q][n])
        PROVE  MirroredAfter(Now(pending'[q][n].key), pending'[q], n - 1, pending'[q][n].key)
    <3>1. CASE q = r
      <4> DEFINE k == p[n + 1].key
      <4>1. n \in 1 .. (l - 1)
        BY <1>2, <1>3, <2>7, <3>1
      <4>2. n \in 1 .. l /\ n + 1 \in 1 .. l /\ (n + 1) - 1 = n
        BY <1>2, <4>1
      <4>3. pending'[q] = Tail(p) /\ pending'[q][n] = p[n + 1]
        BY <1>2, <1>3, <3>1, <4>1
      <4>4. k \in Keys
        <5>1. p[n + 1] \in Event
          BY <1>1, <4>2
        <5> QED BY <5>1 DEF Event
      <4>5. MirroredAfter(There(k), p, n, k)
        <5>1. Removes(p[n + 1])
          BY <2>7, <4>3
        <5>2. MirroredAfter(There(k), p, (n + 1) - 1, k)
          BY <2>1, <4>2, <5>1 DEF RemovalsFind
        <5> QED BY <4>2, <5>2
      <4>6. MirroredAfter(Now(k), Tail(p), n - 1, k)
        BY <2>6, <4>2, <4>4, <4>5
      <4> QED BY <4>3, <4>6
    <3>2. CASE q # r
      <4> DEFINE k == pending[q][n].key
      <4>1. pending'[q] = pending[q] /\ k \in Watches[q]
        BY <1>3, <2>7, <3>2 DEF Mirroring, OwnKeysOnly
      <4>2. k \in Keys /\ k # e.key
        BY <1>4, <3>2, <4>1, InformersAssumption DEF OneInformerPerKey
      <4>3. MirroredAfter(There(k), pending[q], n - 1, k)
        BY <2>1, <2>7, <4>1 DEF RemovalsFind
      <4>4. There(k) <=> Now(k)
        BY <2>5, <4>2
      <4> QED BY <4>1, <4>3, <4>4 DEF MirroredAfter
    <3> QED BY <3>1, <3>2
  <2>8. ASSUME NEW q \in Resources, NEW j \in Keys, Exists(known[q][j])
        PROVE  MirroredAfter(Now(j), pending'[q], Len(pending'[q]), j)
    <3>1. MirroredAfter(There(j), pending[q], Len(pending[q]), j)
      BY <2>1, <2>8 DEF RemovalsFind
    <3>2. CASE q = r
      <4>1. l \in 1 .. l
        BY <1>2
      <4>2. pending'[q] = Tail(p) /\ Len(pending'[q]) = l - 1
        BY <1>2, <1>3, <3>2
      <4>3. MirroredAfter(Now(j), Tail(p), l - 1, j)
        BY <2>6, <3>1, <3>2, <4>1
      <4> QED BY <4>2, <4>3
    <3>3. CASE q # r
      <4>1. pending'[q] = pending[q] /\ j # e.key
        BY <1>3, <1>4, <2>8, <3>3 DEF Mirroring, OwnKeysOnly, OneInformerPerKey
      <4>2. There(j) <=> Now(j)
        BY <2>5, <4>1
      <4> QED BY <3>1, <4>1, <4>2 DEF MirroredAfter
    <3> QED BY <3>2, <3>3
  <2>9. RemovalsFind'
    BY <1>3, <2>7, <2>8 DEF RemovalsFind, MirroredAfter, Removes, Stores
  <2> QED BY <1>1, <1>3, <1>5, <2>3, <2>9 DEF Mirroring, NoHandlerPanic
<1> QED BY <1>6, <1>7

\* All other steps leave the informers and the mirror alone.
LEMMA OtherSteps ==
  ASSUME [Next]_vars, \A r \in Resources : ~Inform(r) /\ ~NotifyWatcher(r)
  PROVE  /\ UNCHANGED <<known, pending, mirror>>
         /\ watching' => watching \/ pc = "start"
         /\ pc' = "start" => pc = "start" /\ started' = started
         /\ verdict' = "crashed" => verdict = "crashed"
<1>1. CASE Environment \/ UNCHANGED vars
  BY <1>1 DEF Environment, vars, driverVars, purgeVars
<1>2. ASSUME NEW r \in Resources, HandleInPool(r)
      PROVE  UNCHANGED <<known, pending, mirror, watching, pc, started, verdict>>
  BY <1>2 DEF HandleInPool, purgeVars
<1>3. CASE Document
  <2> USE DEF Document, Operate, Finish, Watch, InformOnWatched, ApplyObject, DeleteObject,
     BeginApply, CheckNamespace, CreateObject, Answered, LoseReply, CreateConflict, PatchObject,
     CallRefused, CallFails, Adopt, DeleteCall, Preserve, DeleteAll, PurgeDelete, PurgeEnd,
     CancelWatch, StopInformers, ClearWatchers, ClearPool, driverVars, purgeVars
  <2>1. UNCHANGED <<known, pending, mirror>>
    BY <1>3
  <2>2. watching' => watching \/ pc = "start"
    BY <1>3
  <2>3. pc' # "start" \/ UNCHANGED <<pc, started>>
    BY <1>3
  <2>4. verdict' = "crashed" => verdict = "crashed"
    BY <1>3
  <2> QED BY <2>1, <2>2, <2>3, <2>4
<1> QED BY <1>1, <1>2, <1>3 DEF Next, Handle, Over

\* The invariant is inductive with one informer per key.
LEMMA MirroringStep ==
  ASSUME OneInformerPerKey, TypeOK, Mirroring, [Next]_vars
  PROVE  Mirroring'
<1>1. CASE \E r \in Resources : Inform(r)
  BY <1>1, InformMirrors
<1>2. CASE \E r \in Resources : NotifyWatcher(r)
  BY <1>2, NotifyMirrors
<1>3. CASE \A r \in Resources : ~Inform(r) /\ ~NotifyWatcher(r)
  <2>1. /\ UNCHANGED <<known, pending, mirror>>
        /\ watching' => watching \/ pc = "start"
        /\ pc' = "start" => pc = "start" /\ started' = started
        /\ verdict' = "crashed" => verdict = "crashed"
    BY <1>3, OtherSteps
  <2>2. (OwnKeysOnly <=> OwnKeysOnly') /\ (RemovalsFind <=> RemovalsFind')
    BY <2>1 DEF OwnKeysOnly, RemovalsFind, MirroredAfter, Removes, Stores
  <2> QED BY <2>1, <2>2 DEF Mirroring, NoHandlerPanic
<1> QED BY <1>1, <1>2, <1>3

\* No event makes a handler of Run panic, whatever the order in which the
\* informers report, the watches break and the run ends, as long as no two
\* informers report the same object (runner.go removeResource, object.go
\* InformOn): the removal of a path always comes after what stored it.
THEOREM NoPanic ==
  ASSUME OneInformerPerKey
  PROVE  Spec => []NoHandlerPanic
<1>1. Init => Mirroring
  <2> SUFFICES ASSUME Init PROVE Mirroring
    OBVIOUS
  <2>1. \A r \in Resources : pending[r] = <<>> /\ \A k \in Keys : ~Exists(known[r][k])
    BY DEF Init, InformersInit, Exists, Unseen
  <2> QED BY <2>1 DEF Init, Mirroring, OwnKeysOnly, RemovalsFind, NoHandlerPanic
<1>2. TypeOK /\ Mirroring /\ [Next]_vars => Mirroring'
  BY MirroringStep
<1>3. Mirroring => NoHandlerPanic
  BY DEF Mirroring
<1> QED BY <1>1, <1>2, <1>3, TypeCorrect, PTL DEF Spec

==============================================================================
