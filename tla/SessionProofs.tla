---------------------------- MODULE SessionProofs ----------------------------
(***************************************************************************)
(* The object driver implements Session: a step of the driver, of an       *)
(* informer or of the server is one of the session, or none that its       *)
(* caller sees.                                                            *)
(***************************************************************************)
EXTENDS ObjectDriverProofs

\* What the refinement relies on, all of it proved already.
SessionInv == TypeOK /\ Tracking /\ Cleaning

\* It holds in every reachable state.
LEMMA SessionInvariant == Spec => []SessionInv
<1>1. Init => Tracking /\ Cleaning
  BY TrackingInit DEF Init, Cleaning, CleanupAttempted
<1>2. TypeOK /\ Tracking /\ Cleaning /\ [Next]_vars => Tracking' /\ Cleaning'
  BY TrackingStep, CleaningStep
<1>3. TypeOK /\ Tracking /\ Cleaning <=> SessionInv
  BY DEF SessionInv
<1> QED BY <1>1, <1>2, <1>3, TypeCorrect, PTL DEF Spec

\* The phase is the same unless DeleteAll begins or the verdict changes.
LEMMA PhaseStays ==
  ASSUME verdict' = verdict, pc # "purge", pc' # "purge"
  PROVE  SessionPhase' = SessionPhase
BY DEF SessionPhase

\* No object of the run comes to be held but by its creation.
LEMMA HeldShrinks ==
  ASSUME SessionInv, [Next]_vars, UNCHANGED (created \ orphaned)
  PROVE  Held' \subseteq Held
<1>1. ASSUME NEW u \in created \ orphaned, Live(u)'
      PROVE  Live(u)
  BY <1>1, GoneForGood DEF SessionInv, TypeOK, Tracking, CreatedPast
<1> QED BY <1>1 DEF Held

\* Steps that the caller of the session may notice only as the loss of objects.
LEMMA Unseeing ==
  ASSUME SessionInv, [Next]_vars, UNCHANGED (created \ orphaned), UNCHANGED errs,
         SessionPhase' = SessionPhase
  PROVE  Promised!Next
BY HeldShrinks DEF Promised!Next, Promised!Lose

\* A create is answered, and the object is the session's, or its reply is lost.
LEMMA CreateImplements ==
  ASSUME SessionInv, CreateObject
  PROVE  Promised!Next
<1>1. current \in Keys /\ server[current] \in Object /\ TypeOK /\ [Next]_vars
  BY DEF SessionInv, CreateObject, TypeOK, ClusterTypeOK, Next, Document, Operate
<1>2. /\ server[current].inc \in Nat /\ server[current].phase = "absent"
      /\ server[current].inc < MaxInc /\ MaxInc \in Nat
      /\ server' = [server EXCEPT ![current] = Fresh(@)]
      /\ created' = created \cup {UidOf(current, server'[current])}
      /\ orphaned' = orphaned \/ orphaned' = orphaned \cup {UidOf(current, server'[current])}
      /\ errs' = errs /\ verdict' = verdict
      /\ pc = "create" /\ pc' # "purge"
  BY <1>1, ClusterAssumption DEF CreateObject, Creatable, Exists, Object, Answered, LoseReply, purgeVars, driverVars
<1>3. server'[current] = Fresh(server[current])
  BY <1>1, <1>2 DEF TypeOK, ClusterTypeOK
<1>4. /\ UidOf(current, server'[current]) = <<current, server[current].inc + 1>>
      /\ server'[current].phase = "live" /\ server'[current].inc = server[current].inc + 1
  BY <1>3 DEF Fresh, UidOf
<1>5. PICK u \in Uids : u = UidOf(current, server'[current])
  BY <1>1, <1>2, <1>4 DEF Uids
<1>6. u[1] = current /\ u[2] = server[current].inc + 1
  BY <1>4, <1>5
<1>7. u \notin created
  BY <1>2, <1>6, <1>5 DEF SessionInv, Tracking, CreatedPast
<1>8. SessionPhase' = SessionPhase /\ SessionPhase = "open"
  <2>1. verdict = "running"
    BY <1>2 DEF SessionInv, Cleaning
  <2> QED BY <1>2, <2>1, PhaseStays DEF SessionPhase
<1>9. CASE orphaned' = orphaned \cup {u}
  <2>1. UNCHANGED (created \ orphaned)
    BY <1>2, <1>5, <1>7, <1>9
  <2> QED BY <1>1, <1>2, <1>8, <2>1, Unseeing
<1>10. CASE orphaned' = orphaned
  <2>1. u \notin created \ orphaned /\ created' \ orphaned' = (created \ orphaned) \cup {u}
    BY <1>2, <1>5, <1>7, <1>10 DEF SessionInv, TypeOK
  <2>2. Live(u)'
    BY <1>2, <1>4, <1>5, <1>6 DEF Live, Present, Exists
  <2>3. ASSUME NEW w \in created
        PROVE  Live(w)' <=> Live(w)
    <3>1. w[1] \in Keys /\ w[2] <= server[w[1]].inc /\ w \in Uids /\ w[2] \in Nat
      BY ClusterAssumption DEF SessionInv, Tracking, CreatedPast, TypeOK, Uids
    <3>2. CASE w[1] = current
      <4>1. w[2] # server[current].inc + 1
        BY <1>2, <3>1, <3>2
      <4> QED BY <1>2, <1>4, <3>2, <4>1 DEF Live, Present, Exists
    <3>3. CASE w[1] # current
      BY <1>1, <1>2, <3>1, <3>3 DEF Live, Present, TypeOK, ClusterTypeOK
    <3> QED BY <3>2, <3>3
  <2>4. Held' = Held \cup {u}
    BY <2>1, <2>2, <2>3 DEF Held
  <2>5. Promised!Create(u)
    BY <1>2, <1>8, <2>1, <2>4 DEF Promised!Create
  <2> QED BY <1>5, <2>5 DEF Promised!Next
<1> QED BY <1>2, <1>5, <1>9, <1>10

\* A run ends without a cleanup, or with the panic of a handler.
LEMMA EndImplements ==
  ASSUME SessionInv, verdict' \in {"aborted", "preserved", "crashed"}, pc' # "purge",
         UNCHANGED <<server, created, orphaned, errs>>
  PROVE  Promised!Next
<1>1. SessionPhase' = "ended"
  BY DEF SessionPhase
<1>2. Held' = Held
  BY DEF Held, Live, Present
<1> QED BY <1>1, <1>2 DEF Promised!Next, Promised!End

\* DeleteAll is over: what is left is what came to an error.
LEMMA PurgeEndImplements ==
  ASSUME SessionInv, PurgeEnd
  PROVE  Promised!Next
<1>1. /\ pc = "purge" /\ targets = {} /\ pc' = "cancelWatch"
      /\ verdict' = (IF errs = {} THEN "purged" ELSE "failed")
      /\ UNCHANGED <<server, created, orphaned, errs>>
  BY DEF PurgeEnd, history
<1>2. SessionPhase = "cleaning" /\ SessionPhase' = (IF errs = {} THEN "clean" ELSE "unclean")
  BY <1>1 DEF SessionPhase
<1>3. Held' = Held
  BY <1>1 DEF Held, Live, Present
<1>4. Held \subseteq errs
  BY <1>1 DEF SessionInv, Cleaning, Held
<1> QED BY <1>1, <1>2, <1>3, <1>4 DEF Promised!Next, Promised!Conclude

\* DeleteAll copies the pool.
LEMMA DeleteAllImplements ==
  ASSUME SessionInv, DeleteAll
  PROVE  Promised!Next
<1>1. /\ pc \in {"idle", "fatal"} /\ pc' = "purge"
      /\ UNCHANGED <<server, created, orphaned, errs, verdict>>
  BY DEF DeleteAll, Leaving, history
<1>2. verdict = "running"
  BY <1>1 DEF SessionInv, Cleaning
<1>3. SessionPhase = "open" /\ SessionPhase' = "cleaning"
  BY <1>1, <1>2 DEF SessionPhase
<1>4. Held' = Held
  BY <1>1 DEF Held, Live, Present
<1> QED BY <1>1, <1>3, <1>4 DEF Promised!Next, Promised!CleanUp

\* A deletion of DeleteAll takes effect, fails, or does both.
LEMMA PurgeDeleteImplements ==
  ASSUME SessionInv, NEW u \in targets, PurgeDelete(u)
  PROVE  Promised!Next
<1>1. /\ pc = "purge" /\ pc' = "purge" /\ UNCHANGED <<verdict, created, orphaned>>
      /\ errs' = errs \/ errs' = errs \cup {u}
  BY DEF PurgeDelete, history
<1>2. [Next]_vars /\ u \in Uids
  BY DEF Next, Document, Finish, SessionInv, TypeOK
<1>3. SessionPhase = "cleaning" /\ SessionPhase' = "cleaning"
  BY <1>1 DEF SessionPhase
<1>4. CASE errs' = errs
  BY <1>1, <1>2, <1>3, <1>4, Unseeing
<1>5. CASE errs' = errs \cup {u}
  <2>1. Promised!Fail(u)
    BY <1>1, <1>2, <1>3, <1>5, HeldShrinks DEF Promised!Fail
  <2> QED BY <1>2, <2>1 DEF Promised!Next
<1> QED BY <1>1, <1>4, <1>5

\* Every step is one of the session, or changes nothing in it.
LEMMA SessionStep ==
  ASSUME SessionInv, [Next]_vars
  PROVE  [Promised!Next]_<<SessionPhase, created \ orphaned, Held, errs>>
<1>1. CASE UNCHANGED vars
  BY <1>1 DEF vars, purgeVars, history, SessionPhase, Held, Live, Present
<1>2. CASE Environment \/ (\E r \in Resources : Inform(r) \/ HandleInPool(r))
  <2>1. UNCHANGED <<verdict, pc, errs, created, orphaned>>
    BY <1>2 DEF Environment, Inform, HandleInPool, purgeVars, history
  <2> QED BY <2>1, Unseeing DEF SessionPhase
<1>3. ASSUME NEW r \in Resources, NotifyWatcher(r)
      PROVE  Promised!Next
  <2>1. /\ UNCHANGED <<server, created, orphaned, errs>>
        /\ (pc' = pc /\ verdict' = verdict) \/ (verdict' = "crashed" /\ pc' = "over")
    BY <1>3 DEF NotifyWatcher, history
  <2>2. CASE pc' = pc /\ verdict' = verdict
    BY <2>1, <2>2, Unseeing DEF SessionPhase
  <2>3. CASE verdict' = "crashed" /\ pc' = "over"
    BY <2>1, <2>3, EndImplements
  <2> QED BY <2>1, <2>2, <2>3
<1>4. CASE Watch \/ \E k \in Managed : ApplyObject(k) \/ DeleteObject(k)
  <2>1. /\ UNCHANGED <<verdict, errs, created, orphaned>>
        /\ pc # "purge" /\ pc' # "purge"
    BY <1>4 DEF Watch, ApplyObject, DeleteObject, BeginApply, purgeVars, history
  <2> QED BY <2>1, PhaseStays, Unseeing
<1>5. CASE CheckNamespace \/ CreateConflict \/ PatchObject \/ CallRefused \/ CallFails \/ Adopt \/ DeleteCall
  <2>1. UNCHANGED <<verdict, errs, created, orphaned>>
    BY <1>5 DEF CheckNamespace, CreateConflict, PatchObject, CallRefused, CallFails, Adopt,
       DeleteCall, purgeVars, history
  <2>2. pc # "purge" /\ pc' # "purge"
    BY <1>5 DEF CheckNamespace, CreateConflict, PatchObject, CallRefused, Refused, CallFails,
       Adopt, DeleteCall, BeginApply, Answered, LoseReply
  <2> QED BY <2>1, <2>2, PhaseStays, Unseeing
<1>6. CASE InformOnWatched
  <2>1. /\ UNCHANGED <<server, created, orphaned, errs>> /\ pc # "purge" /\ pc' # "purge"
        /\ verdict' = verdict \/ verdict' = "aborted"
    BY <1>6 DEF InformOnWatched, history
  <2>2. CASE verdict' = verdict
    BY <2>1, <2>2, PhaseStays, Unseeing
  <2>3. CASE verdict' = "aborted"
    BY <2>1, <2>3, EndImplements
  <2> QED BY <2>1, <2>2, <2>3
<1>7. CASE Preserve
  BY <1>7, EndImplements DEF Preserve, history
<1>8. CASE CancelWatch \/ StopInformers \/ ClearWatchers \/ ClearPool
  <2>1. /\ UNCHANGED <<verdict, errs, created, orphaned>>
        /\ pc # "purge" /\ pc' # "purge"
    BY <1>8 DEF CancelWatch, StopInformers, ClearWatchers, ClearPool, purgeVars, history
  <2> QED BY <2>1, PhaseStays, Unseeing
<1> QED BY <1>1, <1>2, <1>3, <1>4, <1>5, <1>6, <1>7, <1>8, CreateImplements, DeleteAllImplements,
    PurgeDeleteImplements, PurgeEndImplements DEF Next, Document, Operate, Finish, Handle, Over

\* The run of a document may take the object driver for a Session (object.go
\* Apply, Delete, DeleteAll): what it creates is its own until somebody deletes
\* it, and when DeleteAll succeeds nothing of it is left.
THEOREM DriverImplements == Spec => ImplementsSession
<1>1. Init => Promised!Init
  <2> SUFFICES ASSUME Init PROVE Promised!Init
    OBVIOUS
  <2>1. SessionPhase = "open"
    BY DEF Init, SessionPhase
  <2>2. created \ orphaned = {} /\ Held = {} /\ errs = {}
    BY DEF Init, Held
  <2> QED BY <2>1, <2>2 DEF Promised!Init
<1>2. SessionInv /\ [Next]_vars => [Promised!Next]_<<SessionPhase, created \ orphaned, Held, errs>>
  BY SessionStep
<1> QED BY <1>1, <1>2, SessionInvariant, PTL DEF Spec, ImplementsSession, Promised!Spec, Promised!sessionVars

==============================================================================
