------------------------------- MODULE Session -------------------------------
(***************************************************************************)
(* What a session of the object driver promises the run of a document:     *)
(* the objects the run creates are its own until they are deleted, by      *)
(* whomever; when it cleans up it creates no more, and it ends as clean    *)
(* only if none is left, as unclean if a deletion came to an error, which  *)
(* is then known of every object that is left.                             *)
(***************************************************************************)
CONSTANT Uids

VARIABLES
  phase,   \* how far the session is
  made,    \* the objects it has created, and knows of
  held,    \* those of them that nobody has deleted
  failed   \* the objects whose deletion it could not bring about

sessionVars == <<phase, made, held, failed>>

Init ==
  /\ phase = "open"
  /\ made = {} /\ held = {} /\ failed = {}

\* An object that was deleted is never the session's again: a new one of its
\* name is another object.
Create(u) ==
  /\ phase = "open"
  /\ u \notin made
  /\ made' = made \cup {u} /\ held' = held \cup {u}
  /\ UNCHANGED <<phase, failed>>

\* Objects are deleted by the session and by others, and go with their
\* namespace.
Lose ==
  /\ held' \subseteq held
  /\ UNCHANGED <<phase, made, failed>>

CleanUp ==
  /\ phase = "open"
  /\ phase' = "cleaning"
  /\ UNCHANGED <<made, held, failed>>

\* A deletion may take effect although the reply to it was an error.
Fail(u) ==
  /\ phase = "cleaning"
  /\ held' \subseteq held
  /\ failed' = failed \cup {u}
  /\ UNCHANGED <<phase, made>>

Conclude ==
  /\ phase = "cleaning"
  /\ held \subseteq failed
  /\ phase' = IF failed = {} THEN "clean" ELSE "unclean"
  /\ UNCHANGED <<made, held, failed>>

\* The session is told to preserve its objects, is aborted, or dies.
End ==
  /\ phase' = "ended"
  /\ UNCHANGED <<made, held, failed>>

Next ==
  \/ \E u \in Uids : Create(u) \/ Fail(u)
  \/ Lose
  \/ CleanUp
  \/ Conclude
  \/ End

Spec == Init /\ [][Next]_sessionVars

==============================================================================
