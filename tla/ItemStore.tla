------------------------------ MODULE ItemStore ------------------------------
(***************************************************************************)
(* What the Rego data document promises the run of a document: it holds    *)
(* items under paths, an item is stored or removed in one step, and        *)
(* neither touches any other item.  ObjectDriver's mirror is used so.      *)
(***************************************************************************)
CONSTANTS Paths, Contents

VARIABLE items   \* the item under each path that has one

Init == items = [p \in {} |-> CHOOSE c \in Contents : TRUE]

Store(p, c) ==
  items' = [q \in DOMAIN items \cup {p} |-> IF q = p THEN c ELSE items[q]]

Remove(p) ==
  /\ p \in DOMAIN items
  /\ items' = [q \in DOMAIN items \ {p} |-> items[q]]

Next == \E p \in Paths : Remove(p) \/ \E c \in Contents : Store(p, c)

Spec == Init /\ [][Next]_items

==============================================================================
