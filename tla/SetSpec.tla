------------------------------- MODULE SetSpec -------------------------------
(***************************************************************************)
(* What src/runtime/set.wat promises: a set is a finite set, its operators *)
(* are those of set algebra, and pop takes any one element.                *)
(***************************************************************************)
CONSTANTS
  Names,  \* the variables of a program that hold sets
  Keys,
  None    \* what pop gives for an empty set

VARIABLES
  members,  \* the set each variable holds
  answer    \* what the last pop gave

vars == <<members, answer>>

Init == members = [x \in Names |-> {}] /\ answer = None

Assign(x, s) == members' = [members EXCEPT ![x] = s] /\ answer' = None

Take(x) ==
  \/ members[x] = {} /\ answer' = None /\ UNCHANGED members
  \/ \E k \in members[x] :
       /\ members' = [members EXCEPT ![x] = @ \ {k}]
       /\ answer' = k

Next == \E x \in Names :
  \/ Assign(x, {})
  \/ \E k \in Keys : Assign(x, members[x] \cup {k})
  \/ \E y \in Names :
       \/ Assign(x, members[x] \cup members[y])
       \/ Assign(x, members[x] \cap members[y])
       \/ Assign(x, members[x] \ members[y])
       \/ Assign(x, (members[x] \ members[y]) \cup (members[y] \ members[x]))
  \/ Take(x)

Spec == Init /\ [][Next]_vars
=============================================================================
