----------------------------- MODULE OrderedSet -----------------------------
(***************************************************************************)
(* What the red-black tree promises to its users: a set of nodes, no two   *)
(* of them with the same key.                                              *)
(***************************************************************************)
EXTENDS Integers

CONSTANTS Node, Key

VARIABLE members

TypeOK == members \subseteq Node

KeysDistinct == \A m, n \in members : Key[m] = Key[n] => m = n

Init == members = {}

Insert(n) ==
  /\ \A m \in members : Key[m] # Key[n]
  /\ members' = members \cup {n}

Erase(n) == n \in members /\ members' = members \ {n}

Replace(victim, new) ==
  /\ victim \in members
  /\ new \notin members
  /\ Key[victim] = Key[new]
  /\ members' = (members \ {victim}) \cup {new}

Next ==
  \/ \E n \in Node : Insert(n)
  \/ \E n \in Node : Erase(n)
  \/ \E v, n \in Node : Replace(v, n)

Spec == Init /\ [][Next]_members

=============================================================================
