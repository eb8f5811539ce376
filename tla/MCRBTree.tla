------------------------------ MODULE MCRBTree ------------------------------
(* Small instances of RBTree for TLC.                                      *)
EXTENDS RBTree

(* The node with the greatest number has the key of the one before it.     *)
MCKey == [n \in Node |-> IF n + 1 \in Node THEN n ELSE n - 1]

(* Pairs of neighbours have the same expiry.                               *)
MCExpire == [n \in Node |-> MCKey[n] \div 2]

=============================================================================
