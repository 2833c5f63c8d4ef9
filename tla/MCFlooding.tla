----------------------------- MODULE MCFlooding -----------------------------
(* Three daemons that all know each other, and a fourth that only n3 knows. *)
EXTENDS Flooding, TLC

CONSTANTS n1, n2, n3, n4, m, q, t

RingAndOne == n1 :> {n2, n3} @@ n2 :> {n1, n3} @@ n3 :> {n1, n2, n4} @@ n4 :> {n3}
DhtOfOne == [n \in Nodes |-> IF n = n2 THEN {n1} ELSE {}]
MCOrigin == [p \in Packets |-> n1]
ThreeForMessages == [p \in Packets |-> IF p = m THEN 3 ELSE 2]
=============================================================================
