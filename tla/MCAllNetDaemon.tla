--------------------------- MODULE MCAllNetDaemon ---------------------------
(* The daemon with a tiny cache: one entry for two messages, slots of one   *)
(* ack, so that most packets meet a garbage collection.                     *)
EXTENDS AllNetDaemon, TLC

CONSTANTS e1, s1

MCEntryOf == [m \in Messages |-> e1]
MCSlotOf == [m \in Messages |-> s1]
MCSize == [m \in Messages |-> 1]
OneAck == {<<a>> : a \in ACK_REQ}
OneOrTwoAcks == OneAck \cup {<<a, b>> : a \in ACK_REQ, b \in ACK_REQ}
Symmetry == Permutations(ACK_REQ) \cup Permutations(Messages \ ACK_REQ)
TokenSymmetry == Permutations(Tokens \ {ZeroToken}) \cup Symmetry
=============================================================================
