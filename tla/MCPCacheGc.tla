----------------------------- MODULE MCPCacheGc -----------------------------
(* PCache with more messages and acks than its tables hold: one entry has   *)
(* room for two small messages, one slot for one ack, and "big" is a        *)
(* message for which gc_messages_entry frees a whole entry.                 *)
EXTENDS PCache, TLC

CONSTANTS m1, m2, big, e1, s1

MCEntryOf == [m \in Messages |-> e1]
MCSlotOf == [m \in Messages |-> s1]
MCSize == [m \in Messages |-> IF m = big THEN 2 ELSE 1]
Symmetry == Permutations({m1, m2})
=============================================================================
