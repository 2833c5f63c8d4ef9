--------------------------- MODULE MCPCacheTokens ---------------------------
(* PCache with more tokens than the token list can hold: the runs are       *)
(* about sent_to_tokens bitmaps across garbage collections.                 *)
EXTENDS PCache, TLC

CONSTANTS m1, e1, s1

MCEntryOf == [m \in Messages |-> e1]
MCSlotOf == [m \in Messages |-> s1]
MCSize == [m \in Messages |-> 1]
Symmetry == Permutations(Tokens)
=============================================================================
