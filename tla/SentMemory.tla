----------------------------- MODULE SentMemory -----------------------------
(***************************************************************************)
(* What a table of the packet cache promises about the systems an item was *)
(* sent to (pcache.h, pcache_mark_token_sent and pcache_ack_for_token):    *)
(* an item is marked for one token at a time, because it is sent to that   *)
(* token's system, and its marks last as long as the cache holds the item  *)
(* and knows the token.  So the cache never withholds an item from a       *)
(* system it was not sent to, and never sends it twice to a system that it *)
(* still knows.                                                            *)
(***************************************************************************)
CONSTANTS Items, AnyToken

VARIABLES
    held,       \* the items in the table
    known,      \* the tokens in the token list
    reached     \* for every item, the tokens it need not be sent to

TypeOK ==
    /\ held \subseteq Items
    /\ known \subseteq AnyToken
    /\ reached \in [Items -> SUBSET known]

Init ==
    /\ held = {}
    /\ known = {}
    /\ reached = [i \in Items |-> {}]

\* items come and go, tokens are learned and forgotten, marks are kept
Surviving == [i \in Items |-> IF i \in held \cap held' THEN reached[i] \cap known' ELSE {}]

Change ==
    /\ held' \in SUBSET Items
    /\ known' \in SUBSET AnyToken

Turnover == Change /\ reached' = Surviving

Mark(i, t) ==
    /\ Change
    /\ i \in held' /\ t \in known'
    /\ reached' = [Surviving EXCEPT ![i] = @ \cup {t}]

Next == Turnover \/ \E i \in Items, t \in AnyToken : Mark(i, t)

Spec == Init /\ [][Next]_<<held, known, reached>>
=============================================================================
