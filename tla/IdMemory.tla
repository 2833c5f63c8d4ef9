------------------------------ MODULE IdMemory ------------------------------
(***************************************************************************)
(* What the packet cache may expect of the memory of ids it has dropped    *)
(* (lib/pid_bloom.h): an id that was added, or found, is found again until *)
(* the memory has been advanced NUM_FILTERS times.  Ids that were never    *)
(* added may be found too.                                                 *)
(***************************************************************************)
EXTENDS Naturals

CONSTANTS
    IdsOf,          \* selector -> the ids it may be asked for
    NUM_FILTERS

VARIABLES
    age,            \* per selector and id: how often the memory was advanced
                    \* since, or NUM_FILTERS if the id may be forgotten
    saved_age,      \* the same for what is saved
    answer          \* what the latest question was answered

vars == <<age, saved_age, answer>>

Selectors == DOMAIN IdsOf
Questions == [selector : Selectors, id : UNION {IdsOf[s] : s \in Selectors}]

Forgotten == [s \in Selectors |-> [id \in IdsOf[s] |-> NUM_FILTERS]]
Older(a) == [s \in Selectors |-> [id \in IdsOf[s] |->
                IF a[s][id] < NUM_FILTERS THEN a[s][id] + 1 ELSE NUM_FILTERS]]
Fresh(a, s, id) == [a EXCEPT ![s][id] = 0]

NoAnswer == [selector |-> "none"]

Init == age = Forgotten /\ saved_age = Forgotten /\ answer = NoAnswer

\* the memory may become older on its own when something is added, and is
\* saved then; saving may fail, and lose what was saved before
Refresh(s, id) ==
    \/ age' = Fresh(age, s, id) /\ UNCHANGED saved_age
    \/ age' = Older(Fresh(age, s, id)) /\ saved_age' \in {age', saved_age, Forgotten}

Add(s, id) == Refresh(s, id) /\ answer' = NoAnswer

Ask(s, id, found) ==
    /\ age[s][id] < NUM_FILTERS => found
    /\ IF found THEN Refresh(s, id) ELSE UNCHANGED <<age, saved_age>>
    /\ answer' = [selector |-> s, id |-> id, found |-> found]

Advance ==
    /\ age' = Older(age) /\ saved_age' \in {age', saved_age, Forgotten}
    /\ answer' = NoAnswer

Save ==
    /\ saved_age' \in {age, saved_age, Forgotten}
    /\ UNCHANGED age /\ answer' = NoAnswer

Restart ==
    /\ age' \in {saved_age, Forgotten}
    /\ UNCHANGED saved_age /\ answer' = NoAnswer

Next ==
    \/ \E s \in Selectors : \E id \in IdsOf[s] :
          \/ Add(s, id)
          \/ \E found \in BOOLEAN : Ask(s, id, found)
    \/ Advance \/ Save \/ Restart

Spec == Init /\ [][Next]_vars
=============================================================================
