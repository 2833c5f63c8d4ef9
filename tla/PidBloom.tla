------------------------------ MODULE PidBloom ------------------------------
(***************************************************************************)
(* The Bloom filters that remember ids (lib/pid_bloom.c): for each of four *)
(* selectors, NUM_FILTERS generations of a filter that has one bit set for *)
(* each part of an id.  An id is a function from depths to positions.      *)
(* Ids are added to the newest generation, and copied to it when found in  *)
(* an older one.  A newest generation that gets too full advances all      *)
(* generations of all selectors, and the oldest are lost.                  *)
(*                                                                         *)
(* The filters are saved in one file, rewritten in place, and loaded from  *)
(* it when they are first used after a start; a file that cannot be opened *)
(* stays as it is, and a write that is cut off leaves one that the next    *)
(* start deletes.                                                          *)
(***************************************************************************)
EXTENDS Naturals, FiniteSets, FiniteSetsExt, Sequences

CONSTANTS
    IdsOf,              \* selector -> the ids it is used with
    Depths, Positions,  \* FILTER_DEPTH levels of FILTER_WIDTH bits
    NUM_FILTERS,
    MAX_FILTER_LOAD

Selectors == DOMAIN IdsOf

ASSUME PidBloomAssumption ==
    /\ \A s \in Selectors : IdsOf[s] \subseteq [Depths -> Positions]
    /\ IsFiniteSet(Depths) /\ Depths # {} /\ IsFiniteSet(Positions)
    /\ NUM_FILTERS \in Nat \ {0}
    /\ MAX_FILTER_LOAD \in Nat \ {0}

VARIABLES
    bloom,          \* the filters and their loads: what bloom_filter and
                    \* filter_load hold, or will once they are initialized
    initialized,    \* bloom_init was called
    file,           \* the saved filters, or NoFile
    age, saved_age, \* history: see IdMemory
    answer          \* the latest answer of pid_is_in_bloom

vars == <<bloom, initialized, file, age, saved_age, answer>>

Memory == INSTANCE IdMemory

-----------------------------------------------------------------------------
(* The filters.                                                            *)

Generation == [Depths -> SUBSET Positions]
EmptyGeneration == [d \in Depths |-> {}]
NoFile == <<>>
EmptyBloom ==
    [filter |-> [s \in Selectors |-> [g \in 1 .. NUM_FILTERS |-> EmptyGeneration]],
     load |-> [s \in Selectors |-> 0]]

Has(generation, id) == \A d \in Depths : id[d] \in generation[d]
Generations(b, s, id) == {g \in 1 .. NUM_FILTERS : Has(b.filter[s][g], id)}

\* pid_advance_bloom, once initialized
Advanced(b) ==
    [filter |-> [s \in Selectors |-> [g \in 1 .. NUM_FILTERS |->
                    IF g = 1 THEN EmptyGeneration ELSE b.filter[s][g - 1]]],
     load |-> [s \in Selectors |-> 0]]

\* pid_add_to_bloom before it looks at the load: a new bit, at whatever depth,
\* counts once.
IsNew(b, s, id) == ~Has(b.filter[s][1], id)
Added(b, s, id) ==
    [filter |-> [b.filter EXCEPT ![s][1] = [d \in Depths |-> @[d] \cup {id[d]}]],
     load |-> [b.load EXCEPT ![s] = IF IsNew(b, s, id) THEN @ + 1 ELSE @]]
IsFullLate(b, s) ==                     \* mutant: one id too many
    b.load[s] > MAX_FILTER_LOAD + 1
IsFull(b, s) == b.load[s] > MAX_FILTER_LOAD

\* init_filter_load: the load of a saved filter is the number of bits set at
\* its fullest depth; if that is too much, everything is dropped.
RecountedLeast(filter) ==               \* mutant: at its emptiest depth
    [s \in Selectors |-> Min({Cardinality(filter[s][1][d]) : d \in Depths})]
Recounted(filter) ==
    [s \in Selectors |-> Max({Cardinality(filter[s][1][d]) : d \in Depths})]
IsExcessive(filter) == \E s \in Selectors : Recounted(filter)[s] >= MAX_FILTER_LOAD

\* bloom_init
Loaded(f) ==
    IF f = NoFile \/ IsExcessive(f) THEN EmptyBloom
    ELSE [filter |-> f, load |-> Recounted(f)]

-----------------------------------------------------------------------------
(* The operations.                                                         *)

\* pid_save_bloom writes what b holds, or cannot open the file, or is cut off.
SaveAs(b, ages) ==
    \/ UNCHANGED <<file, saved_age>>
    \/ file' = b.filter /\ saved_age' = ages
    \/ file' = NoFile /\ saved_age' = Memory!Forgotten

\* pid_add_to_bloom
AddTo(s, id) ==
    LET b == Added(bloom, s, id)
        fresh == Memory!Fresh(age, s, id)
    IN  /\ initialized' = TRUE
        /\ IF IsFull(b, s)
           THEN /\ bloom' = Advanced(b)
                /\ age' = Memory!Older(fresh)
                /\ SaveAs(Advanced(b), age')
           ELSE /\ bloom' = b /\ age' = fresh
                /\ UNCHANGED <<file, saved_age>>

Add(s, id) == AddTo(s, id) /\ answer' = Memory!NoAnswer

\* pid_is_in_bloom: the newest generation that has the id counts.
IsInOnly(s, id) ==                      \* mutant: a hit is not copied
    LET found == Generations(bloom, s, id)
    IN  /\ answer' = [selector |-> s, id |-> id, found |-> found # {}]
        /\ initialized' = TRUE
        /\ age' = IF found = {} THEN age ELSE Memory!Fresh(age, s, id)
        /\ UNCHANGED <<bloom, file, saved_age>>
IsIn(s, id) ==
    LET found == Generations(bloom, s, id)
    IN  /\ answer' = [selector |-> s, id |-> id, found |-> found # {}]
        /\ \/ found # {} /\ 1 \notin found /\ AddTo(s, id)
           \/ /\ 1 \in found
              /\ age' = Memory!Fresh(age, s, id) /\ initialized' = TRUE
              /\ UNCHANGED <<bloom, file, saved_age>>
           \/ /\ found = {} /\ initialized' = TRUE
              /\ UNCHANGED <<bloom, file, age, saved_age>>

\* the end of do_gc
Advance ==
    /\ initialized
    /\ bloom' = Advanced(bloom) /\ age' = Memory!Older(age)
    /\ SaveAs(Advanced(bloom), age')
    /\ answer' = Memory!NoAnswer
    /\ UNCHANGED initialized

\* pcache_write
Save ==
    /\ initialized
    /\ SaveAs(bloom, age)
    /\ answer' = Memory!NoAnswer
    /\ UNCHANGED <<bloom, initialized, age>>

\* The program is killed at any time and starts again.
Restart ==
    /\ bloom' = Loaded(file)
    /\ age' = IF file = NoFile \/ IsExcessive(file) THEN Memory!Forgotten ELSE saved_age
    /\ initialized' = FALSE
    /\ answer' = Memory!NoAnswer
    /\ UNCHANGED <<file, saved_age>>

Init ==
    /\ bloom = EmptyBloom
    /\ initialized = FALSE
    /\ file = NoFile
    /\ age = Memory!Forgotten /\ saved_age = Memory!Forgotten
    /\ answer = Memory!NoAnswer

Next ==
    \/ \E s \in Selectors : \E id \in IdsOf[s] : Add(s, id) \/ IsIn(s, id)
    \/ Advance \/ Save \/ Restart

Spec == Init /\ [][Next]_vars

-----------------------------------------------------------------------------
(* Properties.                                                             *)

\* Every variable has its type.
TypeOK ==
    /\ bloom.filter \in [Selectors -> [1 .. NUM_FILTERS -> Generation]]
    /\ bloom.load \in [Selectors -> 0 .. MAX_FILTER_LOAD]
    /\ initialized \in BOOLEAN
    /\ file = NoFile \/ file \in [Selectors -> [1 .. NUM_FILTERS -> Generation]]
    /\ \A s \in Selectors : age[s] \in [IdsOf[s] -> 0 .. NUM_FILTERS]
    /\ \A s \in Selectors : saved_age[s] \in [IdsOf[s] -> 0 .. NUM_FILTERS]

\* The load of the newest generation is at least the number of bits set at any
\* depth (pid_bloom.c:175, "we may save too soon but not too late"), and at most
\* the number of ids in it, so that it is not advanced before more than
\* MAX_FILTER_LOAD different ids have been added to one of the selectors.
LoadIsHonest ==
    \A s \in Selectors :
        /\ \A d \in Depths : Cardinality(bloom.filter[s][1][d]) <= bloom.load[s]
        /\ bloom.load[s] <= Cardinality({id \in IdsOf[s] : age[s][id] = 0})

\* The filters do what IdMemory promises, whatever collides: an id that was
\* added or found is found until the filters were advanced NUM_FILTERS times,
\* and after a restart all that was saved is, or, if the file was bad or a
\* saved filter too full, nothing.
Remembers == Memory!Spec
=============================================================================
