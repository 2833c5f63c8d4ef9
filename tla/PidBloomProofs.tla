--------------------------- MODULE PidBloomProofs ---------------------------
(***************************************************************************)
(* The Bloom filters implement IdMemory, for any number of selectors and   *)
(* generations, any width and depth, and whatever ids collide.             *)
(*                                                                         *)
(* The invariant is that an id of age n has its bits set in generation     *)
(* n + 1, of the filters in memory and of those in the file: then it is    *)
(* found as long as there is such a generation.  For the loads it is also  *)
(* the converse: what is set in the newest generation, of both, comes from *)
(* ids of age 0.                                                           *)
(***************************************************************************)
EXTENDS PidBloom, FiniteSetTheorems, TLAPS

Filters == [Selectors -> [1 .. NUM_FILTERS -> Generation]]

IsAges(ages) ==
    /\ DOMAIN ages = Selectors
    /\ \A s \in Selectors : ages[s] \in [IdsOf[s] -> 0 .. NUM_FILTERS]

Held(filter, ages) ==
    \A s \in Selectors : \A id \in IdsOf[s] :
        ages[s][id] < NUM_FILTERS => Has(filter[s][ages[s][id] + 1], id)

InMemory == bloom.filter \in Filters /\ IsAges(age) /\ Held(bloom.filter, age)

InFile ==
    /\ IsAges(saved_age)
    /\ file # NoFile => file \in Filters /\ Held(file, saved_age)

BloomInv == InMemory /\ InFile

-----------------------------------------------------------------------------
\* What is forgotten need not be held.
LEMMA ForgottenHeld ==
    /\ IsAges(Memory!Forgotten)
    /\ \A filter : Held(filter, Memory!Forgotten)
BY PidBloomAssumption DEF IsAges, Held, Memory!Forgotten, Memory!Selectors, Selectors

\* Empty filters have the type of filters.
LEMMA EmptyType == EmptyBloom.filter \in Filters
BY DEF EmptyBloom, Filters, EmptyGeneration, Generation

\* pid_advance_bloom: each id gets older with the generation that holds it.
LEMMA AdvancedHeld ==
    ASSUME NEW b, b.filter \in Filters, NEW ages, IsAges(ages), Held(b.filter, ages)
    PROVE  /\ Advanced(b).filter \in Filters
           /\ IsAges(Memory!Older(ages))
           /\ Held(Advanced(b).filter, Memory!Older(ages))
<1> USE PidBloomAssumption
<1> DEFINE older == Memory!Older(ages)
           shifted == Advanced(b).filter
<1>1. shifted \in Filters
  BY DEF Advanced, Filters, EmptyGeneration, Generation
<1>2. IsAges(older)
  BY DEF IsAges, Memory!Older, Memory!Selectors, Selectors
<1>3. ASSUME NEW s \in Selectors, NEW id \in IdsOf[s], older[s][id] < NUM_FILTERS
      PROVE  Has(shifted[s][older[s][id] + 1], id)
  <2>1. ages[s][id] \in 0 .. NUM_FILTERS
    BY DEF IsAges
  <2>2. older[s][id] = ages[s][id] + 1 /\ ages[s][id] + 1 < NUM_FILTERS
    BY <1>3, <2>1 DEF Memory!Older, Memory!Selectors, Selectors
  <2>3. Has(b.filter[s][ages[s][id] + 1], id)
    BY <2>1, <2>2 DEF Held
  <2>4. shifted[s][ages[s][id] + 2] = b.filter[s][ages[s][id] + 1]
    <3>1. \A g \in 1 .. NUM_FILTERS : g # 1 => shifted[s][g] = b.filter[s][g - 1]
      BY DEF Advanced
    <3>2. /\ ages[s][id] + 2 \in 1 .. NUM_FILTERS /\ ages[s][id] + 2 # 1
          /\ (ages[s][id] + 2) - 1 = ages[s][id] + 1
      BY <2>1, <2>2
    <3> HIDE DEF shifted
    <3> QED
      BY <3>1, <3>2
  <2> QED
    BY <2>1, <2>2, <2>3, <2>4
<1> QED
  BY <1>1, <1>2, <1>3 DEF Held

\* pid_add_to_bloom: the id is in the newest generation, and no bit is lost.
LEMMA AddedHeld ==
    ASSUME InMemory, NEW s \in Selectors, NEW id \in IdsOf[s]
    PROVE  /\ Added(bloom, s, id).filter \in Filters
           /\ IsAges(Memory!Fresh(age, s, id))
           /\ Held(Added(bloom, s, id).filter, Memory!Fresh(age, s, id))
<1> USE PidBloomAssumption
<1> DEFINE fresh == Memory!Fresh(age, s, id)
           filter == Added(bloom, s, id).filter
<1>1. id \in [Depths -> Positions]
  OBVIOUS
<1>2. 1 \in 1 .. NUM_FILTERS
  OBVIOUS
<1>3. bloom.filter[s][1] \in Generation
  BY <1>2 DEF InMemory, Filters
<1>4. filter = [bloom.filter EXCEPT ![s][1] =
                   [d \in Depths |-> bloom.filter[s][1][d] \cup {id[d]}]]
  BY <1>2 DEF Added, InMemory, Filters
<1>5. [d \in Depths |-> bloom.filter[s][1][d] \cup {id[d]}] \in Generation
  BY <1>1, <1>3 DEF Generation
<1>6. filter \in Filters
  BY <1>4, <1>5 DEF InMemory, Filters
<1>7. IsAges(fresh)
  BY DEF InMemory, IsAges, Memory!Fresh
<1>8. ASSUME NEW t \in Selectors, NEW other \in IdsOf[t], NEW g \in 1 .. NUM_FILTERS,
             Has(bloom.filter[t][g], other)
      PROVE  Has(filter[t][g], other)
  <2>1. CASE t = s /\ g = 1
    <3>1. filter[t][g] = [d \in Depths |-> bloom.filter[s][1][d] \cup {id[d]}]
      BY <1>2, <1>4, <2>1 DEF InMemory, Filters
    <3> QED
      BY <1>8, <2>1, <3>1 DEF Has
  <2>2. CASE ~(t = s /\ g = 1)
    <3>1. filter[t][g] = bloom.filter[t][g]
      BY <1>4, <2>2 DEF InMemory, Filters
    <3> QED
      BY <1>8, <3>1
  <2> QED
    BY <2>1, <2>2
<1>9. Has(filter[s][1], id)
  <2>1. filter[s][1] = [d \in Depths |-> bloom.filter[s][1][d] \cup {id[d]}]
    BY <1>2, <1>4 DEF InMemory, Filters
  <2> QED
    BY <2>1 DEF Has
<1>10. ASSUME NEW t \in Selectors, NEW other \in IdsOf[t], fresh[t][other] < NUM_FILTERS
       PROVE  Has(filter[t][fresh[t][other] + 1], other)
  <2>1. CASE t = s /\ other = id
    <3>1. fresh[t][other] = 0
      BY <2>1 DEF InMemory, IsAges, Memory!Fresh
    <3> QED
      BY <1>9, <2>1, <3>1
  <2>2. CASE ~(t = s /\ other = id)
    <3>1. fresh[t][other] = age[t][other]
      BY <2>2 DEF InMemory, IsAges, Memory!Fresh
    <3>2. age[t][other] \in 0 .. NUM_FILTERS
      BY DEF InMemory, IsAges
    <3>3. Has(bloom.filter[t][age[t][other] + 1], other)
      BY <1>10, <3>1 DEF InMemory, Held
    <3>4. age[t][other] + 1 \in 1 .. NUM_FILTERS
      BY <1>10, <3>1, <3>2
    <3> QED
      BY <1>8, <3>1, <3>3, <3>4
  <2> QED
    BY <2>1, <2>2
<1> QED
  BY <1>6, <1>7, <1>10 DEF Held

\* pid_save_bloom: what is in the file is held, and IdMemory may have saved it.
LEMMA SavedHeld ==
    ASSUME NEW b, NEW ages, b.filter \in Filters, IsAges(ages), Held(b.filter, ages),
           SaveAs(b, ages), InFile
    PROVE  InFile' /\ saved_age' \in {ages, saved_age, Memory!Forgotten}
<1>0. CASE UNCHANGED <<file, saved_age>>
  BY <1>0 DEF InFile, IsAges, Held
<1>1. CASE file' = b.filter /\ saved_age' = ages
  BY <1>1 DEF InFile, IsAges, Held
<1>2. CASE file' = NoFile /\ saved_age' = Memory!Forgotten
  BY <1>2, ForgottenHeld DEF InFile, IsAges
<1> QED
  BY <1>0, <1>1, <1>2 DEF SaveAs

\* pid_add_to_bloom keeps the invariant and refreshes the id.
LEMMA AddToRefreshes ==
    ASSUME BloomInv, NEW s \in Selectors, NEW id \in IdsOf[s], AddTo(s, id)
    PROVE  BloomInv' /\ Memory!Refresh(s, id)
<1> DEFINE b == Added(bloom, s, id)
           fresh == Memory!Fresh(age, s, id)
<1>1. b.filter \in Filters /\ IsAges(fresh) /\ Held(b.filter, fresh)
  BY AddedHeld DEF BloomInv
<1>2. CASE IsFull(b, s)
  <2>1. /\ bloom' = Advanced(b) /\ age' = Memory!Older(fresh)
        /\ SaveAs(Advanced(b), Memory!Older(fresh))
    BY <1>2 DEF AddTo
  <2>2. /\ Advanced(b).filter \in Filters /\ IsAges(Memory!Older(fresh))
        /\ Held(Advanced(b).filter, Memory!Older(fresh))
    BY <1>1, AdvancedHeld
  <2>3. InMemory'
    BY <2>1, <2>2 DEF InMemory, IsAges, Held
  <2>4. InFile' /\ saved_age' \in {age', saved_age, Memory!Forgotten}
    BY <2>1, <2>2, SavedHeld DEF BloomInv
  <2> QED
    BY <2>1, <2>3, <2>4 DEF BloomInv, Memory!Refresh
<1>3. CASE ~IsFull(b, s)
  <2>1. bloom' = b /\ age' = fresh /\ UNCHANGED <<file, saved_age>>
    BY <1>3 DEF AddTo
  <2>2. InMemory'
    BY <1>1, <2>1 DEF InMemory, IsAges, Held
  <2>3. InFile'
    BY <2>1 DEF BloomInv, InFile, IsAges, Held
  <2> QED
    BY <2>1, <2>2, <2>3 DEF BloomInv, Memory!Refresh
<1> QED
  BY <1>2, <1>3

\* pid_is_in_bloom answers as IdMemory may.
LEMMA IsInAnswers ==
    ASSUME BloomInv, NEW s \in Selectors, NEW id \in IdsOf[s], IsIn(s, id)
    PROVE  BloomInv' /\ \E found \in BOOLEAN : Memory!Ask(s, id, found)
<1> USE PidBloomAssumption
<1> DEFINE found == Generations(bloom, s, id)
<1>1. answer' = [selector |-> s, id |-> id, found |-> found # {}]
  BY DEF IsIn
<1>2. age[s][id] < NUM_FILTERS => found # {}
  <2> SUFFICES ASSUME age[s][id] < NUM_FILTERS
               PROVE  found # {}
    OBVIOUS
  <2>1. age[s][id] + 1 \in 1 .. NUM_FILTERS
    BY DEF BloomInv, InMemory, IsAges
  <2>2. Has(bloom.filter[s][age[s][id] + 1], id)
    BY DEF BloomInv, InMemory, Held
  <2> QED
    BY <2>1, <2>2 DEF Generations
<1>3. CASE found # {} /\ 1 \notin found /\ AddTo(s, id)
  BY <1>1, <1>2, <1>3, AddToRefreshes DEF Memory!Ask
<1>4. CASE 1 \in found /\ age' = Memory!Fresh(age, s, id)
           /\ UNCHANGED <<bloom, file, saved_age>>
  <2>1. IsAges(Memory!Fresh(age, s, id))
    BY AddedHeld DEF BloomInv
  <2>2. Has(bloom.filter[s][1], id)
    BY <1>4 DEF Generations
  <2>3. ASSUME NEW t \in Selectors, NEW other \in IdsOf[t], age'[t][other] < NUM_FILTERS
        PROVE  Has(bloom.filter[t][age'[t][other] + 1], other)
    <3>1. CASE t = s /\ other = id
      <4>1. age'[t][other] = 0
        BY <1>4, <3>1 DEF BloomInv, InMemory, IsAges, Memory!Fresh
      <4> QED
        BY <2>2, <3>1, <4>1
    <3>2. CASE ~(t = s /\ other = id)
      <4>1. age'[t][other] = age[t][other]
        BY <1>4, <3>2 DEF BloomInv, InMemory, IsAges, Memory!Fresh
      <4> QED
        BY <2>3, <4>1 DEF BloomInv, InMemory, Held
    <3> QED
      BY <3>1, <3>2
  <2>4. InMemory'
    BY <1>4, <2>1, <2>3 DEF BloomInv, InMemory, IsAges, Held
  <2>5. InFile'
    BY <1>4 DEF BloomInv, InFile, IsAges, Held
  <2> QED
    BY <1>1, <1>4, <2>4, <2>5 DEF BloomInv, Memory!Ask, Memory!Refresh
<1>5. CASE found = {} /\ UNCHANGED <<bloom, file, age, saved_age>>
  <2>1. BloomInv'
    BY <1>5 DEF BloomInv, InMemory, InFile, IsAges, Held
  <2> QED
    BY <1>1, <1>2, <1>5, <2>1 DEF Memory!Ask
<1> QED
  BY <1>3, <1>4, <1>5 DEF IsIn

\* The end of do_gc.
LEMMA AdvanceAdvances ==
    ASSUME BloomInv, Advance
    PROVE  BloomInv' /\ Memory!Advance
<1>1. /\ Advanced(bloom).filter \in Filters /\ IsAges(Memory!Older(age))
      /\ Held(Advanced(bloom).filter, Memory!Older(age))
  BY AdvancedHeld DEF BloomInv, InMemory
<1>2. /\ bloom' = Advanced(bloom) /\ age' = Memory!Older(age)
      /\ SaveAs(Advanced(bloom), Memory!Older(age))
  BY DEF Advance
<1>3. InFile' /\ saved_age' \in {age', saved_age, Memory!Forgotten}
  BY <1>1, <1>2, SavedHeld DEF BloomInv
<1>4. InMemory'
  BY <1>1, <1>2 DEF InMemory, IsAges, Held
<1> QED
  BY <1>2, <1>3, <1>4 DEF BloomInv, Memory!Advance, Advance

\* pcache_write.
LEMMA SaveSaves ==
    ASSUME BloomInv, Save
    PROVE  BloomInv' /\ Memory!Save
<1>1. InFile' /\ saved_age' \in {age, saved_age, Memory!Forgotten}
  BY SavedHeld DEF Save, BloomInv, InMemory
<1>2. InMemory'
  BY DEF Save, BloomInv, InMemory, IsAges, Held
<1> QED
  BY <1>1, <1>2 DEF BloomInv, Memory!Save, Save

\* bloom_init after a start: all that was saved is there, or nothing.
LEMMA RestartRestarts ==
    ASSUME BloomInv, Restart
    PROVE  BloomInv' /\ Memory!Restart
<1>1. InMemory'
  <2>1. CASE file = NoFile \/ IsExcessive(file)
    <3>1. bloom' = EmptyBloom /\ age' = Memory!Forgotten
      BY <2>1 DEF Restart, Loaded
    <3> QED
      BY <3>1, EmptyType, ForgottenHeld DEF InMemory, IsAges, Held
  <2>2. CASE ~(file = NoFile \/ IsExcessive(file))
    <3>1. bloom'.filter = file /\ age' = saved_age
      BY <2>2 DEF Restart, Loaded
    <3> QED
      BY <2>2, <3>1 DEF BloomInv, InFile, InMemory, IsAges, Held
  <2> QED
    BY <2>1, <2>2
<1>2. InFile'
  BY DEF Restart, BloomInv, InFile, IsAges, Held
<1> QED
  BY <1>1, <1>2 DEF BloomInv, Restart, Memory!Restart

-----------------------------------------------------------------------------
\* The filters of pid_bloom.c do what IdMemory promises: what was added or found
\* is found until the filters have been advanced NUM_FILTERS times, also after a
\* restart if it was saved.
THEOREM BloomRemembers == Spec => Remembers
<1>1. Init => BloomInv
  BY EmptyType, ForgottenHeld DEF Init, BloomInv, InMemory, InFile
<1>2. Init => Memory!Init
  BY DEF Init, Memory!Init
<1>3. BloomInv /\ [Next]_vars => BloomInv' /\ [Memory!Next]_(Memory!vars)
  <2> SUFFICES ASSUME BloomInv, [Next]_vars
               PROVE  BloomInv' /\ [Memory!Next]_(Memory!vars)
    OBVIOUS
  <2>1. ASSUME NEW s \in Selectors, NEW id \in IdsOf[s], Add(s, id)
        PROVE  BloomInv' /\ Memory!Next
    <3>1. BloomInv' /\ Memory!Add(s, id)
      BY <2>1, AddToRefreshes DEF Add, Memory!Add
    <3> QED
      BY <3>1 DEF Memory!Next, Memory!Selectors, Selectors
  <2>2. ASSUME NEW s \in Selectors, NEW id \in IdsOf[s], IsIn(s, id)
        PROVE  BloomInv' /\ Memory!Next
    BY <2>2, IsInAnswers DEF Memory!Next, Memory!Selectors, Selectors
  <2>3. CASE Advance
    BY <2>3, AdvanceAdvances DEF Memory!Next
  <2>4. CASE Save
    BY <2>4, SaveSaves DEF Memory!Next
  <2>5. CASE Restart
    BY <2>5, RestartRestarts DEF Memory!Next
  <2>6. CASE UNCHANGED vars
    BY <2>6 DEF vars, BloomInv, InMemory, InFile, IsAges, Held, Memory!vars
  <2> QED
    BY <2>1, <2>2, <2>3, <2>4, <2>5, <2>6 DEF Next
<1> QED
  BY <1>1, <1>2, <1>3, PTL DEF Spec, Remembers, Memory!Spec
-----------------------------------------------------------------------------
(* The loads.  The bits of the newest generation come from ids of age 0: so *)
(* its load, also when it is counted again from a file, is at most their    *)
(* number.                                                                  *)

Newest(ages, s) == {id \in IdsOf[s] : ages[s][id] = 0}
Bits(filter, ages) ==
    \A s \in Selectors, d \in Depths :
        filter[s][1][d] \subseteq {id[d] : id \in Newest(ages, s)}
Honest(b, ages) ==
    \A s \in Selectors :
        /\ \A d \in Depths : Cardinality(b.filter[s][1][d]) <= b.load[s]
        /\ b.load[s] <= Cardinality(Newest(ages, s))

LoadInv ==
    /\ BloomInv /\ initialized \in BOOLEAN
    /\ bloom.load \in [Selectors -> 0 .. MAX_FILTER_LOAD]
    /\ Honest(bloom, age) /\ Bits(bloom.filter, age)
    /\ file # NoFile => Bits(file, saved_age)

\* The invariant is more than the two properties.
LEMMA LoadInvIsEnough == LoadInv => TypeOK /\ LoadIsHonest
BY DEF LoadInv, TypeOK, LoadIsHonest, Honest, Newest, BloomInv, InMemory, InFile, IsAges,
       Filters

\* Every set of natural numbers has a least one, and, if it is bounded, a
\* greatest one.
LEMMA LeastNumber ==
    ASSUME NEW S \in SUBSET Nat, S # {}
    PROVE  \E x \in S : \A y \in S : x <= y
<1> DEFINE less == OpToRel(<, Nat)
<1>1. IsWellFoundedOn(less, Nat)
  BY NatLessThanWellFounded, Zenon
<1>2. \A x, y \in Nat : x < y => <<x, y>> \in less
  BY Zenon DEF OpToRel
<1> HIDE DEF less
<1>3. \E x \in S : \A y \in S : ~(<<y, x>> \in less)
  BY <1>1, WFMin, Zenon
<1>4. PICK x \in S : \A y \in S : ~(<<y, x>> \in less)
  BY <1>3
<1>5. ASSUME NEW y \in S PROVE x <= y
  <2>1. ~(y < x)
    BY <1>2, <1>4
  <2> QED
    BY <2>1
<1> QED
  BY <1>5

LEMMA GreatestNumber ==
    ASSUME NEW S \in SUBSET Nat, S # {}, NEW n \in Nat, \A x \in S : x <= n
    PROVE  \E x \in S : \A y \in S : x >= y
<1> DEFINE bounds == {m \in Nat : \A x \in S : x <= m}
<1>1. PICK m \in bounds : \A k \in bounds : m <= k
  <2>1. n \in bounds /\ bounds \in SUBSET Nat
    OBVIOUS
  <2> HIDE DEF bounds
  <2> QED
    BY <2>1, LeastNumber
<1>2. m \in S
  <2> SUFFICES ASSUME m \notin S
               PROVE  FALSE
    OBVIOUS
  <2>1. \A x \in S : x \in Nat /\ x <= m /\ x # m
    OBVIOUS
  <2>2. m # 0 /\ m - 1 \in Nat
    <3>1. PICK x \in S : x \in Nat /\ x <= m /\ x # m
      BY <2>1
    <3> QED
      BY <3>1
  <2>3. \A x \in S : x <= m - 1
    BY <2>1
  <2>4. m <= m - 1
    BY <1>1, <2>2, <2>3
  <2> QED
    BY <2>4
<1> QED
  BY <1>2

\* There are finitely many ids: each is known by its graph.
LEMMA FiniteIds ==
    ASSUME NEW s \in Selectors
    PROVE  IsFiniteSet(IdsOf[s])
<1> USE PidBloomAssumption
<1> DEFINE all == [Depths -> Positions]
           graphs == SUBSET (Depths \X Positions)
           graph == [id \in all |-> {<<d, id[d]>> : d \in Depths}]
<1>1. IsFiniteSet(graphs)
  BY FS_Product, FS_SUBSET
<1>2. graph \in Injection(all, graphs)
  <2>1. graph \in [all -> graphs]
    OBVIOUS
  <2>2. ASSUME NEW a \in all, NEW b \in all, graph[a] = graph[b]
        PROVE  a = b
    <3>1. ASSUME NEW d \in Depths PROVE a[d] = b[d]
      <4>1. <<d, a[d]>> \in graph[b]
        BY <2>2
      <4> QED
        BY <4>1
    <3>2. a = [d \in Depths |-> a[d]] /\ b = [d \in Depths |-> b[d]]
      OBVIOUS
    <3> HIDE DEF all, graphs, graph
    <3> QED
      BY <3>1, <3>2
  <2> QED
    BY <2>1, <2>2 DEF Injection, IsInjective
<1> HIDE DEF graph, graphs
<1>3. IsFiniteSet(all)
  BY <1>1, <1>2, FS_Injection
<1> QED
  BY <1>3, FS_Subset

\* What is set at a depth can be counted, and so can the newest ids.
LEMMA Counts ==
    ASSUME NEW filter \in Filters, NEW s \in Selectors, NEW d \in Depths, NEW ages
    PROVE  /\ IsFiniteSet(filter[s][1][d]) /\ Cardinality(filter[s][1][d]) \in Nat
           /\ Cardinality(filter[s][1][d]) <= Cardinality(Positions)
           /\ IsFiniteSet(Newest(ages, s)) /\ Cardinality(Newest(ages, s)) \in Nat
<1> USE PidBloomAssumption
<1>1. filter[s][1][d] \in SUBSET Positions
  <2>1. 1 \in 1 .. NUM_FILTERS
    OBVIOUS
  <2> QED
    BY <2>1 DEF Filters, Generation
<1>2. Newest(ages, s) \in SUBSET IdsOf[s]
  BY DEF Newest
<1> QED
  BY <1>1, <1>2, FiniteIds, FS_Subset, FS_CardinalityType

\* Bits that come from the newest ids are at most as many.
LEMMA BitsAreFewer ==
    ASSUME NEW filter \in Filters, NEW ages, Bits(filter, ages), NEW s \in Selectors,
           NEW d \in Depths
    PROVE  Cardinality(filter[s][1][d]) <= Cardinality(Newest(ages, s))
<1> DEFINE newest == Newest(ages, s)
           all == {id[d] : id \in newest}
           part == [id \in newest |-> id[d]]
<1>1. part \in Surjection(newest, all)
  BY DEF Surjection
<1>2. IsFiniteSet(newest) /\ Cardinality(newest) \in Nat
      /\ Cardinality(filter[s][1][d]) \in Nat
  BY Counts
<1>3. filter[s][1][d] \in SUBSET all
  BY DEF Bits
<1> HIDE DEF newest, all, part
<1>4. IsFiniteSet(all) /\ Cardinality(all) <= Cardinality(newest)
  BY <1>1, <1>2, FS_Surjection
<1>5. Cardinality(filter[s][1][d]) <= Cardinality(all) /\ Cardinality(all) \in Nat
  BY <1>3, <1>4, FS_Subset, FS_CardinalityType
<1> QED
  BY <1>2, <1>4, <1>5 DEF newest

\* After pid_advance_bloom, and at the very first start, all is empty.
LEMMA EmptyIsHonest ==
    ASSUME NEW b, NEW ages, b.filter \in Filters, b.load = [s \in Selectors |-> 0],
           \A s \in Selectors : b.filter[s][1] = EmptyGeneration
    PROVE  /\ b.load \in [Selectors -> 0 .. MAX_FILTER_LOAD]
           /\ Honest(b, ages) /\ Bits(b.filter, ages)
<1>1. \A s \in Selectors, d \in Depths : b.filter[s][1][d] = {}
  BY DEF EmptyGeneration
<1>2. ASSUME NEW s \in Selectors
      PROVE  /\ \A d \in Depths : Cardinality(b.filter[s][1][d]) <= b.load[s]
             /\ b.load[s] <= Cardinality(Newest(ages, s))
  <2>1. Cardinality(Newest(ages, s)) \in Nat
    <3>1. PICK d \in Depths : TRUE
      BY PidBloomAssumption
    <3> QED
      BY <3>1, Counts
  <2>2. b.load[s] = 0 /\ \A d \in Depths : Cardinality(b.filter[s][1][d]) = 0
    BY <1>1, FS_EmptySet
  <2> QED
    BY <2>1, <2>2
<1>3. b.load \in [Selectors -> 0 .. MAX_FILTER_LOAD]
  BY PidBloomAssumption
<1> QED
  BY <1>1, <1>2, <1>3 DEF Honest, Bits

LEMMA AdvancedIsHonest ==
    ASSUME NEW b, b.filter \in Filters, NEW ages, IsAges(ages), Held(b.filter, ages),
           NEW others
    PROVE  /\ Advanced(b).load \in [Selectors -> 0 .. MAX_FILTER_LOAD]
           /\ Honest(Advanced(b), others) /\ Bits(Advanced(b).filter, others)
<1>1. Advanced(b).filter \in Filters
  BY AdvancedHeld
<1>2. Advanced(b).load = [s \in Selectors |-> 0]
  BY DEF Advanced
<1>3. \A s \in Selectors : Advanced(b).filter[s][1] = EmptyGeneration
  BY PidBloomAssumption DEF Advanced
<1> QED
  BY <1>1, <1>2, <1>3, EmptyIsHonest

\* init_filter_load: the load counted from a file is the number of bits set at
\* one of the depths, and no fewer than at the others.
LEMMA RecountedIsHonest ==
    ASSUME NEW filter \in Filters, NEW ages, Bits(filter, ages), ~IsExcessive(filter)
    PROVE  /\ Recounted(filter) \in [Selectors -> 0 .. MAX_FILTER_LOAD]
           /\ Honest([filter |-> filter, load |-> Recounted(filter)], ages)
<1> DEFINE loaded == [filter |-> filter, load |-> Recounted(filter)]
<1>1. ASSUME NEW s \in Selectors
      PROVE  /\ Recounted(filter)[s] \in 0 .. MAX_FILTER_LOAD
             /\ \A d \in Depths : Cardinality(filter[s][1][d]) <= Recounted(filter)[s]
             /\ Recounted(filter)[s] <= Cardinality(Newest(ages, s))
  <2> DEFINE counts == {Cardinality(filter[s][1][d]) : d \in Depths}
  <2>1. /\ counts \in SUBSET Nat /\ counts # {}
        /\ Cardinality(Positions) \in Nat
        /\ \A x \in counts : x <= Cardinality(Positions)
    BY Counts, PidBloomAssumption, FS_CardinalityType
  <2>2. Recounted(filter)[s] = Max(counts)
    BY DEF Recounted
  <2> HIDE DEF counts
  <2>3. \E x \in counts : \A y \in counts : x >= y
    BY <2>1, GreatestNumber
  <2>4. Max(counts) \in counts /\ \A y \in counts : Max(counts) >= y
    BY <2>3 DEF Max
  <2>5. PICK d \in Depths : Max(counts) = Cardinality(filter[s][1][d])
    BY <2>4 DEF counts
  <2>6. \A e \in Depths : Cardinality(filter[s][1][e]) \in Nat
                          /\ Cardinality(filter[s][1][e]) <= Max(counts)
    BY <2>1, <2>4, Counts DEF counts
  <2>7. Max(counts) <= Cardinality(Newest(ages, s))
    BY <2>5, BitsAreFewer
  <2>8. Max(counts) < MAX_FILTER_LOAD /\ Max(counts) \in Nat /\ MAX_FILTER_LOAD \in Nat
    <3>1. ~(Max(counts) >= MAX_FILTER_LOAD) /\ MAX_FILTER_LOAD \in Nat
      BY <2>2, PidBloomAssumption DEF IsExcessive
    <3>2. Max(counts) \in Nat
      BY <2>1, <2>4
    <3> QED
      BY <3>1, <3>2
  <2> QED
    BY <2>2, <2>6, <2>7, <2>8
<1>2. Recounted(filter) \in [Selectors -> 0 .. MAX_FILTER_LOAD]
  <2>1. Recounted(filter) = [s \in Selectors |-> Recounted(filter)[s]]
    BY DEF Recounted
  <2> QED
    BY <1>1, <2>1
<1>3. loaded.filter = filter /\ loaded.load = Recounted(filter)
  OBVIOUS
<1> HIDE DEF loaded
<1>4. Honest(loaded, ages)
  BY <1>1, <1>3 DEF Honest
<1> QED
  BY <1>2, <1>4 DEF loaded

\* pid_add_to_bloom counts an id that has a new bit: no id of age 0 has one.
LEMMA AddedIsHonest ==
    ASSUME LoadInv, NEW s \in Selectors, NEW id \in IdsOf[s]
    PROVE  /\ Added(bloom, s, id).load \in [Selectors -> 0 .. MAX_FILTER_LOAD + 1]
           /\ Honest(Added(bloom, s, id), Memory!Fresh(age, s, id))
           /\ Bits(Added(bloom, s, id).filter, Memory!Fresh(age, s, id))
<1> USE PidBloomAssumption
<1> DEFINE fresh == Memory!Fresh(age, s, id)
           b == Added(bloom, s, id)
           first == bloom.filter[s][1]
           more == IF IsNew(bloom, s, id) THEN bloom.load[s] + 1 ELSE bloom.load[s]
<1>1. /\ bloom.filter \in Filters /\ IsAges(age) /\ Held(bloom.filter, age)
      /\ bloom.load \in [Selectors -> 0 .. MAX_FILTER_LOAD]
      /\ Honest(bloom, age) /\ Bits(bloom.filter, age)
      /\ 1 \in 1 .. NUM_FILTERS
  BY DEF LoadInv, BloomInv, InMemory
<1>2. /\ b.filter[s][1] = [d \in Depths |-> first[d] \cup {id[d]}]
      /\ \A t \in Selectors : t # s => b.filter[t][1] = bloom.filter[t][1]
      /\ b.load = [bloom.load EXCEPT ![s] = more]
  BY <1>1 DEF Added, Filters
<1>3. /\ Newest(fresh, s) = Newest(age, s) \cup {id}
      /\ \A t \in Selectors : t # s => Newest(fresh, t) = Newest(age, t)
  <2>1. /\ \A t \in Selectors : t # s => fresh[t] = age[t]
        /\ fresh[s] = [age[s] EXCEPT ![id] = 0] /\ age[s] \in [IdsOf[s] -> 0 .. NUM_FILTERS]
    BY <1>1 DEF Memory!Fresh, IsAges
  <2> HIDE DEF fresh
  <2> QED
    BY <2>1 DEF Newest
<1>4. /\ bloom.load[s] \in Nat /\ bloom.load[s] <= MAX_FILTER_LOAD
      /\ \A d \in Depths : IsFiniteSet(first[d]) /\ Cardinality(first[d]) \in Nat
                           /\ Cardinality(first[d]) <= bloom.load[s]
      /\ IsFiniteSet(Newest(age, s)) /\ Cardinality(Newest(age, s)) \in Nat
      /\ bloom.load[s] <= Cardinality(Newest(age, s))
  BY <1>1, Counts DEF Honest
<1>5. more \in Nat /\ more <= MAX_FILTER_LOAD + 1 /\ bloom.load[s] <= more
  BY <1>4
<1>6. \A d \in Depths : Cardinality(b.filter[s][1][d]) <= more
  <2>1. CASE IsNew(bloom, s, id)
    <3>1. ASSUME NEW d \in Depths
          PROVE  Cardinality(first[d] \cup {id[d]}) <= bloom.load[s] + 1
      <4>1. /\ IsFiniteSet(first[d]) /\ Cardinality(first[d]) \in Nat
            /\ Cardinality(first[d]) <= bloom.load[s] /\ bloom.load[s] \in Nat
        BY <1>4
      <4>2. Cardinality(first[d] \cup {id[d]}) \in
                {Cardinality(first[d]), Cardinality(first[d]) + 1}
        BY <4>1, FS_AddElement
      <4> HIDE DEF first
      <4> QED
        BY <4>1, <4>2
    <3>2. more = bloom.load[s] + 1
      BY <2>1
    <3> HIDE DEF more, b, first
    <3> QED
      BY <1>2, <3>1, <3>2
  <2>2. CASE ~ IsNew(bloom, s, id)
    <3>1. \A d \in Depths : first[d] \cup {id[d]} = first[d]
      BY <2>2 DEF IsNew, Has
    <3> QED
      BY <1>2, <1>4, <2>2, <3>1
  <2> QED
    BY <2>1, <2>2
<1>7. more <= Cardinality(Newest(fresh, s))
  <2>1. Cardinality(Newest(fresh, s)) = IF id \in Newest(age, s)
                                        THEN Cardinality(Newest(age, s))
                                        ELSE Cardinality(Newest(age, s)) + 1
    BY <1>3, <1>4, FS_AddElement
  <2>2. CASE IsNew(bloom, s, id)
    <3>1. id \notin Newest(age, s)
      <4> SUFFICES ASSUME age[s][id] = 0 PROVE FALSE
        BY DEF Newest
      <4>1. Has(bloom.filter[s][0 + 1], id)
        BY <1>1 DEF Held
      <4> QED
        BY <2>2, <4>1 DEF IsNew
    <3> QED
      BY <1>4, <2>1, <2>2, <3>1
  <2>3. CASE ~ IsNew(bloom, s, id)
    BY <1>4, <2>1, <2>3
  <2> QED
    BY <2>2, <2>3
<1>8. Bits(b.filter, fresh)
  <2>1. ASSUME NEW t \in Selectors, NEW d \in Depths
        PROVE  b.filter[t][1][d] \subseteq {i[d] : i \in Newest(fresh, t)}
    <3>1. bloom.filter[t][1][d] \subseteq {i[d] : i \in Newest(age, t)}
      BY <1>1 DEF Bits
    <3> HIDE DEF b, fresh
    <3>2. CASE t = s
      <4>1. b.filter[t][1][d] = bloom.filter[t][1][d] \cup {id[d]}
        BY <1>2, <3>2
      <4> QED
        BY <1>3, <3>1, <3>2, <4>1
    <3>3. CASE t # s
      BY <1>2, <1>3, <3>1, <3>3
    <3> QED
      BY <3>2, <3>3
  <2> QED
    BY <2>1 DEF Bits
<1> HIDE DEF more, b, fresh
<1>9. b.load \in [Selectors -> 0 .. MAX_FILTER_LOAD + 1]
  <2>1. \A t \in Selectors : bloom.load[t] \in 0 .. MAX_FILTER_LOAD + 1
    BY <1>1
  <2>2. more \in 0 .. MAX_FILTER_LOAD + 1
    BY <1>5
  <2> QED
    BY <1>1, <1>2, <2>1, <2>2
<1>10. Honest(b, fresh)
  <2>1. ASSUME NEW t \in Selectors, t # s
        PROVE  /\ \A d \in Depths : Cardinality(b.filter[t][1][d]) <= b.load[t]
               /\ b.load[t] <= Cardinality(Newest(fresh, t))
    <3>1. b.load[t] = bloom.load[t]
      BY <1>1, <1>2, <2>1
    <3>2. \A d \in Depths : Cardinality(bloom.filter[t][1][d]) <= bloom.load[t]
      BY <1>1 DEF Honest
    <3>3. bloom.load[t] <= Cardinality(Newest(age, t))
      BY <1>1 DEF Honest
    <3>4. b.filter[t][1] = bloom.filter[t][1] /\ Newest(fresh, t) = Newest(age, t)
      BY <1>2, <1>3, <2>1
    <3> QED
      BY <3>1, <3>2, <3>3, <3>4
  <2>2. b.load[s] = more
    BY <1>1, <1>2
  <2> QED
    BY <1>6, <1>7, <2>1, <2>2 DEF Honest
<1> QED
  BY <1>8, <1>9, <1>10 DEF b, fresh

-----------------------------------------------------------------------------
\* The part of the invariant that is about one version of the filters.
LoadsOf(b, ages) ==
    /\ b.load \in [Selectors -> 0 .. MAX_FILTER_LOAD]
    /\ Honest(b, ages) /\ Bits(b.filter, ages)

LEMMA LoadInvParts ==
    ASSUME LoadInv
    PROVE  /\ BloomInv /\ initialized \in BOOLEAN /\ LoadsOf(bloom, age)
           /\ file # NoFile => Bits(file, saved_age)
           /\ bloom.filter \in Filters /\ IsAges(age) /\ Held(bloom.filter, age)
BY DEF LoadInv, LoadsOf, BloomInv, InMemory

LEMMA LoadInvKept ==
    ASSUME BloomInv', initialized' \in BOOLEAN, NEW b, NEW ages, bloom' = b, age' = ages,
           LoadsOf(b, ages), file' # NoFile => Bits(file', saved_age')
    PROVE  LoadInv'
BY DEF LoadInv, LoadsOf, Honest, Bits, Newest

\* pid_save_bloom: the bits in the file come from what was saved with them.
LEMMA SavedBits ==
    ASSUME NEW b, NEW ages, Bits(b.filter, ages), SaveAs(b, ages),
           file # NoFile => Bits(file, saved_age)
    PROVE  file' # NoFile => Bits(file', saved_age')
BY DEF SaveAs, Bits, Newest

\* pid_add_to_bloom.
LEMMA AddToHonest ==
    ASSUME LoadInv, NEW s \in Selectors, NEW id \in IdsOf[s], AddTo(s, id)
    PROVE  LoadInv'
<1> DEFINE b == Added(bloom, s, id)
           fresh == Memory!Fresh(age, s, id)
<1>1. /\ b.filter \in Filters /\ IsAges(fresh) /\ Held(b.filter, fresh)
      /\ b.load \in [Selectors -> 0 .. MAX_FILTER_LOAD + 1]
      /\ Honest(b, fresh) /\ Bits(b.filter, fresh)
  BY AddedHeld, AddedIsHonest, LoadInvParts DEF BloomInv
<1>2. BloomInv' /\ initialized' \in BOOLEAN
  BY LoadInvParts, AddToRefreshes DEF AddTo
<1>3. CASE IsFull(b, s)
  <2>1. /\ bloom' = Advanced(b) /\ age' = Memory!Older(fresh)
        /\ SaveAs(Advanced(b), Memory!Older(fresh))
    BY <1>3 DEF AddTo
  <2> HIDE DEF b, fresh
  <2>2. LoadsOf(Advanced(b), Memory!Older(fresh))
    BY <1>1, AdvancedIsHonest DEF LoadsOf
  <2>3. file' # NoFile => Bits(file', saved_age')
    BY <2>1, <2>2, LoadInvParts, SavedBits DEF LoadsOf
  <2> QED
    BY <1>2, <2>1, <2>2, <2>3, LoadInvKept
<1>4. CASE ~IsFull(b, s)
  <2>1. bloom' = b /\ age' = fresh /\ UNCHANGED <<file, saved_age>>
    BY <1>4 DEF AddTo
  <2>2. ~(b.load[s] > MAX_FILTER_LOAD)
    BY <1>4 DEF IsFull
  <2>3. \A t \in Selectors : t # s => b.load[t] = bloom.load[t]
    BY LoadInvParts DEF Added, LoadsOf
  <2> HIDE DEF b, fresh
  <2>4. b.load \in [Selectors -> 0 .. MAX_FILTER_LOAD]
    <3>1. MAX_FILTER_LOAD \in Nat
          /\ \A t \in Selectors : bloom.load[t] \in 0 .. MAX_FILTER_LOAD
      BY LoadInvParts, PidBloomAssumption DEF LoadsOf
    <3>2. \A t \in Selectors : b.load[t] \in 0 .. MAX_FILTER_LOAD + 1
      BY <1>1
    <3>3. b.load[s] \in 0 .. MAX_FILTER_LOAD
      BY <2>2, <3>1, <3>2
    <3>4. \A t \in Selectors : b.load[t] \in 0 .. MAX_FILTER_LOAD
      BY <2>3, <3>1, <3>3
    <3> QED
      BY <1>1, <3>4
  <2>5. LoadsOf(b, fresh)
    BY <1>1, <2>4 DEF LoadsOf
  <2>6. file' # NoFile => Bits(file', saved_age')
    BY <2>1, LoadInvParts DEF Bits, Newest
  <2> QED
    BY <1>2, <2>1, <2>5, <2>6, LoadInvKept
<1> QED
  BY <1>3, <1>4

\* pid_is_in_bloom: a hit makes an id newer, and adds no bit unless the id is
\* added.
LEMMA IsInHonest ==
    ASSUME LoadInv, NEW s \in Selectors, NEW id \in IdsOf[s], IsIn(s, id)
    PROVE  LoadInv'
<1> DEFINE fresh == Memory!Fresh(age, s, id)
<1>1. BloomInv'
  BY LoadInvParts, IsInAnswers
<1>2. CASE AddTo(s, id)
  BY <1>2, AddToHonest
<1>3. CASE /\ age' = fresh /\ initialized' = TRUE
           /\ UNCHANGED <<bloom, file, saved_age>>
  <2>1. /\ \A t \in Selectors : Newest(age, t) \subseteq Newest(fresh, t)
        /\ \A t \in Selectors : IsFiniteSet(Newest(fresh, t))
    <3>1. IsAges(age)
      BY LoadInvParts
    <3>2. ASSUME NEW t \in Selectors, NEW other \in IdsOf[t], age[t][other] = 0
          PROVE  fresh[t][other] = 0
      BY <3>1, <3>2 DEF IsAges, Memory!Fresh
    <3>3. ASSUME NEW t \in Selectors PROVE IsFiniteSet(Newest(fresh, t))
      <4>1. Newest(fresh, t) \in SUBSET IdsOf[t]
        BY DEF Newest
      <4> QED
        BY <4>1, FiniteIds, FS_Subset
    <3> HIDE DEF fresh
    <3> QED
      BY <3>2, <3>3 DEF Newest
  <2>2. LoadsOf(bloom, age)
    BY LoadInvParts
  <2> HIDE DEF fresh
  <2>3. ASSUME NEW t \in Selectors
        PROVE  bloom.load[t] <= Cardinality(Newest(fresh, t))
    <3>1. /\ Cardinality(Newest(age, t)) <= Cardinality(Newest(fresh, t))
          /\ IsFiniteSet(Newest(age, t))
      BY <2>1, FS_Subset
    <3>2. Cardinality(Newest(age, t)) \in Nat /\ Cardinality(Newest(fresh, t)) \in Nat
      BY <2>1, <3>1, FS_CardinalityType
    <3>3. bloom.load[t] \in Nat /\ bloom.load[t] <= Cardinality(Newest(age, t))
      BY <2>2 DEF LoadsOf, Honest
    <3> QED
      BY <3>1, <3>2, <3>3
  <2>4. Honest(bloom, fresh)
    BY <2>2, <2>3 DEF LoadsOf, Honest
  <2>5. Bits(bloom.filter, fresh)
    BY <2>1, <2>2 DEF LoadsOf, Bits
  <2>6. LoadsOf(bloom, fresh)
    BY <2>2, <2>4, <2>5 DEF LoadsOf
  <2>7. file' # NoFile => Bits(file', saved_age')
    BY <1>3, LoadInvParts DEF Bits, Newest
  <2>8. initialized' \in BOOLEAN /\ bloom' = bloom /\ age' = fresh
    BY <1>3
  <2> QED
    BY <1>1, <2>6, <2>7, <2>8, LoadInvKept
<1>4. CASE initialized' = TRUE /\ UNCHANGED <<bloom, file, age, saved_age>>
  <2>1. file' # NoFile => Bits(file', saved_age')
    BY <1>4, LoadInvParts DEF Bits, Newest
  <2> QED
    BY <1>1, <1>4, <2>1, LoadInvParts, LoadInvKept
<1> QED
  BY <1>2, <1>3, <1>4 DEF IsIn

\* pid_advance_bloom, at the end of do_gc.
LEMMA AdvanceHonest ==
    ASSUME LoadInv, Advance
    PROVE  LoadInv'
<1>1. /\ bloom' = Advanced(bloom) /\ age' = Memory!Older(age)
      /\ SaveAs(Advanced(bloom), Memory!Older(age)) /\ initialized' = initialized
  BY DEF Advance
<1>2. LoadsOf(Advanced(bloom), Memory!Older(age))
  BY LoadInvParts, AdvancedIsHonest DEF LoadsOf
<1>3. file' # NoFile => Bits(file', saved_age')
  BY <1>1, <1>2, LoadInvParts, SavedBits DEF LoadsOf
<1>4. BloomInv' /\ initialized' \in BOOLEAN
  BY <1>1, LoadInvParts, AdvanceAdvances
<1> QED
  BY <1>1, <1>2, <1>3, <1>4, LoadInvKept

\* pcache_write.
LEMMA SaveHonest ==
    ASSUME LoadInv, Save
    PROVE  LoadInv'
<1>1. /\ SaveAs(bloom, age)
      /\ bloom' = bloom /\ age' = age /\ initialized' = initialized
  BY DEF Save
<1>2. file' # NoFile => Bits(file', saved_age')
  BY <1>1, LoadInvParts, SavedBits DEF LoadsOf
<1>3. BloomInv'
  BY LoadInvParts, SaveSaves
<1> QED
  BY <1>1, <1>2, <1>3, LoadInvParts, LoadInvKept

\* bloom_init after a start: the load is counted again, or all is empty.
LEMMA RestartHonest ==
    ASSUME LoadInv, Restart
    PROVE  LoadInv'
<1>1. BloomInv' /\ initialized' \in BOOLEAN
  BY LoadInvParts, RestartRestarts DEF Restart
<1>2. file' # NoFile => Bits(file', saved_age')
  BY LoadInvParts DEF Restart, Bits, Newest
<1>3. CASE file = NoFile \/ IsExcessive(file)
  <2>1. bloom' = EmptyBloom /\ age' = Memory!Forgotten
    BY <1>3 DEF Restart, Loaded
  <2>2. /\ EmptyBloom.load = [s \in Selectors |-> 0]
        /\ \A s \in Selectors : EmptyBloom.filter[s][1] = EmptyGeneration
    BY PidBloomAssumption DEF EmptyBloom
  <2>3. LoadsOf(EmptyBloom, Memory!Forgotten)
    BY <2>2, EmptyType, EmptyIsHonest DEF LoadsOf
  <2> QED
    BY <1>1, <1>2, <2>1, <2>3, LoadInvKept
<1>4. CASE ~(file = NoFile \/ IsExcessive(file))
  <2> DEFINE loaded == [filter |-> file, load |-> Recounted(file)]
  <2>1. bloom' = loaded /\ age' = saved_age
    BY <1>4 DEF Restart, Loaded
  <2>2. file \in Filters /\ Bits(file, saved_age)
    BY <1>4, LoadInvParts DEF BloomInv, InFile
  <2>3. Recounted(file) \in [Selectors -> 0 .. MAX_FILTER_LOAD] /\ Honest(loaded, saved_age)
    BY <1>4, <2>2, RecountedIsHonest
  <2>4. loaded.filter = file /\ loaded.load = Recounted(file)
    OBVIOUS
  <2> HIDE DEF loaded
  <2>5. LoadsOf(loaded, saved_age)
    BY <2>2, <2>3, <2>4 DEF LoadsOf
  <2> QED
    BY <1>1, <1>2, <2>1, <2>5, LoadInvKept
<1> QED
  BY <1>3, <1>4

LEMMA LoadInvAlways == Spec => []LoadInv
<1>1. Init => LoadInv
  <2> SUFFICES ASSUME Init PROVE LoadInv
    OBVIOUS
  <2>1. /\ EmptyBloom.load = [s \in Selectors |-> 0]
        /\ \A s \in Selectors : EmptyBloom.filter[s][1] = EmptyGeneration
    BY PidBloomAssumption DEF EmptyBloom
  <2>2. LoadsOf(EmptyBloom, age)
    BY <2>1, EmptyType, EmptyIsHonest DEF LoadsOf
  <2>3. bloom = EmptyBloom /\ initialized = FALSE /\ file = NoFile
    BY DEF Init
  <2>4. BloomInv
    BY EmptyType, ForgottenHeld DEF Init, BloomInv, InMemory, InFile
  <2> QED
    BY <2>2, <2>3, <2>4 DEF LoadInv, LoadsOf
<1>2. LoadInv /\ [Next]_vars => LoadInv'
  <2> SUFFICES ASSUME LoadInv, [Next]_vars PROVE LoadInv'
    OBVIOUS
  <2>1. ASSUME NEW s \in Selectors, NEW id \in IdsOf[s], Add(s, id) \/ IsIn(s, id)
        PROVE  LoadInv'
    BY <2>1, AddToHonest, IsInHonest DEF Add
  <2>2. CASE Advance
    BY <2>2, AdvanceHonest
  <2>3. CASE Save
    BY <2>3, SaveHonest
  <2>4. CASE Restart
    BY <2>4, RestartHonest
  <2>5. CASE UNCHANGED vars
    <3>1. UNCHANGED <<bloom, initialized, file, age, saved_age>>
      BY <2>5 DEF vars
    <3>2. BloomInv'
      BY <3>1, LoadInvParts DEF BloomInv, InMemory, InFile, IsAges, Held
    <3>3. file' # NoFile => Bits(file', saved_age')
      BY <3>1, LoadInvParts DEF Bits, Newest
    <3> QED
      BY <3>1, <3>2, <3>3, LoadInvParts, LoadInvKept
  <2> QED
    BY <2>1, <2>2, <2>3, <2>4, <2>5 DEF Next
<1> QED
  BY <1>1, <1>2, PTL DEF Spec

\* Every variable has its type: no load is above MAX_FILTER_LOAD between two
\* operations, also when it was counted again from a file.
THEOREM TypeCorrect == Spec => []TypeOK
BY LoadInvAlways, LoadInvIsEnough, PTL

\* The load of a filter is between the number of its bits and that of its newest
\* ids, for any ids, widths and limits, and after any restart.
THEOREM LoadsHonest == Spec => []LoadIsHonest
BY LoadInvAlways, LoadInvIsEnough, PTL
=============================================================================
