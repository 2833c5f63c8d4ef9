---------------------------- MODULE PCacheProofs ----------------------------
(***************************************************************************)
(* Proofs about the packet cache, for any number of messages, tokens,      *)
(* entries and slots.                                                      *)
(***************************************************************************)
EXTENDS PCache, FiniteSetTheorems, SequenceTheorems, TLAPS

(* The inductive invariant: every table is well formed and within bounds.   *)

MessageTable(table) ==
    /\ DOMAIN table \subseteq Messages
    /\ \A m \in DOMAIN table :
          table[m] \in [priority : Priorities, sent_to_tokens : SUBSET Bits]

AckTable(table) ==
    /\ DOMAIN table \subseteq Messages
    /\ \A a \in DOMAIN table :
          table[a] \in [max_hops : Hops, sent_to_tokens : SUBSET Bits]

TokenList(list) ==
    /\ list \in Seq(AnyToken)
    /\ Len(list) <= MAX_TOKENS
    /\ \A i, j \in DOMAIN list : list[i] = list[j] => i = j

\* no id was added after the n-th rotation
Stamped(b, n) ==
    /\ DOMAIN b = Filters
    /\ \A f \in Filters : /\ DOMAIN b[f] \subseteq Messages
                          /\ \A m \in DOMAIN b[f] : b[f][m] \in 0 .. n

\* nor NUM_FILTERS rotations before
Filter(b, n) ==
    /\ n \in 0 .. MAX_ROTATIONS
    /\ Stamped(b, n)
    /\ \A f \in Filters : \A m \in DOMAIN b[f] : n < b[f][m] + NUM_FILTERS

EntryIn(S, e) == {m \in S : EntryOf[m] = e}
EntriesFit(S) == \A e \in Entries : Used(EntryIn(S, e)) <= MESSAGE_STORAGE_SIZE
SlotsFit(table) == \A s \in Slots : SlotUse(table, s) <= ACKS_PER_SLOT

Good(messages, acks, tokens, b, n) ==
    /\ MessageTable(messages) /\ EntriesFit(DOMAIN messages)
    /\ AckTable(acks) /\ SlotsFit(acks)
    /\ TokenList(tokens)
    /\ Filter(b, n)

IInv ==
    /\ Good(message_table, ack_table, token_list, bloom, rotations)
    /\ local_token \in 0 .. MAX_GCS
    /\ expired \subseteq Messages
    /\ gc_recent \in BOOLEAN
    /\ halted = FALSE

(* What the Bloom filters may become, b after n rotations: an id is lost     *)
(* NUM_FILTERS rotations after it was last added, and no sooner.           *)
Follows(b, n) ==
    /\ rotations <= n
    /\ \A f \in Filters : \A m \in DOMAIN bloom[f] :
          \/ m \in DOMAIN b[f] /\ b[f][m] >= bloom[f][m]
          \/ n >= bloom[f][m] + NUM_FILTERS

-----------------------------------------------------------------------------
(* Functions with a changing domain, and the Bloom filters.                *)

LEMMA PutDomain ==
    ASSUME NEW f, NEW x, NEW v
    PROVE  /\ DOMAIN Put(f, x, v) = DOMAIN f \cup {x}
           /\ \A y \in DOMAIN f \cup {x} : Put(f, x, v)[y] = IF y = x THEN v ELSE f[y]
BY DEF Put

LEMMA KeepDomain ==
    ASSUME NEW f, NEW S
    PROVE  /\ DOMAIN Keep(f, S) = DOMAIN f \cap S
           /\ \A y \in DOMAIN f \cap S : Keep(f, S)[y] = f[y]
BY DEF Keep

\* Adding ids to a filter.
LEMMA RememberStamped ==
    ASSUME NEW b, NEW n \in Nat, Stamped(b, n), NEW f \in Filters,
           NEW added, DOMAIN added \subseteq Messages,
           \A m \in DOMAIN added : added[m] \in 0 .. n
    PROVE  /\ Stamped(Remember(b, f, added), n)
           /\ \A g \in Filters : g # f => Remember(b, f, added)[g] = b[g]
           /\ DOMAIN Remember(b, f, added)[f] = DOMAIN b[f] \cup DOMAIN added
           /\ \A m \in DOMAIN b[f] \cup DOMAIN added :
                 Remember(b, f, added)[f][m] = IF m \in DOMAIN added THEN added[m] ELSE b[f][m]
<1> DEFINE c == Remember(b, f, added)
<1>1. DOMAIN b = Filters /\ DOMAIN c = Filters
  BY DEF Stamped, Remember
<1>2. \A g \in Filters : g # f => c[g] = b[g]
  BY <1>1 DEF Remember
<1>3. c[f] = [m \in DOMAIN b[f] \cup DOMAIN added |-> IF m \in DOMAIN added THEN added[m] ELSE b[f][m]]
  BY <1>1 DEF Remember
<1> HIDE DEF c
<1>4. ASSUME NEW g \in Filters
      PROVE  DOMAIN c[g] \subseteq Messages /\ \A m \in DOMAIN c[g] : c[g][m] \in 0 .. n
  <2>1. CASE g = f
    BY <1>3, <2>1 DEF Stamped
  <2>2. CASE g # f
    BY <1>2, <2>2 DEF Stamped
  <2> QED BY <2>1, <2>2
<1>5. Stamped(c, n)
  BY <1>1, <1>4 DEF Stamped
<1> QED BY <1>2, <1>3, <1>5 DEF c

\* The n-th pid_advance_bloom leaves valid filters.
LEMMA GenerationsFilter ==
    ASSUME NEW b, NEW n \in 0 .. MAX_ROTATIONS, Stamped(b, n)
    PROVE  /\ Filter(Generations(b, n), n)
           /\ \A f \in Filters :
                 /\ DOMAIN Generations(b, n)[f] = {m \in DOMAIN b[f] : n < b[f][m] + NUM_FILTERS}
                 /\ \A m \in DOMAIN Generations(b, n)[f] : Generations(b, n)[f][m] = b[f][m]
<1> DEFINE c == Generations(b, n)
           left(f) == {m \in DOMAIN b[f] : n < b[f][m] + NUM_FILTERS}
<1>1. DOMAIN c = Filters
  BY DEF Generations
<1>2. ASSUME NEW f \in Filters
      PROVE  DOMAIN c[f] = left(f) /\ \A m \in DOMAIN c[f] : c[f][m] = b[f][m]
  <2>1. c[f] = Keep(b[f], left(f))
    BY DEF Generations
  <2>2. DOMAIN b[f] \cap left(f) = left(f)
    OBVIOUS
  <2>3. DOMAIN c[f] = DOMAIN b[f] \cap left(f) /\ \A m \in DOMAIN b[f] \cap left(f) : c[f][m] = b[f][m]
    <3> HIDE DEF c, left
    <3> QED BY <2>1 DEF Keep
  <2> HIDE DEF c, left
  <2> QED BY <2>2, <2>3
<1>3. \A f \in Filters : /\ DOMAIN c[f] \subseteq Messages
                         /\ \A m \in DOMAIN c[f] : c[f][m] \in 0 .. n /\ n < c[f][m] + NUM_FILTERS
  BY <1>2 DEF Stamped
<1> HIDE DEF c
<1>4. Filter(c, n)
  BY <1>1, <1>3 DEF Filter, Stamped
<1> QED BY <1>2, <1>4 DEF c

\* Rotations forget nothing too soon, when nothing was taken out before.
LEMMA GenerationsFollow ==
    ASSUME NEW b, NEW n \in 0 .. MAX_ROTATIONS, Stamped(b, n),
           Filter(bloom, rotations), rotations <= n,
           \A f \in Filters : \A m \in DOMAIN bloom[f] :
              m \in DOMAIN b[f] /\ b[f][m] >= bloom[f][m]
    PROVE  Follows(Generations(b, n), n)
<1> DEFINE c == Generations(b, n)
<1> SUFFICES ASSUME NEW f \in Filters, NEW m \in DOMAIN bloom[f]
             PROVE  \/ m \in DOMAIN c[f] /\ c[f][m] >= bloom[f][m]
                    \/ n >= bloom[f][m] + NUM_FILTERS
  BY DEF Follows
<1>1. /\ m \in DOMAIN b[f] /\ b[f][m] >= bloom[f][m]
      /\ b[f][m] \in 0 .. n /\ bloom[f][m] \in 0 .. rotations
      /\ n \in Nat /\ rotations \in Nat /\ NUM_FILTERS \in Nat
  BY FilterAssumption DEF Stamped, Filter
<1>2. CASE n < b[f][m] + NUM_FILTERS
  BY <1>1, <1>2, GenerationsFilter
<1>3. CASE ~ n < b[f][m] + NUM_FILTERS
  BY <1>1, <1>3
<1> QED BY <1>2, <1>3

LEMMA FollowsUnchanged ==
    ASSUME Filter(bloom, rotations)
    PROVE  Follows(bloom, rotations)
BY DEF Follows, Filter, Stamped

\* An id that is added is there, whether or not it fills its generation.
LEMMA AddToBloomFilter ==
    ASSUME Filter(bloom, rotations), NEW f \in Filters, NEW m \in Messages, AddToBloom(f, m)
    PROVE  /\ Filter(bloom', rotations') /\ Follows(bloom', rotations')
           /\ m \in DOMAIN bloom'[f] /\ bloom'[f][m] = rotations
           /\ \A g \in Filters : DOMAIN bloom'[g] \subseteq DOMAIN bloom[g] \cup (IF g = f THEN {m} ELSE {})
<1> DEFINE added == [x \in {m} |-> rotations]
           b == Remember(bloom, f, added)
<1>1. PICK full \in {0, 1} : /\ rotations + full <= MAX_ROTATIONS
                             /\ rotations' = rotations + full
                             /\ bloom' = Generations(b, rotations + full)
  BY DEF AddToBloom, RotateFilters
<1>2. rotations \in Nat /\ MAX_ROTATIONS \in Nat /\ NUM_FILTERS \in Nat /\ 1 < NUM_FILTERS
  BY FilterAssumption DEF Filter
<1> DEFINE n == rotations + full
<1>3. n \in 0 .. MAX_ROTATIONS /\ rotations <= n /\ n <= rotations + 1
  BY <1>1, <1>2
<1>4. rotations' = n /\ bloom' = Generations(b, n)
  BY <1>1
<1> HIDE DEF n
<1>5. Stamped(bloom, n)
  BY <1>2, <1>3 DEF Filter, Stamped
<1>6. DOMAIN added = {m} /\ added[m] = rotations /\ rotations \in 0 .. n
  BY <1>2, <1>3
<1> HIDE DEF added
<1>7. /\ Stamped(b, n)
      /\ \A g \in Filters : g # f => b[g] = bloom[g]
      /\ DOMAIN b[f] = DOMAIN bloom[f] \cup {m}
      /\ \A x \in DOMAIN b[f] : b[f][x] = IF x = m THEN rotations ELSE bloom[f][x]
  BY <1>3, <1>5, <1>6, RememberStamped
<1> HIDE DEF b
<1>8. \A g \in Filters : \A x \in DOMAIN bloom[g] : x \in DOMAIN b[g] /\ b[g][x] >= bloom[g][x]
  <2> TAKE g \in Filters
  <2> TAKE x \in DOMAIN bloom[g]
  <2>1. bloom[g][x] \in 0 .. rotations
    BY DEF Filter, Stamped
  <2>2. CASE g = f
    BY <1>7, <1>2, <2>1, <2>2
  <2>3. CASE g # f
    BY <1>7, <1>2, <2>1, <2>3
  <2> QED BY <2>2, <2>3
<1>9. Filter(bloom', rotations') /\ Follows(bloom', rotations')
  BY <1>3, <1>4, <1>7, <1>8, GenerationsFilter, GenerationsFollow
<1>10. m \in DOMAIN b[f] /\ b[f][m] = rotations /\ n < rotations + NUM_FILTERS
  BY <1>2, <1>3, <1>7
<1>11. \A g \in Filters : DOMAIN Generations(b, n)[g] \subseteq DOMAIN b[g]
  BY <1>3, <1>7, GenerationsFilter
<1>12. m \in DOMAIN bloom'[f] /\ bloom'[f][m] = rotations
  BY <1>3, <1>4, <1>7, <1>10, GenerationsFilter
<1> QED BY <1>4, <1>7, <1>9, <1>11, <1>12

LEMMA RefreshFilter ==
    ASSUME Filter(bloom, rotations), NEW f \in Filters, NEW m \in Messages,
           RefreshIfInBloom(f, m)
    PROVE  /\ Filter(bloom', rotations') /\ Follows(bloom', rotations')
           /\ InBloom(f, m) => m \in DOMAIN bloom'[f]
BY AddToBloomFilter, FollowsUnchanged DEF RefreshIfInBloom, filters, InBloom

\* A gc adds the ids that it drops, each at one of the rotations that these
\* ids cause, and rotates once more; none of them is lost on the way.
LEMMA RememberDroppedFilter ==
    ASSUME Filter(bloom, rotations), NEW A \in SUBSET Messages, NEW M \in SUBSET Messages,
           NEW full \in Fills(M), NEW acks \in Added(A, full), NEW messages \in Added(M, full)
    PROVE  LET n == rotations + full + 1
               b == Generations(RememberDropped(bloom, acks, messages), n)
           IN  /\ Filter(b, n) /\ Follows(b, n)
               /\ \A m \in M : m \in DOMAIN b["message"] /\ b["message"][m] >= rotations
               /\ \A a \in A : a \in DOMAIN b["ack"] /\ b["ack"][a] >= rotations
<1> DEFINE n == rotations + full + 1
           b1 == Remember(bloom, "ack", acks)
           b2 == Remember(b1, "message", messages)
<1>1. /\ rotations \in Nat /\ MAX_ROTATIONS \in Nat /\ NUM_FILTERS \in Nat /\ GC_FILLS \in Nat
      /\ full \in 0 .. GC_FILLS /\ rotations + full < MAX_ROTATIONS /\ GC_FILLS + 1 < NUM_FILTERS
  BY FilterAssumption DEF Filter, Fills
<1>2. n \in 0 .. MAX_ROTATIONS /\ rotations <= n /\ n < rotations + NUM_FILTERS
  BY <1>1
<1>3. /\ DOMAIN acks = A /\ \A a \in A : acks[a] \in 0 .. n /\ acks[a] >= rotations
      /\ DOMAIN messages = M /\ \A m \in M : messages[m] \in 0 .. n /\ messages[m] >= rotations
  <2>1. \A k \in rotations .. rotations + full : k \in 0 .. n /\ k >= rotations
    BY <1>1
  <2> HIDE DEF n
  <2> QED BY <2>1 DEF Added
<1> HIDE DEF n
<1>4. Stamped(bloom, n) /\ "ack" \in Filters /\ "message" \in Filters
  BY <1>1, <1>2 DEF Filter, Stamped, Filters
<1>5. /\ Stamped(b1, n)
      /\ b1["message"] = bloom["message"]
      /\ DOMAIN b1["ack"] = DOMAIN bloom["ack"] \cup A
      /\ \A a \in DOMAIN b1["ack"] : b1["ack"][a] = IF a \in A THEN acks[a] ELSE bloom["ack"][a]
  BY <1>2, <1>3, <1>4, RememberStamped
<1> HIDE DEF b1
<1>6. /\ Stamped(b2, n)
      /\ b2["ack"] = b1["ack"]
      /\ DOMAIN b2["message"] = DOMAIN b1["message"] \cup M
      /\ \A m \in DOMAIN b2["message"] :
            b2["message"][m] = IF m \in M THEN messages[m] ELSE b1["message"][m]
  BY <1>2, <1>3, <1>4, <1>5, RememberStamped
<1> HIDE DEF b2
<1>7. \A f \in Filters : \A m \in DOMAIN bloom[f] :
         m \in DOMAIN b2[f] /\ b2[f][m] >= bloom[f][m]
  <2> TAKE f \in Filters
  <2> TAKE m \in DOMAIN bloom[f]
  <2>1. bloom[f][m] \in 0 .. rotations
    BY DEF Filter, Stamped
  <2>2. f = "ack" \/ f = "message"
    BY DEF Filters
  <2>3. CASE f = "ack"
    <3>1. CASE m \in A
      BY <1>1, <1>2, <1>3, <1>5, <1>6, <2>1, <2>3, <3>1
    <3>2. CASE m \notin A
      BY <1>1, <1>5, <1>6, <2>1, <2>3, <3>2
    <3> QED BY <3>1, <3>2
  <2>4. CASE f = "message"
    <3>1. CASE m \in M
      BY <1>1, <1>2, <1>3, <1>5, <1>6, <2>1, <2>4, <3>1
    <3>2. CASE m \notin M
      BY <1>1, <1>5, <1>6, <2>1, <2>4, <3>2
    <3> QED BY <3>1, <3>2
  <2> QED BY <2>2, <2>3, <2>4
<1>8. Filter(Generations(b2, n), n) /\ Follows(Generations(b2, n), n)
  BY <1>2, <1>6, <1>7, GenerationsFilter, GenerationsFollow
<1>9. ASSUME NEW m \in M
      PROVE  /\ m \in DOMAIN Generations(b2, n)["message"]
             /\ Generations(b2, n)["message"][m] >= rotations
  <2>1. m \in DOMAIN b2["message"] /\ b2["message"][m] >= rotations /\ b2["message"][m] \in 0 .. n
    BY <1>3, <1>6
  <2>2. n < b2["message"][m] + NUM_FILTERS
    BY <1>1, <1>2, <2>1
  <2> QED BY <1>2, <1>4, <1>6, <2>1, <2>2, GenerationsFilter
<1>10. ASSUME NEW a \in A
       PROVE  /\ a \in DOMAIN Generations(b2, n)["ack"]
              /\ Generations(b2, n)["ack"][a] >= rotations
  <2>1. a \in DOMAIN b2["ack"] /\ b2["ack"][a] >= rotations /\ b2["ack"][a] \in 0 .. n
    BY <1>3, <1>5, <1>6
  <2>2. n < b2["ack"][a] + NUM_FILTERS
    BY <1>1, <1>2, <2>1
  <2> QED BY <1>2, <1>4, <1>6, <2>1, <2>2, GenerationsFilter
<1>11. RememberDropped(bloom, acks, messages) = b2
  BY DEF RememberDropped, b1, b2
<1> QED BY <1>8, <1>9, <1>10, <1>11 DEF n

-----------------------------------------------------------------------------
(* Room in the tables.                                                     *)

\* The bytes of messages are counted message by message.
LEMMA UsedIs ==
    /\ Used({}) = 0
    /\ \A S \in SUBSET Messages :
          /\ Used(S) \in Nat
          /\ \A m \in Messages \ S :
                Used(S \cup {m}) = Used(S) + Size[m] + MESSAGE_HEADER_SIZE
<1> DEFINE length(m) == Size[m] + MESSAGE_HEADER_SIZE
           one(m) == {m} \X (1 .. length(m))
<1>1. Used({}) = 0
  BY FS_EmptySet DEF Used, Bytes
<1>2. ASSUME NEW m \in Messages
      PROVE  length(m) \in Nat /\ length(m) <= MESSAGE_STORAGE_SIZE
  BY TableAssumption
<1>3. ASSUME NEW S \in SUBSET Messages
      PROVE  IsFiniteSet(Bytes(S)) /\ Used(S) \in Nat
  <2>1. IsFiniteSet(Messages) /\ 1 \in Int /\ MESSAGE_STORAGE_SIZE \in Int
    BY TableAssumption
  <2>2. IsFiniteSet(Messages \X (1 .. MESSAGE_STORAGE_SIZE))
    BY <2>1, FS_Interval, FS_Product
  <2>3. \A m \in Messages : 1 .. length(m) \subseteq 1 .. MESSAGE_STORAGE_SIZE
    <3>1. \A k \in Nat : k <= MESSAGE_STORAGE_SIZE => 1 .. k \subseteq 1 .. MESSAGE_STORAGE_SIZE
      BY <2>1
    <3> HIDE DEF length
    <3> QED
      BY <1>2, <3>1
  <2>4. Bytes(S) \subseteq Messages \X (1 .. MESSAGE_STORAGE_SIZE)
    <3> HIDE DEF length
    <3>1. \A m \in S : one(m) \subseteq Messages \X (1 .. MESSAGE_STORAGE_SIZE)
      BY <2>3
    <3>2. Bytes(S) = UNION {one(m) : m \in S}
      BY DEF Bytes, length
    <3> HIDE DEF one
    <3> QED
      BY <3>1, <3>2
  <2> QED
    BY <2>2, <2>4, FS_Subset, FS_CardinalityType DEF Used
<1>4. ASSUME NEW S \in SUBSET Messages, NEW m \in Messages \ S
      PROVE  Used(S \cup {m}) = Used(S) + length(m)
  <2>1. length(m) \in Nat
    BY <1>2
  <2>2. IsFiniteSet(one(m)) /\ Cardinality(one(m)) = length(m)
    <3> HIDE DEF length
    <3>1. 1 \in Int /\ length(m) \in Int
      BY <2>1
    <3>2. IsFiniteSet(1 .. length(m)) /\ Cardinality(1 .. length(m)) = length(m)
      BY <2>1, <3>1, FS_Interval
    <3>3. IsFiniteSet({m}) /\ Cardinality({m}) = 1
      BY FS_Singleton
    <3>4. IsFiniteSet(one(m)) /\ Cardinality(one(m)) = 1 * length(m)
      BY <3>2, <3>3, FS_Product
    <3> QED
      BY <2>1, <3>4
  <2>3. Bytes(S \cup {m}) = Bytes(S) \cup one(m)
    BY DEF Bytes
  <2>4. Bytes(S) \cap one(m) = {}
    <3>1. ASSUME NEW x \in Bytes(S) PROVE x \notin one(m)
      <4>1. PICK k \in S : x \in one(k)
        BY DEF Bytes
      <4>2. x[1] = k
        BY <4>1
      <4>3. x \in one(m) => x[1] = m
        OBVIOUS
      <4> QED
        BY <4>2, <4>3
    <3> QED
      BY <3>1
  <2>5. IsFiniteSet(Bytes(S)) /\ Cardinality(Bytes(S)) \in Nat
    BY <1>3 DEF Used
  <2> HIDE DEF one, length
  <2>6. Cardinality(Bytes(S) \cup one(m)) = Cardinality(Bytes(S)) + Cardinality(one(m)) - Cardinality(Bytes(S) \cap one(m))
    BY <2>2, <2>5, FS_Union
  <2>7. Cardinality(Bytes(S) \cap one(m)) = 0
    BY <2>4, FS_EmptySet
  <2>8. Cardinality(Bytes(S \cup {m})) = Cardinality(Bytes(S)) + length(m) - 0
    BY <2>2, <2>3, <2>6, <2>7
  <2>9. \A x, y \in Nat : x + y - 0 = x + y
    OBVIOUS
  <2> QED
    BY <2>1, <2>5, <2>8, <2>9 DEF Used
<1>5. ASSUME NEW S \in SUBSET Messages, NEW m \in Messages \ S
      PROVE  Used(S \cup {m}) = Used(S) + Size[m] + MESSAGE_HEADER_SIZE
  <2>1. Used(S) \in Nat /\ Size[m] \in Nat /\ MESSAGE_HEADER_SIZE \in Nat
    BY <1>3, TableAssumption
  <2> QED
    BY <1>4, <2>1
<1> QED
  BY <1>1, <1>3, <1>5

\* Taking a message out of an entry does not fill it.
LEMMA UsedWithout ==
    ASSUME NEW S \in SUBSET Messages, NEW m \in Messages
    PROVE  Used(S \ {m}) <= Used(S)
<1>1. CASE m \notin S
  <2>1. S \ {m} = S
    BY <1>1
  <2>2. Used(S \ {m}) = Used(S)
    BY <2>1
  <2>3. Used(S) \in Nat
    BY UsedIs
  <2> QED BY <2>2, <2>3
<1>2. CASE m \in S
  <2>1. (S \ {m}) \cup {m} = S
    BY <1>2
  <2>2. S \ {m} \in SUBSET Messages /\ m \in Messages \ (S \ {m})
    OBVIOUS
  <2>3. Used(S) = Used(S \ {m}) + Size[m] + MESSAGE_HEADER_SIZE
    BY <2>1, <2>2, UsedIs
  <2>4. Used(S \ {m}) \in Nat /\ Size[m] \in Nat /\ MESSAGE_HEADER_SIZE \in Nat
    BY <2>2, UsedIs, TableAssumption
  <2> QED BY <2>3, <2>4
<1> QED BY <1>1, <1>2

LEMMA EntriesFitWithout ==
    ASSUME NEW S \in SUBSET Messages, EntriesFit(S), NEW m \in Messages
    PROVE  EntriesFit(S \ {m})
<1> SUFFICES ASSUME NEW e \in Entries
             PROVE  Used(EntryIn(S \ {m}, e)) <= MESSAGE_STORAGE_SIZE
  BY DEF EntriesFit
<1>1. EntryIn(S \ {m}, e) = EntryIn(S, e) \ {m} /\ EntryIn(S, e) \in SUBSET Messages
  BY DEF EntryIn
<1>2. Used(EntryIn(S, e) \ {m}) <= Used(EntryIn(S, e))
  BY <1>1, UsedWithout
<1>3. /\ Used(EntryIn(S, e)) \in Nat /\ Used(EntryIn(S, e) \ {m}) \in Nat
      /\ Used(EntryIn(S, e)) <= MESSAGE_STORAGE_SIZE /\ MESSAGE_STORAGE_SIZE \in Nat
  BY <1>1, UsedIs, TableAssumption DEF EntriesFit
<1> QED BY <1>1, <1>2, <1>3

\* A message is put only in an entry that has room for it.
LEMMA EntriesFitWith ==
    ASSUME NEW S \in SUBSET Messages, EntriesFit(S),
           NEW m \in Messages \ S, Fits(EntryIn(S, EntryOf[m]), m)
    PROVE  EntriesFit(S \cup {m})
<1> SUFFICES ASSUME NEW e \in Entries
             PROVE  Used(EntryIn(S \cup {m}, e)) <= MESSAGE_STORAGE_SIZE
  BY DEF EntriesFit
<1>1. CASE e = EntryOf[m]
  <2>1. /\ EntryIn(S \cup {m}, e) = EntryIn(S, e) \cup {m}
        /\ EntryIn(S, e) \in SUBSET Messages /\ m \in Messages \ EntryIn(S, e)
    BY <1>1 DEF EntryIn
  <2>2. Used(EntryIn(S, e) \cup {m}) = Used(EntryIn(S, e)) + Size[m] + MESSAGE_HEADER_SIZE
    BY <2>1, UsedIs
  <2> QED BY <1>1, <2>1, <2>2 DEF Fits
<1>2. CASE e # EntryOf[m]
  <2>1. EntryIn(S \cup {m}, e) = EntryIn(S, e)
    BY <1>2 DEF EntryIn
  <2> QED BY <2>1 DEF EntriesFit
<1> QED BY <1>1, <1>2

LEMMA SlotUseNat ==
    ASSUME NEW table, DOMAIN table \subseteq Messages, NEW s
    PROVE  /\ SlotUse(table, s) \in Nat
           /\ IsFiniteSet({x \in DOMAIN table : SlotOf[x] = s})
<1>1. {x \in DOMAIN table : SlotOf[x] = s} \in SUBSET Messages
  OBVIOUS
<1>2. IsFiniteSet({x \in DOMAIN table : SlotOf[x] = s})
  BY <1>1, FS_Subset, TableAssumption
<1> QED BY <1>2, FS_CardinalityType DEF SlotUse

\* An ack is put only in a slot that has a free place.
LEMMA SlotsFitWith ==
    ASSUME NEW table, AckTable(table), SlotsFit(table),
           NEW a \in Messages \ DOMAIN table, HasFreeAck(table, a), NEW v
    PROVE  SlotsFit(Put(table, a, v))
<1> SUFFICES ASSUME NEW s \in Slots
             PROVE  SlotUse(Put(table, a, v), s) <= ACKS_PER_SLOT
  BY DEF SlotsFit
<1> DEFINE used == {x \in DOMAIN table : SlotOf[x] = s}
           now  == {x \in DOMAIN Put(table, a, v) : SlotOf[x] = s}
<1>1. now = IF SlotOf[a] = s THEN used \cup {a} ELSE used
  <2>1. DOMAIN Put(table, a, v) = DOMAIN table \cup {a}
    BY PutDomain
  <2> QED BY <2>1
<1>2. IsFiniteSet(used) /\ SlotUse(table, s) \in Nat
  BY SlotUseNat DEF AckTable
<1>3. CASE SlotOf[a] = s
  <2>1. Cardinality(used \cup {a}) = Cardinality(used) + 1
    BY <1>2, FS_AddElement
  <2>2. Cardinality(used) < ACKS_PER_SLOT /\ ACKS_PER_SLOT \in Nat
    BY <1>3, TableAssumption DEF HasFreeAck, SlotUse
  <2> QED BY <1>1, <1>2, <1>3, <2>1, <2>2 DEF SlotUse
<1>4. CASE SlotOf[a] # s
  BY <1>1, <1>4 DEF SlotUse, SlotsFit
<1> QED BY <1>3, <1>4

-----------------------------------------------------------------------------
(* A garbage collection.                                                   *)

\* gc_tokens makes room for at least one token, and never drops too many.
LEMMA TokenShiftBound ==
    ASSUME TokenList(token_list)
    PROVE  /\ TokenShift \in 0 .. Len(token_list)
           /\ Len(token_list) - TokenShift < MAX_TOKENS
<1>1. /\ Len(token_list) \in Nat /\ Len(token_list) <= MAX_TOKENS
      /\ MAX_TOKENS \in Nat \ {0} /\ MAX_TOKENS % 4 = 0
  BY TokenAssumption DEF TokenList
<1>2. (3 * MAX_TOKENS) \div 4 \in 0 .. MAX_TOKENS - 1
  BY <1>1
<1> QED BY <1>1, <1>2 DEF TokenShift

\* What is left of a list after its first k elements are dropped.
LEMMA SuffixProperties ==
    ASSUME NEW S, NEW list \in Seq(S), NEW k \in 0 .. Len(list)
    PROVE  LET rest == SubSeq(list, k + 1, Len(list))
           IN  /\ rest \in Seq(S)
               /\ Len(rest) = Len(list) - k
               /\ DOMAIN rest = 1 .. Len(list) - k
               /\ \A i \in DOMAIN rest : /\ i + k \in DOMAIN list
                                         /\ rest[i] = list[i + k]
<1> DEFINE n == Len(list)
           rest == SubSeq(list, k + 1, n)
           size == Len(rest)
<1>1. n \in Nat /\ k \in Nat /\ k <= n /\ DOMAIN list = 1 .. n
  BY LenProperties
<1>2. \A i \in k + 1 .. n : list[i] \in S
  BY <1>1, ElementOfSeq
<1>3. /\ rest \in Seq(S)
      /\ size = IF k + 1 <= n THEN n - (k + 1) + 1 ELSE 0
      /\ \A i \in 1 .. n - (k + 1) + 1 : rest[i] = list[k + 1 + i - 1]
  BY <1>1, <1>2, SubSeqProperties
<1>4. DOMAIN rest = 1 .. size
  BY <1>3, LenProperties
<1> HIDE DEF n, rest, size
<1>5. size = n - k
  BY <1>1, <1>3
<1>6. ASSUME NEW i \in 1 .. n - k
      PROVE  i + k \in 1 .. n /\ rest[i] = list[i + k]
  <2>1. i \in 1 .. n - (k + 1) + 1 /\ k + 1 + i - 1 = i + k
    BY <1>1
  <2>2. rest[i] = list[i + k]
    BY <2>1, <1>3
  <2> QED BY <1>1, <2>2
<1> QED BY <1>1, <1>3, <1>4, <1>5, <1>6 DEF n, rest, size

LEMMA GcTokens ==
    ASSUME TokenList(token_list)
    PROVE  LET tokens == SubSeq(token_list, TokenShift + 1, Len(token_list))
           IN  /\ TokenList(tokens)
               /\ Len(tokens) = Len(token_list) - TokenShift
               /\ Len(tokens) < MAX_TOKENS
               /\ \A i \in DOMAIN tokens : /\ i + TokenShift \in DOMAIN token_list
                                           /\ tokens[i] = token_list[i + TokenShift]
<1> DEFINE k == TokenShift
           tokens == SubSeq(token_list, k + 1, Len(token_list))
<1>1. /\ k \in 0 .. Len(token_list) /\ token_list \in Seq(AnyToken)
      /\ Len(token_list) - k < MAX_TOKENS /\ MAX_TOKENS \in Nat
  BY TokenShiftBound, TokenAssumption DEF TokenList
<1> HIDE DEF k
<1>2. /\ tokens \in Seq(AnyToken)
      /\ Len(tokens) = Len(token_list) - k
      /\ DOMAIN tokens = 1 .. Len(token_list) - k
      /\ \A i \in DOMAIN tokens : /\ i + k \in DOMAIN token_list
                                  /\ tokens[i] = token_list[i + k]
  BY <1>1, SuffixProperties
<1> HIDE DEF tokens
<1>3. \A i, j \in DOMAIN tokens : tokens[i] = tokens[j] => i = j
  <2> SUFFICES ASSUME NEW i \in DOMAIN tokens, NEW j \in DOMAIN tokens,
                      tokens[i] = tokens[j]
               PROVE  i = j
    OBVIOUS
  <2>1. i + k = j + k
    BY <1>2 DEF TokenList
  <2> QED BY <2>1, <1>1, <1>2
<1>4. Len(tokens) < MAX_TOKENS /\ Len(tokens) <= MAX_TOKENS
  <2> DEFINE size == Len(tokens)
             left == Len(token_list) - k
  <2>1. size = left /\ left \in Int
    BY <1>1, <1>2, LenProperties
  <2>2. left < MAX_TOKENS
    BY <1>1
  <2> HIDE DEF size, left
  <2>3. size < MAX_TOKENS /\ size <= MAX_TOKENS
    BY <1>1, <2>1, <2>2
  <2> QED BY <2>3 DEF size
<1>5. TokenList(tokens)
  BY <1>2, <1>3, <1>4 DEF TokenList
<1> QED BY <1>2, <1>4, <1>5 DEF tokens, k

\* shift_token yields a bitmap, whatever the byte order of the host.
LEMMA ShiftTokenBits ==
    ASSUME NEW bitmap \in SUBSET Bits, NEW n
    PROVE  ShiftToken(bitmap, n) \in SUBSET Bits
BY DEF ShiftToken

LEMMA ShiftedTables ==
    ASSUME NEW KM, NEW KA,
           MessageTable(message_table), KM \subseteq DOMAIN message_table,
           AckTable(ack_table), KA \subseteq DOMAIN ack_table
    PROVE  /\ MessageTable([m \in KM |-> Shifted(message_table[m])])
           /\ AckTable([a \in KA |-> Shifted(ack_table[a])])
<1>1. ASSUME NEW m \in KM
      PROVE  Shifted(message_table[m]) \in [priority : Priorities, sent_to_tokens : SUBSET Bits]
  <2>1. message_table[m] \in [priority : Priorities, sent_to_tokens : SUBSET Bits]
    BY DEF MessageTable
  <2>2. ShiftToken(message_table[m].sent_to_tokens, TokenShift) \in SUBSET Bits
    BY <2>1, ShiftTokenBits
  <2> QED BY <2>1, <2>2 DEF Shifted
<1>2. ASSUME NEW a \in KA
      PROVE  Shifted(ack_table[a]) \in [max_hops : Hops, sent_to_tokens : SUBSET Bits]
  <2>1. ack_table[a] \in [max_hops : Hops, sent_to_tokens : SUBSET Bits]
    BY DEF AckTable
  <2>2. ShiftToken(ack_table[a].sent_to_tokens, TokenShift) \in SUBSET Bits
    BY <2>1, ShiftTokenBits
  <2> QED BY <2>1, <2>2 DEF Shifted
<1> QED BY <1>1, <1>2 DEF MessageTable, AckTable

\* gc_messages_entry frees what the new message needs.
LEMMA KeptMessagesFit ==
    ASSUME MessageTable(message_table), NEW x \in Entries, NEW n \in Nat,
           NEW K \in KeptMessages(x, n)
    PROVE  /\ K \subseteq InEntry(x)
           /\ Used(K) <= MESSAGE_STORAGE_SIZE
           /\ n + MESSAGE_HEADER_SIZE <= MESSAGE_STORAGE_SIZE =>
                 Used(K) + n + MESSAGE_HEADER_SIZE <= MESSAGE_STORAGE_SIZE
<1>1. MESSAGE_STORAGE_SIZE \in Nat /\ MESSAGE_HEADER_SIZE \in Nat
      /\ MESSAGE_STORAGE_SIZE \div 2 \in Nat
  BY TableAssumption
<1>2. CASE FreesEverything(n)
  <2>1. K = {}
    BY <1>2 DEF KeptMessages
  <2> QED BY <1>1, <2>1, UsedIs
<1>3. CASE ~ FreesEverything(n)
  <2>1. K \subseteq InEntry(x) /\ HasWantedSpace(K, n)
    BY <1>3 DEF KeptMessages
  <2>2. Used(K) \in Nat
    BY <2>1, UsedIs DEF InEntry, MessageTable
  <2> QED BY <1>1, <2>1, <2>2 DEF HasWantedSpace, WantedSpace
<1> QED BY <1>2, <1>3

\* gc_ack_slot leaves a free place in every slot.
LEMMA KeptAcksFit ==
    ASSUME AckTable(ack_table), NEW K \in KeptAcks, NEW table, DOMAIN table = K
    PROVE  /\ K \subseteq DOMAIN ack_table
           /\ \A s \in Slots : SlotUse(table, s) < ACKS_PER_SLOT
<1> DEFINE used(s) == {a \in DOMAIN ack_table : SlotOf[a] = s}
           Half == ACKS_PER_SLOT \div 2
<1>1. K \subseteq DOMAIN ack_table
  BY DEF KeptAcks
<1>2. Half \in Nat /\ Half < ACKS_PER_SLOT
  BY TableAssumption
<1>3. ASSUME NEW s \in Slots
      PROVE  SlotUse(table, s) < ACKS_PER_SLOT
  <2>1. used(s) \cap K = {x \in DOMAIN table : SlotOf[x] = s}
    BY <1>1
  <2>2. CASE Cardinality(used(s)) <= Half
    <3>1. used(s) \cap K = used(s)
      BY <2>2 DEF KeptAcks
    <3>2. Cardinality(used(s)) \in Nat /\ ACKS_PER_SLOT \in Nat
      <4>1. SlotUse(ack_table, s) \in Nat
        BY SlotUseNat DEF AckTable
      <4> QED BY <4>1, TableAssumption DEF SlotUse
    <3>3. SlotUse(table, s) = Cardinality(used(s))
      BY <2>1, <3>1 DEF SlotUse
    <3> HIDE DEF used, Half
    <3> QED BY <1>2, <2>2, <3>2, <3>3
  <2>3. CASE ~ Cardinality(used(s)) <= Half
    <3>1. Cardinality(used(s) \cap K) = Half
      BY <2>3 DEF KeptAcks
    <3> QED BY <1>2, <2>1, <3>1 DEF SlotUse
  <2> QED BY <2>2, <2>3
<1> QED BY <1>1, <1>3

\* The messages a gc may keep.
KeptSets(e, n) ==
    {S \in SUBSET DOMAIN message_table :
        \A x \in Entries : S \cap InEntry(x) \in KeptMessages(x, Wanted(x, e, n))}

\* What a gc that keeps KM and KA leaves, for some number of generations that
\* the dropped ids fill.
Collects(KM, KA, forgotten, gc) ==
    \E full \in Fills(Dropped(KM, KA, forgotten)) :
    \E acks \in Added(DOMAIN ack_table \ KA, full),
       messages \in Added(Dropped(KM, KA, forgotten), full) :
          gc = Collected(KM, KA, full, acks, messages)

\* What there is to choose in a garbage collection.
LEMMA GcChoices ==
    ASSUME NEW e, NEW n, NEW gc \in GcResults(e, n)
    PROVE  \E KM \in KeptSets(e, n), KA \in KeptAcks : Collects(KM, KA, Forgotten(e, n), gc)
<1> DEFINE M(KM, KA) == Dropped(KM, KA, Forgotten(e, n))
           Filled(KM, KA, full) ==
              {Collected(KM, KA, full, acks, messages) :
                  acks \in Added(DOMAIN ack_table \ KA, full),
                  messages \in Added(M(KM, KA), full)}
           Kept(KM, KA) == UNION {Filled(KM, KA, full) : full \in Fills(M(KM, KA))}
           KMs == KeptSets(e, n)
<1>1. GcResults(e, n) = UNION {Kept(KM, KA) : KM \in KMs, KA \in KeptAcks}
  BY DEF GcResults, KeptSets
<1> HIDE DEF Kept, KMs
<1>2. PICK KM \in KMs, KA \in KeptAcks : gc \in Kept(KM, KA)
  BY <1>1
<1>3. gc \in UNION {Filled(KM, KA, full) : full \in Fills(M(KM, KA))}
  BY <1>2 DEF Kept
<1> HIDE DEF Filled
<1>4. PICK full \in Fills(M(KM, KA)) : gc \in Filled(KM, KA, full)
  BY <1>3
<1> HIDE DEF M
<1>5. \E acks \in Added(DOMAIN ack_table \ KA, full), messages \in Added(M(KM, KA), full) :
         gc = Collected(KM, KA, full, acks, messages)
  BY <1>4 DEF Filled
<1>6. \E x \in Fills(M(KM, KA)) :
      \E acks \in Added(DOMAIN ack_table \ KA, x), messages \in Added(M(KM, KA), x) :
         gc = Collected(KM, KA, x, acks, messages)
  BY <1>4, <1>5
<1>7. Collects(KM, KA, Forgotten(e, n), gc)
  BY <1>6 DEF Collects, M
<1> QED BY <1>2, <1>7 DEF KMs

LEMMA CollectsTables ==
    ASSUME NEW KM, NEW KA, NEW forgotten, NEW gc, Collects(KM, KA, forgotten, gc)
    PROVE  /\ gc.messages = [m \in KM |-> Shifted(message_table[m])]
           /\ gc.acks = [a \in KA |-> Shifted(ack_table[a])]
           /\ gc.tokens = SubSeq(token_list, TokenShift + 1, Len(token_list))
           /\ gc = [messages |-> gc.messages, acks |-> gc.acks,
                    tokens |-> gc.tokens, bloom |-> gc.bloom,
                    rotations |-> gc.rotations]
<1>1. PICK full \in Fills(Dropped(KM, KA, forgotten)) :
         \E acks \in Added(DOMAIN ack_table \ KA, full),
            messages \in Added(Dropped(KM, KA, forgotten), full) :
               gc = Collected(KM, KA, full, acks, messages)
  BY DEF Collects
<1>2. PICK acks \in Added(DOMAIN ack_table \ KA, full),
           messages \in Added(Dropped(KM, KA, forgotten), full) :
               gc = Collected(KM, KA, full, acks, messages)
  BY <1>1
<1> QED BY <1>2 DEF Collected

\* The tables a gc leaves.
Leaves(gc) ==
    /\ gc.messages = [m \in DOMAIN gc.messages |-> Shifted(message_table[m])]
    /\ DOMAIN gc.messages \subseteq DOMAIN message_table
    /\ gc.acks = [a \in DOMAIN gc.acks |-> Shifted(ack_table[a])]
    /\ DOMAIN gc.acks \subseteq DOMAIN ack_table
    /\ gc.tokens = SubSeq(token_list, TokenShift + 1, Len(token_list))
    /\ gc = [messages |-> gc.messages, acks |-> gc.acks, tokens |-> gc.tokens,
             bloom |-> gc.bloom, rotations |-> gc.rotations]

LEMMA GcTables ==
    ASSUME NEW e, NEW n, NEW gc \in GcResults(e, n)
    PROVE  Leaves(gc)
<1>1. PICK KM \in KeptSets(e, n), KA \in KeptAcks : Collects(KM, KA, Forgotten(e, n), gc)
  BY GcChoices
<1>2. /\ gc.messages = [m \in KM |-> Shifted(message_table[m])]
      /\ gc.acks = [a \in KA |-> Shifted(ack_table[a])]
      /\ gc.tokens = SubSeq(token_list, TokenShift + 1, Len(token_list))
      /\ gc = [messages |-> gc.messages, acks |-> gc.acks, tokens |-> gc.tokens,
               bloom |-> gc.bloom, rotations |-> gc.rotations]
  BY <1>1, CollectsTables
<1>3. KM \subseteq DOMAIN message_table /\ KA \subseteq DOMAIN ack_table
  BY <1>1 DEF KeptSets, KeptAcks
<1>4. DOMAIN gc.messages = KM /\ DOMAIN gc.acks = KA
  BY <1>2
<1> QED BY <1>2, <1>3, <1>4 DEF Leaves

\* What do_gc leaves is well formed, has a place for another token and for
\* another ack in any slot, and has room for the message it was called for.
LEMMA GcGood ==
    ASSUME IInv, NEW e, NEW n \in Nat, NEW gc \in GcResults(e, n)
    PROVE  /\ gc = [messages |-> gc.messages, acks |-> gc.acks, tokens |-> gc.tokens,
                    bloom |-> gc.bloom, rotations |-> gc.rotations]
           /\ Good(gc.messages, gc.acks, gc.tokens, gc.bloom, gc.rotations)
           /\ Follows(gc.bloom, gc.rotations)
           /\ \A m \in DOMAIN message_table \ DOMAIN gc.messages :
                 \/ m \in DOMAIN gc.bloom["message"] /\ gc.bloom["message"][m] >= rotations
                 \/ m \in Forgotten(e, n)
           /\ \A a \in DOMAIN ack_table \ DOMAIN gc.acks :
                 /\ a \in DOMAIN gc.bloom["ack"] /\ gc.bloom["ack"][a] >= rotations
                 /\ a \in DOMAIN gc.bloom["message"] /\ gc.bloom["message"][a] >= rotations
           /\ DOMAIN gc.messages \subseteq DOMAIN message_table
           /\ DOMAIN gc.acks \subseteq DOMAIN ack_table
           /\ Len(gc.tokens) < MAX_TOKENS
           /\ \A i \in DOMAIN gc.tokens : \E j \in DOMAIN token_list :
                 gc.tokens[i] = token_list[j]
           /\ \A s \in Slots : SlotUse(gc.acks, s) < ACKS_PER_SLOT
           /\ e \in Entries /\ n + MESSAGE_HEADER_SIZE <= MESSAGE_STORAGE_SIZE =>
                 Used(EntryIn(DOMAIN gc.messages, e)) + n + MESSAGE_HEADER_SIZE
                    <= MESSAGE_STORAGE_SIZE
<1> DEFINE wanted(x) == Wanted(x, e, n)
           forgotten == Forgotten(e, n)
<1>0. PICK KM \in KeptSets(e, n), KA \in KeptAcks : Collects(KM, KA, forgotten, gc)
  BY GcChoices
<1>20. PICK full \in Fills(Dropped(KM, KA, forgotten)) :
         \E acks \in Added(DOMAIN ack_table \ KA, full),
            messages \in Added(Dropped(KM, KA, forgotten), full) :
               gc = Collected(KM, KA, full, acks, messages)
  BY <1>0 DEF Collects
<1>21. PICK acks \in Added(DOMAIN ack_table \ KA, full),
            messages \in Added(Dropped(KM, KA, forgotten), full) :
               gc = Collected(KM, KA, full, acks, messages)
  BY <1>20
<1>1. /\ gc.messages = [m \in KM |-> Shifted(message_table[m])]
      /\ gc.acks = [a \in KA |-> Shifted(ack_table[a])]
      /\ gc.tokens = SubSeq(token_list, TokenShift + 1, Len(token_list))
      /\ gc.bloom = Generations(RememberDropped(bloom, acks, messages), rotations + full + 1)
      /\ gc.rotations = rotations + full + 1
      /\ gc = [messages |-> gc.messages, acks |-> gc.acks, tokens |-> gc.tokens,
               bloom |-> gc.bloom, rotations |-> gc.rotations]
  BY <1>21 DEF Collected
<1>2. /\ MessageTable(message_table) /\ AckTable(ack_table)
      /\ TokenList(token_list) /\ Filter(bloom, rotations)
  BY DEF IInv, Good
<1>3. /\ DOMAIN gc.messages = KM /\ KM \subseteq DOMAIN message_table
      /\ DOMAIN gc.acks = KA /\ KA \subseteq DOMAIN ack_table
  BY <1>1, <1>2, KeptAcksFit DEF KeptSets
<1>4. MessageTable(gc.messages) /\ AckTable(gc.acks)
  BY <1>1, <1>2, <1>3, ShiftedTables
<1>5. /\ TokenList(gc.tokens) /\ Len(gc.tokens) < MAX_TOKENS
      /\ \A i \in DOMAIN gc.tokens : \E j \in DOMAIN token_list :
            gc.tokens[i] = token_list[j]
  BY <1>1, <1>2, GcTokens
<1>6. /\ Filter(gc.bloom, gc.rotations) /\ Follows(gc.bloom, gc.rotations)
      /\ \A m \in Dropped(KM, KA, forgotten) :
            m \in DOMAIN gc.bloom["message"] /\ gc.bloom["message"][m] >= rotations
      /\ \A a \in DOMAIN ack_table \ KA :
            a \in DOMAIN gc.bloom["ack"] /\ gc.bloom["ack"][a] >= rotations
  <2>1. DOMAIN message_table \in SUBSET Messages /\ DOMAIN ack_table \in SUBSET Messages
    BY <1>2 DEF MessageTable, AckTable
  <2>2. /\ DOMAIN ack_table \ KA \in SUBSET Messages
        /\ Dropped(KM, KA, forgotten) \in SUBSET Messages
    BY <2>1 DEF Dropped
  <2> DEFINE A == DOMAIN ack_table \ KA
             M == Dropped(KM, KA, forgotten)
  <2>3. /\ A \in SUBSET Messages /\ M \in SUBSET Messages
        /\ full \in Fills(M) /\ acks \in Added(A, full) /\ messages \in Added(M, full)
    BY <2>2
  <2> HIDE DEF forgotten, A, M
  <2>4. LET k == rotations + full + 1
            b == Generations(RememberDropped(bloom, acks, messages), k)
        IN  /\ Filter(b, k) /\ Follows(b, k)
            /\ \A m \in M : m \in DOMAIN b["message"] /\ b["message"][m] >= rotations
            /\ \A a \in A : a \in DOMAIN b["ack"] /\ b["ack"][a] >= rotations
    BY <1>2, <2>3, RememberDroppedFilter
  <2> QED BY <1>1, <2>4 DEF A, M
<1>7. \A s \in Slots : SlotUse(gc.acks, s) < ACKS_PER_SLOT
  BY <1>2, <1>3, KeptAcksFit
<1>8. SlotsFit(gc.acks)
  <2> SUFFICES ASSUME NEW s \in Slots PROVE SlotUse(gc.acks, s) <= ACKS_PER_SLOT
    BY DEF SlotsFit
  <2>1. SlotUse(gc.acks, s) \in Nat /\ ACKS_PER_SLOT \in Nat
    BY <1>4, SlotUseNat, TableAssumption DEF AckTable
  <2> QED BY <2>1, <1>7
<1>9. ASSUME NEW x \in Entries
      PROVE  /\ Used(EntryIn(KM, x)) <= MESSAGE_STORAGE_SIZE
             /\ wanted(x) + MESSAGE_HEADER_SIZE <= MESSAGE_STORAGE_SIZE =>
                   Used(EntryIn(KM, x)) + wanted(x) + MESSAGE_HEADER_SIZE
                      <= MESSAGE_STORAGE_SIZE
  <2>1. KM \cap InEntry(x) = EntryIn(KM, x)
    BY <1>3 DEF InEntry, EntryIn
  <2>2. EntryIn(KM, x) \in KeptMessages(x, wanted(x))
    BY <2>1 DEF KeptSets
  <2>3. wanted(x) \in Nat
    BY DEF Wanted
  <2> HIDE DEF wanted
  <2> QED BY <1>2, <2>2, <2>3, KeptMessagesFit
<1>10. EntriesFit(DOMAIN gc.messages)
  BY <1>3, <1>9 DEF EntriesFit
<1>11. e \in Entries /\ n + MESSAGE_HEADER_SIZE <= MESSAGE_STORAGE_SIZE =>
          Used(EntryIn(DOMAIN gc.messages, e)) + n + MESSAGE_HEADER_SIZE
             <= MESSAGE_STORAGE_SIZE
  BY <1>3, <1>9 DEF Wanted
<1>12. Good(gc.messages, gc.acks, gc.tokens, gc.bloom, gc.rotations)
  BY <1>4, <1>5, <1>6, <1>8, <1>10 DEF Good
<1>13. \A m \in DOMAIN message_table \ DOMAIN gc.messages :
          m \in Dropped(KM, KA, forgotten) \/ m \in forgotten
  BY <1>3 DEF Dropped
<1>14. \A a \in DOMAIN ack_table \ DOMAIN gc.acks :
          a \in DOMAIN ack_table \ KA /\ a \in Dropped(KM, KA, forgotten)
  BY <1>3 DEF Dropped
<1> QED BY <1>1, <1>3, <1>5, <1>6, <1>7, <1>11, <1>12, <1>13, <1>14

-----------------------------------------------------------------------------
(* The token list.                                                         *)

\* A token is added where no other bit is in use, and only if it is new.
LEMMA AppendToken ==
    ASSUME NEW list, TokenList(list), Len(list) < MAX_TOKENS,
           NEW t \in AnyToken, \A i \in DOMAIN list : list[i] # t
    PROVE  TokenList(Append(list, t))
<1> DEFINE n == Len(list)
<1>1. /\ n \in Nat /\ DOMAIN list = 1 .. n /\ n < MAX_TOKENS /\ MAX_TOKENS \in Nat
      /\ list \in Seq(AnyToken)
  BY LenProperties, TokenAssumption DEF TokenList
<1>2. /\ Append(list, t) \in Seq(AnyToken) /\ Len(Append(list, t)) = n + 1
      /\ \A i \in 1 .. n : Append(list, t)[i] = list[i]
      /\ Append(list, t)[n + 1] = t
  BY <1>1
<1>3. DOMAIN Append(list, t) = 1 .. n + 1
  BY <1>2, LenProperties
<1> HIDE DEF n
<1>4. ASSUME NEW i \in 1 .. n + 1, NEW j \in 1 .. n + 1,
             Append(list, t)[i] = Append(list, t)[j]
      PROVE  i = j
  <2>1. CASE i \in 1 .. n /\ j \in 1 .. n
    BY <1>1, <1>2, <1>4, <2>1 DEF TokenList
  <2>2. CASE i = n + 1 /\ j \in 1 .. n
    BY <1>1, <1>2, <1>4, <2>2
  <2>3. CASE i \in 1 .. n /\ j = n + 1
    BY <1>1, <1>2, <1>4, <2>3
  <2>4. CASE i = n + 1 /\ j = n + 1
    BY <2>4
  <2> QED BY <1>1, <2>1, <2>2, <2>3, <2>4
<1>5. Len(Append(list, t)) <= MAX_TOKENS
  BY <1>1, <1>2
<1> QED BY <1>2, <1>3, <1>4, <1>5 DEF TokenList

LEMMA IndexOfListed ==
    ASSUME TokenList(token_list), NEW t, Listed(t)
    PROVE  IndexOf(t) \in Bits /\ IndexOf(t) + 1 \in DOMAIN token_list
<1>1. (CHOOSE i \in DOMAIN token_list : token_list[i] = t) \in DOMAIN token_list
  BY DEF Listed
<1>2. /\ DOMAIN token_list = 1 .. Len(token_list) /\ Len(token_list) \in Nat
      /\ Len(token_list) <= MAX_TOKENS /\ MAX_TOKENS \in Nat
  BY LenProperties, TokenAssumption DEF TokenList
<1> QED BY <1>1, <1>2 DEF IndexOf, Bits

\* token_to_send_to: whichever way it finds its token, the tables it leaves
\* are well formed, and the index it returns is one of the bits.
LEMMA TokenToSendToGood ==
    ASSUME IInv, NEW t \in AnyToken, NEW bitmap, NEW r \in TokenToSendTo(t, bitmap)
    PROVE  /\ Good(r.now.messages, r.now.acks, r.now.tokens, r.now.bloom, r.now.rotations)
           /\ r.index \in Bits \cup {-1}
           /\ r.gc \in BOOLEAN
           /\ Follows(r.now.bloom, r.now.rotations)
           /\ DOMAIN r.now.messages \subseteq DOMAIN message_table
           /\ DOMAIN r.now.acks \subseteq DOMAIN ack_table
<1>0. Follows(bloom, rotations)
  BY FollowsUnchanged DEF IInv, Good
<1>1. /\ Good(message_table, ack_table, token_list, bloom, rotations) /\ TokenList(token_list)
      /\ Len(token_list) \in Nat /\ MAX_TOKENS \in Nat
  BY LenProperties, TokenAssumption DEF IInv, Good, TokenList
<1>2. CASE Listed(t)
  <2>1. /\ r.now = Tables /\ r.gc = FALSE
        /\ r.index \in {-1, IndexOf(t)}
    BY <1>2 DEF TokenToSendTo
  <2>2. IndexOf(t) \in Bits
    BY <1>1, <1>2, IndexOfListed
  <2>3. /\ r.now.messages = message_table /\ r.now.acks = ack_table
        /\ r.now.tokens = token_list /\ r.now.bloom = bloom /\ r.now.rotations = rotations
    BY <2>1 DEF Tables
  <2> QED BY <1>0, <1>1, <2>1, <2>2, <2>3
<1>3. CASE ~ Listed(t) /\ Len(token_list) < MAX_TOKENS
  <2>1. /\ r.now.messages = message_table /\ r.now.acks = ack_table
        /\ r.now.bloom = bloom /\ r.now.rotations = rotations
        /\ r.now.tokens = Append(token_list, t)
        /\ r.gc = FALSE /\ r.index = Len(token_list)
    BY <1>3 DEF TokenToSendTo, Tables
  <2>2. TokenList(Append(token_list, t))
    BY <1>1, <1>3, AppendToken DEF Listed
  <2>3. r.index \in Bits
    BY <1>1, <1>3, <2>1 DEF Bits
  <2> QED BY <1>0, <1>1, <2>1, <2>2, <2>3 DEF Good
<1>4. CASE ~ Listed(t) /\ ~ Len(token_list) < MAX_TOKENS /\ gc_recent
  <2>1. r.now = Tables /\ r.gc = FALSE /\ r.index = -1
    BY <1>4 DEF TokenToSendTo
  <2>2. /\ r.now.messages = message_table /\ r.now.acks = ack_table
        /\ r.now.tokens = token_list /\ r.now.bloom = bloom /\ r.now.rotations = rotations
    BY <2>1 DEF Tables
  <2> QED BY <1>0, <1>1, <2>1, <2>2
<1>5. CASE ~ Listed(t) /\ ~ Len(token_list) < MAX_TOKENS /\ ~ gc_recent
  <2>1. PICK g \in GcResults(NoEntry, 0) :
           r = [now |-> [g EXCEPT !.tokens = Append(@, t)], gc |-> TRUE,
                index |-> Len(g.tokens)]
    BY <1>5 DEF TokenToSendTo
  <2>2. /\ g = [messages |-> g.messages, acks |-> g.acks, tokens |-> g.tokens,
                bloom |-> g.bloom, rotations |-> g.rotations]
        /\ Good(g.messages, g.acks, g.tokens, g.bloom, g.rotations)
        /\ Follows(g.bloom, g.rotations)
        /\ DOMAIN g.messages \subseteq DOMAIN message_table
        /\ DOMAIN g.acks \subseteq DOMAIN ack_table
        /\ Len(g.tokens) < MAX_TOKENS
        /\ \A i \in DOMAIN g.tokens : \E j \in DOMAIN token_list : g.tokens[i] = token_list[j]
    BY GcGood
  <2>3. /\ r.now.messages = g.messages /\ r.now.acks = g.acks
        /\ r.now.bloom = g.bloom /\ r.now.rotations = g.rotations
        /\ r.now.tokens = Append(g.tokens, t)
        /\ r.gc = TRUE /\ r.index = Len(g.tokens)
    BY <2>1, <2>2
  <2>4. TokenList(Append(g.tokens, t))
    BY <1>5, <2>2, AppendToken DEF Listed, Good
  <2>5. r.index \in Bits
    BY <1>1, <2>2, <2>3, LenProperties DEF Bits, Good, TokenList
  <2> QED BY <2>2, <2>3, <2>4, <2>5 DEF Good
<1> QED BY <1>2, <1>3, <1>4, <1>5

-----------------------------------------------------------------------------
(* The operations of the cache.                                            *)

LEMMA MarkInTables ==
    ASSUME NEW table, NEW x, NEW index \in Bits
    PROVE  /\ DOMAIN MarkIn(table, x, index) = DOMAIN table
           /\ MessageTable(table) => MessageTable(MarkIn(table, x, index))
           /\ AckTable(table) => AckTable(MarkIn(table, x, index))
<1>1. DOMAIN MarkIn(table, x, index) = DOMAIN table
  BY DEF MarkIn
<1>2. ASSUME MessageTable(table), NEW m \in DOMAIN table
      PROVE  MarkIn(table, x, index)[m] \in
                [priority : Priorities, sent_to_tokens : SUBSET Bits]
  <2>1. table[m] \in [priority : Priorities, sent_to_tokens : SUBSET Bits]
    BY <1>2 DEF MessageTable
  <2>2. CASE m = x
    <3>1. MarkIn(table, x, index)[m] =
             [table[m] EXCEPT !.sent_to_tokens = @ \cup {index}]
      BY <1>2, <2>2 DEF MarkIn
    <3> QED BY <2>1, <3>1
  <2>3. CASE m # x
    <3>1. MarkIn(table, x, index)[m] = table[m]
      BY <1>2, <2>3 DEF MarkIn
    <3> QED BY <2>1, <3>1
  <2> QED BY <2>2, <2>3
<1>3. ASSUME AckTable(table), NEW a \in DOMAIN table
      PROVE  MarkIn(table, x, index)[a] \in [max_hops : Hops, sent_to_tokens : SUBSET Bits]
  <2>1. table[a] \in [max_hops : Hops, sent_to_tokens : SUBSET Bits]
    BY <1>3 DEF AckTable
  <2>2. CASE a = x
    <3>1. MarkIn(table, x, index)[a] =
             [table[a] EXCEPT !.sent_to_tokens = @ \cup {index}]
      BY <1>3, <2>2 DEF MarkIn
    <3> QED BY <2>1, <3>1
  <2>3. CASE a # x
    <3>1. MarkIn(table, x, index)[a] = table[a]
      BY <1>3, <2>3 DEF MarkIn
    <3> QED BY <2>1, <3>1
  <2> QED BY <2>2, <2>3
<1> QED BY <1>1, <1>2, <1>3 DEF MessageTable, AckTable

LEMMA SlotsFitDomain ==
    ASSUME NEW a, NEW b, DOMAIN a = DOMAIN b, SlotsFit(b)
    PROVE  SlotsFit(a)
BY DEF SlotsFit, SlotUse

LEMMA ReinitLocalTokenType ==
    ASSUME local_token \in 0 .. MAX_GCS, ReinitLocalToken
    PROVE  local_token' \in 0 .. MAX_GCS
BY TableAssumption DEF ReinitLocalToken

\* The tables that token_to_send_to left, with some bits set, are installed.
LEMMA InstallGood ==
    ASSUME IInv, NEW r, NEW messages, NEW acks,
           Good(r.now.messages, r.now.acks, r.now.tokens, r.now.bloom, r.now.rotations),
           r.gc \in BOOLEAN,
           MessageTable(messages), DOMAIN messages = DOMAIN r.now.messages,
           AckTable(acks), DOMAIN acks = DOMAIN r.now.acks,
           Follows(r.now.bloom, r.now.rotations),
           Install(r, messages, acks)
    PROVE  IInv' /\ Follows(bloom', rotations')
<1>1. Good(messages, acks, r.now.tokens, r.now.bloom, r.now.rotations)
  BY SlotsFitDomain DEF Good
<1>2. Good(message_table, ack_table, token_list, bloom, rotations)'
  BY <1>1 DEF Install
<1>3. halted' = FALSE
  <2> DEFINE size == Len(r.now.tokens)
  <2>1. halted' = (size > MAX_TOKENS)
    BY DEF Install
  <2>2. size <= MAX_TOKENS /\ size \in Nat /\ MAX_TOKENS \in Nat
    BY LenProperties, TokenAssumption DEF Good, TokenList
  <2> HIDE DEF size
  <2>3. (size > MAX_TOKENS) = FALSE
    BY <2>2
  <2> QED BY <2>1, <2>3
<1>4. local_token' \in 0 .. MAX_GCS
  <2>1. CASE r.gc
    BY <2>1, ReinitLocalTokenType DEF Install, IInv
  <2>2. CASE ~ r.gc
    BY <2>2 DEF Install, IInv
  <2> QED BY <2>1, <2>2
<1>5. expired' \subseteq Messages /\ gc_recent' \in BOOLEAN
  <2>1. gc_recent' = (gc_recent \/ r.gc) /\ expired' = expired
    BY DEF Install
  <2>2. gc_recent \in BOOLEAN /\ expired \subseteq Messages
    BY DEF IInv
  <2> QED BY <2>1, <2>2
<1>6. Follows(bloom', rotations')
  BY DEF Install
<1> QED BY <1>2, <1>3, <1>4, <1>5, <1>6 DEF IInv

LEMMA NewMessageType ==
    ASSUME NEW table, MessageTable(table), NEW m \in Messages, NEW priority \in Priorities
    PROVE  MessageTable(Put(table, m, NewMessage(priority)))
<1>1. NewMessage(priority) \in [priority : Priorities, sent_to_tokens : SUBSET Bits]
  BY DEF NewMessage
<1> QED BY <1>1 DEF MessageTable, Put

LEMMA NewAckType ==
    ASSUME NEW table, AckTable(table), NEW a \in Messages, NEW hops \in Hops
    PROVE  AckTable(Put(table, a, NewAck(hops)))
<1>1. NewAck(hops) \in [max_hops : Hops, sent_to_tokens : SUBSET Bits]
  BY DEF NewAck
<1> QED BY <1>1 DEF AckTable, Put

\* pcache_save_packet never takes the exit: after the gc there is room.
LEMMA SavePacketStep ==
    ASSUME IInv, NEW m \in Messages, NEW priority \in Priorities, SavePacket(m, priority)
    PROVE  IInv' /\ Follows(bloom', rotations')
<1>1. Good(message_table, ack_table, token_list, bloom, rotations)
  BY DEF IInv
<1>0. Follows(bloom, rotations)
  BY <1>1, FollowsUnchanged DEF Good
<1>2. CASE /\ Seen(m)
           /\ RefreshIfInBloom("message", m)
           /\ UNCHANGED <<message_table, ack_table, token_list, local_token,
                          expired, gc_recent, halted>>
  <2>1. Filter(bloom', rotations') /\ Follows(bloom', rotations')
    BY <1>1, <1>2, RefreshFilter DEF Good, Filters
  <2>2. Good(message_table, ack_table, token_list, bloom', rotations')
    BY <1>1, <2>1 DEF Good
  <2> QED BY <1>2, <2>1, <2>2 DEF IInv
<1>3. CASE /\ ~ Seen(m) /\ Fits(InEntry(EntryOf[m]), m)
           /\ message_table' = Put(message_table, m, NewMessage(priority))
           /\ UNCHANGED <<ack_table, token_list, local_token, filters, expired,
                          gc_recent, halted>>
  <2>1. InEntry(EntryOf[m]) = EntryIn(DOMAIN message_table, EntryOf[m])
    BY DEF InEntry, EntryIn
  <2>2. EntriesFit(DOMAIN message_table \cup {m})
    BY <1>1, <1>3, <2>1, EntriesFitWith DEF Good, MessageTable, Seen
  <2>3. Good(Put(message_table, m, NewMessage(priority)), ack_table, token_list, bloom, rotations)
    BY <1>1, <2>2, NewMessageType, PutDomain DEF Good
  <2> QED BY <1>0, <1>3, <2>3 DEF IInv, filters
<1>4. ASSUME ~ Seen(m), NEW gc \in GcResults(EntryOf[m], Size[m]),
             LET left == {x \in DOMAIN gc.messages : EntryOf[x] = EntryOf[m]}
             IN  IF Fits(left, m)
                 THEN /\ ReinitLocalToken
                      /\ message_table' = Put(gc.messages, m, NewMessage(priority))
                      /\ ack_table' = gc.acks
                      /\ token_list' = gc.tokens
                      /\ bloom' = gc.bloom /\ rotations' = gc.rotations
                      /\ UNCHANGED <<expired, gc_recent, halted>>
                 ELSE Halt
      PROVE  IInv' /\ Follows(bloom', rotations')
  <2>1. Size[m] \in Nat /\ EntryOf[m] \in Entries
        /\ Size[m] + MESSAGE_HEADER_SIZE <= MESSAGE_STORAGE_SIZE
    BY TableAssumption
  <2>2. /\ Good(gc.messages, gc.acks, gc.tokens, gc.bloom, gc.rotations)
        /\ Follows(gc.bloom, gc.rotations)
        /\ DOMAIN gc.messages \subseteq DOMAIN message_table
        /\ Used(EntryIn(DOMAIN gc.messages, EntryOf[m])) + Size[m] + MESSAGE_HEADER_SIZE
              <= MESSAGE_STORAGE_SIZE
    BY <2>1, GcGood
  <2>3. Fits(EntryIn(DOMAIN gc.messages, EntryOf[m]), m)
    BY <2>2 DEF Fits
  <2>4. /\ ReinitLocalToken
        /\ message_table' = Put(gc.messages, m, NewMessage(priority))
        /\ ack_table' = gc.acks
        /\ token_list' = gc.tokens
        /\ bloom' = gc.bloom /\ rotations' = gc.rotations
        /\ UNCHANGED <<expired, gc_recent, halted>>
    BY <1>4, <2>3 DEF EntryIn
  <2>5. m \notin DOMAIN gc.messages /\ DOMAIN gc.messages \in SUBSET Messages
    BY <1>1, <1>4, <2>2 DEF Seen, Good, MessageTable
  <2>6. EntriesFit(DOMAIN gc.messages \cup {m})
    BY <2>2, <2>3, <2>5, EntriesFitWith DEF Good
  <2>7. Good(Put(gc.messages, m, NewMessage(priority)), gc.acks, gc.tokens, gc.bloom, gc.rotations)
    <3>1. DOMAIN Put(gc.messages, m, NewMessage(priority)) = DOMAIN gc.messages \cup {m}
      BY PutDomain
    <3>2. MessageTable(Put(gc.messages, m, NewMessage(priority)))
      BY <2>2, NewMessageType DEF Good
    <3> QED BY <2>2, <2>6, <3>1, <3>2 DEF Good
  <2>8. local_token' \in 0 .. MAX_GCS
    BY <2>4, ReinitLocalTokenType DEF IInv
  <2> QED BY <2>2, <2>4, <2>7, <2>8 DEF IInv
<1> QED BY <1>2, <1>3, <1>4 DEF SavePacket

LEMMA RecordPacketStep ==
    ASSUME IInv, NEW m \in Messages, RecordPacket(m)
    PROVE  IInv' /\ Follows(bloom', rotations')
<1>1. Filter(bloom', rotations') /\ Follows(bloom', rotations')
  BY AddToBloomFilter DEF RecordPacket, IInv, Good, Filters
<1> QED BY <1>1 DEF RecordPacket, IInv, Good

LEMMA RecordTraceStep ==
    ASSUME IInv, RecordTrace
    PROVE  IInv' /\ Follows(bloom', rotations')
<1>1. Filter(bloom, rotations)
  BY DEF IInv, Good
<1>2. PICK full \in {0, 1} : RotateFilters(bloom, full)
  BY DEF RecordTrace
<1>3. /\ rotations' \in 0 .. MAX_ROTATIONS /\ rotations <= rotations'
      /\ bloom' = Generations(bloom, rotations')
  BY <1>1, <1>2, FilterAssumption DEF RotateFilters, Filter
<1>4. Stamped(bloom, rotations')
  BY <1>1, <1>3 DEF Filter, Stamped
<1>5. \A f \in Filters : \A m \in DOMAIN bloom[f] : bloom[f][m] >= bloom[f][m]
  BY <1>1 DEF Filter, Stamped
<1>6. Filter(bloom', rotations') /\ Follows(bloom', rotations')
  BY <1>1, <1>3, <1>4, <1>5, GenerationsFilter, GenerationsFollow
<1> QED BY <1>6 DEF RecordTrace, IInv, Good

\* pcache_id_acked and pcache_id_found only change the filters.
LEMMA RefreshStep ==
    ASSUME IInv, NEW m \in Messages, RefreshIfInBloom("message", m),
           UNCHANGED <<message_table, ack_table, token_list, local_token, expired,
                       gc_recent, halted>>
    PROVE  IInv' /\ Follows(bloom', rotations')
<1>1. Filter(bloom', rotations') /\ Follows(bloom', rotations')
  BY RefreshFilter DEF IInv, Good, Filters
<1> QED BY <1>1 DEF IInv, Good

\* An ack that is added takes its message out of the cache.
LEMMA AddAck ==
    ASSUME NEW messages, NEW acks, NEW tokens, NEW b, NEW n, Good(messages, acks, tokens, b, n),
           NEW a \in Messages, NEW hops \in Hops,
           a \notin DOMAIN acks, HasFreeAck(acks, a)
    PROVE  Good(Keep(messages, Messages \ {a}), Put(acks, a, NewAck(hops)), tokens, b, n)
<1>1. DOMAIN messages \in SUBSET Messages
  BY DEF Good, MessageTable
<1>2. DOMAIN Keep(messages, Messages \ {a}) = DOMAIN messages \ {a}
  <2>1. DOMAIN Keep(messages, Messages \ {a}) = DOMAIN messages \cap (Messages \ {a})
    BY DEF Keep
  <2> QED BY <1>1, <2>1
<1>3. EntriesFit(DOMAIN Keep(messages, Messages \ {a}))
  BY <1>1, <1>2, EntriesFitWithout DEF Good
<1>4. MessageTable(Keep(messages, Messages \ {a}))
  BY DEF Good, MessageTable, Keep
<1>5. AckTable(Put(acks, a, NewAck(hops))) /\ SlotsFit(Put(acks, a, NewAck(hops)))
  BY NewAckType, SlotsFitWith DEF Good
<1> QED BY <1>3, <1>4, <1>5 DEF Good

\* save_one_ack never runs out of room: the gc frees half of every full slot.
LEMMA SaveAckStep ==
    ASSUME IInv, NEW a \in Messages, NEW hops \in Hops, SaveAck(a, hops)
    PROVE  IInv' /\ Follows(bloom', rotations')
<1>1. Good(message_table, ack_table, token_list, bloom, rotations)
  BY DEF IInv
<1>0. Follows(bloom, rotations)
  BY <1>1, FollowsUnchanged DEF Good
<1>2. CASE /\ AddToBloom("ack", a)
           /\ UNCHANGED <<message_table, ack_table, token_list, local_token,
                          expired, gc_recent, halted>>
  <2>1. Filter(bloom', rotations') /\ Follows(bloom', rotations')
    BY <1>1, <1>2, AddToBloomFilter DEF Good, Filters
  <2> QED BY <1>1, <1>2, <2>1 DEF IInv, Good
<1>3. CASE /\ a \in DOMAIN ack_table
           /\ ack_table' = [ack_table EXCEPT ![a].max_hops = IF @ < hops THEN hops ELSE @]
           /\ UNCHANGED <<message_table, token_list, local_token, filters, expired,
                          gc_recent, halted>>
  <2>1. DOMAIN ack_table' = DOMAIN ack_table
    BY <1>3
  <2>2. ASSUME NEW x \in DOMAIN ack_table
        PROVE  ack_table'[x] \in [max_hops : Hops, sent_to_tokens : SUBSET Bits]
    <3>1. ack_table[x] \in [max_hops : Hops, sent_to_tokens : SUBSET Bits]
      BY <1>1 DEF Good, AckTable
    <3>2. CASE x = a
      <4>1. \E h \in Hops : ack_table'[x] = [ack_table[x] EXCEPT !.max_hops = h]
        BY <1>3, <3>1, <3>2
      <4> QED BY <3>1, <4>1
    <3>3. CASE x # a
      BY <1>3, <3>1, <3>3
    <3> QED BY <3>2, <3>3
  <2>3. AckTable(ack_table')
    BY <1>1, <2>1, <2>2 DEF Good, AckTable
  <2>4. SlotsFit(ack_table')
    BY <1>1, <2>1, SlotsFitDomain DEF Good
  <2> QED BY <1>0, <1>1, <1>3, <2>3, <2>4 DEF IInv, Good, filters
<1>4. CASE /\ a \notin DOMAIN ack_table
           /\ HasFreeAck(ack_table, a)
           /\ ack_table' = Put(ack_table, a, NewAck(hops))
           /\ message_table' = Keep(message_table, Messages \ {a})
           /\ UNCHANGED <<token_list, local_token, filters, expired, gc_recent, halted>>
  <2>1. Good(message_table', ack_table', token_list, bloom, rotations)
    BY <1>1, <1>4, AddAck
  <2> QED BY <1>0, <1>4, <2>1 DEF IInv, filters
<1>5. ASSUME a \notin DOMAIN ack_table, NEW gc \in GcResults(NoEntry, 0),
             IF HasFreeAck(gc.acks, a)
             THEN /\ ReinitLocalToken
                  /\ ack_table' = Put(gc.acks, a, NewAck(hops))
                  /\ message_table' = Keep(gc.messages, Messages \ {a})
                  /\ token_list' = gc.tokens
                  /\ bloom' = gc.bloom /\ rotations' = gc.rotations
                  /\ UNCHANGED <<expired, gc_recent, halted>>
             ELSE Halt
      PROVE  IInv' /\ Follows(bloom', rotations')
  <2>1. /\ Good(gc.messages, gc.acks, gc.tokens, gc.bloom, gc.rotations)
        /\ Follows(gc.bloom, gc.rotations)
        /\ DOMAIN gc.acks \subseteq DOMAIN ack_table
        /\ \A s \in Slots : SlotUse(gc.acks, s) < ACKS_PER_SLOT
    BY GcGood
  <2>2. HasFreeAck(gc.acks, a)
    BY <2>1, TableAssumption DEF HasFreeAck
  <2>3. /\ ReinitLocalToken
        /\ ack_table' = Put(gc.acks, a, NewAck(hops))
        /\ message_table' = Keep(gc.messages, Messages \ {a})
        /\ token_list' = gc.tokens
        /\ bloom' = gc.bloom /\ rotations' = gc.rotations
        /\ UNCHANGED <<expired, gc_recent, halted>>
    BY <1>5, <2>2
  <2>4. Good(message_table', ack_table', token_list', bloom', rotations')
    BY <1>5, <2>1, <2>2, <2>3, AddAck
  <2>5. local_token' \in 0 .. MAX_GCS
    BY <2>3, ReinitLocalTokenType DEF IInv
  <2> QED BY <2>1, <2>3, <2>4, <2>5 DEF IInv
<1> QED BY <1>2, <1>3, <1>4, <1>5 DEF SaveAck

LEMMA AckForTokenStep ==
    ASSUME IInv, NEW t \in AnyToken, NEW a \in Messages, NEW new \in BOOLEAN,
           AckForToken(t, a, new)
    PROVE  IInv' /\ Follows(bloom', rotations')
<1>1. Good(message_table, ack_table, token_list, bloom, rotations)
  BY DEF IInv
<1>0. Follows(bloom, rotations)
  BY <1>1, FollowsUnchanged DEF Good
<1>2. CASE /\ AddToBloom("ack", a)
           /\ UNCHANGED <<message_table, ack_table, token_list, local_token,
                          expired, gc_recent, halted>>
  <2>1. Filter(bloom', rotations') /\ Follows(bloom', rotations')
    BY <1>1, <1>2, AddToBloomFilter DEF Good, Filters
  <2> QED BY <1>1, <1>2, <2>1 DEF IInv, Good
<1>3. ASSUME NEW bitmap, NEW r \in TokenToSendTo(t, bitmap),
             new = (r.index # -1),
             Install(r, r.now.messages,
                     IF new THEN MarkIn(r.now.acks, a, r.index) ELSE r.now.acks)
      PROVE  IInv' /\ Follows(bloom', rotations')
  <2> DEFINE acks == IF new THEN MarkIn(r.now.acks, a, r.index) ELSE r.now.acks
  <2>1. /\ Good(r.now.messages, r.now.acks, r.now.tokens, r.now.bloom, r.now.rotations)
        /\ r.index \in Bits \cup {-1} /\ r.gc \in BOOLEAN
        /\ Follows(r.now.bloom, r.now.rotations)
    BY TokenToSendToGood
  <2>2. AckTable(acks) /\ DOMAIN acks = DOMAIN r.now.acks
    <3>1. CASE new
      <4>1. r.index \in Bits
        BY <1>3, <2>1, <3>1
      <4> QED BY <2>1, <3>1, <4>1, MarkInTables DEF Good
    <3>2. CASE ~ new
      BY <2>1, <3>2 DEF Good
    <3> QED BY <3>1, <3>2
  <2>3. MessageTable(r.now.messages)
    BY <2>1 DEF Good
  <2>4. Install(r, r.now.messages, acks)
    BY <1>3
  <2> HIDE DEF acks
  <2> QED BY <2>1, <2>2, <2>3, <2>4, InstallGood
<1> QED BY <1>2, <1>3 DEF AckForToken

LEMMA MarkTokenSentStep ==
    ASSUME IInv, NEW t \in AnyToken, NEW m \in Messages, MarkTokenSent(t, m)
    PROVE  IInv' /\ Follows(bloom', rotations')
<1>1. PICK r \in TokenToSendTo(t, {}) :
         Install(r, IF r.index = -1 THEN r.now.messages ELSE MarkIn(r.now.messages, m, r.index),
                 r.now.acks)
  BY DEF MarkTokenSent
<1> DEFINE messages == IF r.index = -1 THEN r.now.messages
                       ELSE MarkIn(r.now.messages, m, r.index)
<1>2. /\ Good(r.now.messages, r.now.acks, r.now.tokens, r.now.bloom, r.now.rotations)
      /\ r.index \in Bits \cup {-1} /\ r.gc \in BOOLEAN
        /\ Follows(r.now.bloom, r.now.rotations)
  BY TokenToSendToGood
<1>3. MessageTable(messages) /\ DOMAIN messages = DOMAIN r.now.messages
  <2>1. CASE r.index = -1
    BY <1>2, <2>1 DEF Good
  <2>2. CASE r.index # -1
    <3>1. r.index \in Bits
      BY <1>2, <2>2
    <3> QED BY <1>2, <2>2, <3>1, MarkInTables DEF Good
  <2> QED BY <2>1, <2>2
<1>4. AckTable(r.now.acks) /\ Install(r, messages, r.now.acks)
  BY <1>1, <1>2 DEF Good
<1> HIDE DEF messages
<1> QED BY <1>2, <1>3, <1>4, InstallGood

LEMMA RequestStep ==
    ASSUME IInv, NEW t \in AnyToken, NEW matching, NEW max, NEW results,
           Request(t, matching, max, results)
    PROVE  IInv' /\ Follows(bloom', rotations')
<1>1. CASE UNCHANGED vars
  BY <1>1, FollowsUnchanged DEF vars, IInv, Good
<1>2. ASSUME NEW bitmap, NEW r \in TokenToSendTo(t, bitmap),
             Install(r, r.now.messages, r.now.acks)
      PROVE  IInv' /\ Follows(bloom', rotations')
  <2>1. /\ Good(r.now.messages, r.now.acks, r.now.tokens, r.now.bloom, r.now.rotations)
        /\ r.gc \in BOOLEAN /\ Follows(r.now.bloom, r.now.rotations)
    BY TokenToSendToGood
  <2>2. MessageTable(r.now.messages) /\ AckTable(r.now.acks)
    BY <2>1 DEF Good
  <2> QED BY <1>2, <2>1, <2>2, InstallGood
<1> QED BY <1>1, <1>2 DEF Request

-----------------------------------------------------------------------------
(* The invariant, and what follows from it.                                *)

LEMMA InitIInv == Init => IInv
<1> SUFFICES ASSUME Init PROVE IInv
  OBVIOUS
<1>1. /\ DOMAIN message_table = {} /\ DOMAIN ack_table = {}
      /\ token_list = <<>> /\ expired = {} /\ local_token = 0
      /\ gc_recent = FALSE /\ halted = FALSE /\ rotations = 0
      /\ DOMAIN bloom = Filters /\ \A f \in Filters : bloom[f] = [m \in {} |-> 0]
  BY DEF Init
<1>2. MessageTable(message_table) /\ AckTable(ack_table)
  BY <1>1 DEF MessageTable, AckTable
<1>3. EntriesFit(DOMAIN message_table)
  <2>1. \A e \in Entries : EntryIn(DOMAIN message_table, e) = {}
    BY <1>1 DEF EntryIn
  <2>2. Used({}) <= MESSAGE_STORAGE_SIZE
    BY UsedIs, TableAssumption
  <2>3. \A e \in Entries : Used(EntryIn(DOMAIN message_table, e)) = Used({})
    BY <2>1
  <2> QED BY <2>2, <2>3 DEF EntriesFit
<1>4. SlotsFit(ack_table)
  <2>1. \A s \in Slots : {x \in DOMAIN ack_table : SlotOf[x] = s} = {}
    BY <1>1
  <2>2. Cardinality({}) <= ACKS_PER_SLOT
    BY FS_EmptySet, TableAssumption
  <2>3. \A s \in Slots : SlotUse(ack_table, s) = Cardinality({})
    BY <2>1 DEF SlotUse
  <2> QED BY <2>2, <2>3 DEF SlotsFit
<1>5. TokenList(token_list)
  <2>1. MAX_TOKENS \in Nat /\ Len(<<>>) = 0 /\ <<>> \in Seq(AnyToken) /\ DOMAIN <<>> = {}
    BY TokenAssumption, EmptySeq
  <2> QED BY <1>1, <2>1 DEF TokenList
<1>6. Filter(bloom, rotations)
  BY <1>1, FilterAssumption DEF Filter, Stamped
<1>7. local_token \in 0 .. MAX_GCS
  BY <1>1, TableAssumption
<1> QED BY <1>1, <1>2, <1>3, <1>4, <1>5, <1>6, <1>7 DEF IInv, Good

LEMMA NextIInv == IInv /\ [Next]_vars => IInv'
<1> SUFFICES ASSUME IInv, [Next]_vars PROVE IInv'
  OBVIOUS
<1>1. Tokens \subseteq AnyToken /\ local_token \in AnyToken
  BY DEF AnyToken, IInv
<1>2. CASE \E m \in Messages, p \in Priorities : SavePacket(m, p)
  BY <1>2, SavePacketStep
<1>3. CASE \E m \in Messages : RecordPacket(m)
  BY <1>3, RecordPacketStep
<1>4. CASE \E a \in Messages, h \in Hops : SaveAck(a, h)
  BY <1>4, SaveAckStep
<1>5. CASE \E t \in Tokens \cup {local_token}, a \in Messages, new \in BOOLEAN :
              AckForToken(t, a, new)
  BY <1>1, <1>5, AckForTokenStep
<1>6. CASE \E t \in Tokens, m \in Messages : MarkTokenSent(t, m)
  BY <1>1, <1>6, MarkTokenSentStep
<1>7. CASE \E t \in Tokens, results \in SUBSET (Messages \cup {Garbled}) :
              Request(t, Messages, 0, results)
  BY <1>1, <1>7, RequestStep
<1>8. CASE \E m \in Messages : Expire(m)
  BY <1>8 DEF Expire, IInv, filters
<1>9. CASE MinutePasses
  BY <1>9 DEF MinutePasses, IInv, filters
<1>10. CASE UNCHANGED vars
  BY <1>10 DEF vars, IInv
<1>11. CASE RecordTrace
  BY <1>11, RecordTraceStep
<1> QED BY <1>2, <1>3, <1>4, <1>5, <1>6, <1>7, <1>8, <1>9, <1>10, <1>11 DEF Next

LEMMA IInvImplies == IInv => TypeOK /\ WithinCapacity /\ TokensDistinct /\ NeverHalts
<1> SUFFICES ASSUME IInv PROVE TypeOK /\ WithinCapacity /\ TokensDistinct /\ NeverHalts
  OBVIOUS
<1>1. TypeOK
  BY DEF IInv, Good, TypeOK, MessageTable, AckTable, TokenList, Filter, Stamped
<1>2. WithinCapacity
  BY DEF IInv, Good, WithinCapacity, EntriesFit, EntryIn, InEntry, SlotsFit
<1>3. TokensDistinct
  BY DEF IInv, Good, TokensDistinct, TokenList
<1> QED BY <1>1, <1>2, <1>3 DEF NeverHalts, IInv

LEMMA SpecIInv == Spec => []IInv
BY InitIInv, NextIInv, PTL DEF Spec

\* The variables of the cache keep their types, in caches of any size.
THEOREM TypeCorrect == Spec => []TypeOK
BY SpecIInv, IInvImplies, PTL

\* A garbage collection always makes the room it was started for: neither
\* pcache_save_packet nor save_one_ack nor token_to_send_to gives up.
THEOREM CacheNeverHalts == Spec => []NeverHalts
BY SpecIInv, IInvImplies, PTL

\* The entries of the message table and the slots of the ack table never
\* hold more than they have room for.
THEOREM CacheWithinCapacity == Spec => []WithinCapacity
BY SpecIInv, IInvImplies, PTL

\* No token is listed twice.
THEOREM CacheTokensDistinct == Spec => []TokensDistinct
BY SpecIInv, IInvImplies, PTL

-----------------------------------------------------------------------------
(* What a step may drop, and what it must then leave behind.                *)

NoSilentLoss ==
    \A m \in DOMAIN message_table \ DOMAIN message_table' :
        m \in DOMAIN ack_table' \/ local_token' # local_token

DropsAreRemembered ==
    /\ \A m \in DOMAIN message_table \ DOMAIN message_table' :
          \/ m \in DOMAIN ack_table'
          \/ m \in DOMAIN bloom'["message"] /\ bloom'["message"][m] >= rotations
          \/ m \in LostForBig
    /\ \A a \in DOMAIN ack_table \ DOMAIN ack_table' :
          /\ a \in DOMAIN bloom'["ack"] /\ bloom'["ack"][a] >= rotations
          /\ a \in DOMAIN bloom'["message"] /\ bloom'["message"][a] >= rotations

DropStep == NoSilentLoss /\ DropsAreRemembered

\* A gc remembers all that it drops, except from an entry that it has to free
\* as a whole for the message it was called for.
LEMMA GcRemembers ==
    ASSUME IInv, NEW e, NEW n \in Nat, NEW gc \in GcResults(e, n)
    PROVE  /\ \A m \in DOMAIN message_table \ DOMAIN gc.messages :
                 \/ m \in DOMAIN gc.bloom["message"] /\ gc.bloom["message"][m] >= rotations
                 \/ FreesEverything(n) /\ EntryOf[m] = e
           /\ \A a \in DOMAIN ack_table \ DOMAIN gc.acks :
                 /\ a \in DOMAIN gc.bloom["ack"] /\ gc.bloom["ack"][a] >= rotations
                 /\ a \in DOMAIN gc.bloom["message"] /\ gc.bloom["message"][a] >= rotations
<1>1. ASSUME NEW m \in Forgotten(e, n)
      PROVE  FreesEverything(n) /\ EntryOf[m] = e
  <2>1. PICK x \in Entries : m \in InEntry(x) /\ FreesEverything(Wanted(x, e, n))
    BY <1>1 DEF Forgotten
  <2>2. x = e
    BY <2>1, EntryAssumption DEF Wanted
  <2> QED BY <2>1, <2>2 DEF Wanted, InEntry
<1> QED BY <1>1, GcGood

\* Only a gc changes what token_to_send_to finds in the tables.
LEMMA TokenToSendToDrops ==
    ASSUME IInv, NEW t, NEW bitmap, NEW r \in TokenToSendTo(t, bitmap)
    PROVE  \/ /\ r.now.messages = message_table /\ r.now.acks = ack_table
              /\ r.now.bloom = bloom
           \/ /\ r.gc
              /\ \A m \in DOMAIN message_table \ DOMAIN r.now.messages :
                    m \in DOMAIN r.now.bloom["message"] /\ r.now.bloom["message"][m] >= rotations
              /\ \A a \in DOMAIN ack_table \ DOMAIN r.now.acks :
                    /\ a \in DOMAIN r.now.bloom["ack"] /\ r.now.bloom["ack"][a] >= rotations
                    /\ a \in DOMAIN r.now.bloom["message"] /\ r.now.bloom["message"][a] >= rotations
<1>1. CASE r.now = Tables
  BY <1>1 DEF Tables
<1>2. CASE ~ Listed(t) /\ Len(token_list) < MAX_TOKENS
  BY <1>2 DEF TokenToSendTo, Tables
<1>3. CASE ~ Listed(t) /\ ~ Len(token_list) < MAX_TOKENS /\ ~ gc_recent
  <2>1. PICK g \in GcResults(NoEntry, 0) :
           r = [now |-> [g EXCEPT !.tokens = Append(@, t)], gc |-> TRUE,
                index |-> Len(g.tokens)]
    BY <1>3 DEF TokenToSendTo
  <2>3. /\ r.now.messages = g.messages /\ r.now.acks = g.acks
        /\ r.now.bloom = g.bloom /\ r.gc = TRUE
    <3>1. g = [messages |-> g.messages, acks |-> g.acks, tokens |-> g.tokens,
               bloom |-> g.bloom, rotations |-> g.rotations]
      BY GcGood
    <3> QED BY <2>1, <3>1
  <2> QED BY <2>3, GcRemembers, EntryAssumption
<1>4. Listed(t) \/ (~ Listed(t) /\ ~ Len(token_list) < MAX_TOKENS /\ gc_recent) => r.now = Tables
  BY DEF TokenToSendTo
<1> QED BY <1>1, <1>2, <1>3, <1>4

LEMMA NewLocalToken ==
    ASSUME IInv, ReinitLocalToken
    PROVE  local_token' # local_token
BY DEF IInv, ReinitLocalToken

LEMMA InstallDrops ==
    ASSUME IInv, NEW t, NEW bitmap, NEW r \in TokenToSendTo(t, bitmap),
           NEW messages, DOMAIN messages = DOMAIN r.now.messages,
           NEW acks, DOMAIN acks = DOMAIN r.now.acks,
           Install(r, messages, acks)
    PROVE  DropStep
<1>1. message_table' = messages /\ ack_table' = acks /\ bloom' = r.now.bloom
      /\ (r.gc => ReinitLocalToken)
  BY DEF Install
<1>2. r.gc => local_token' # local_token
  BY <1>1, NewLocalToken
<1> QED BY <1>1, <1>2, TokenToSendToDrops DEF DropStep, NoSilentLoss, DropsAreRemembered

LEMMA NothingDropped ==
    ASSUME DOMAIN message_table \subseteq DOMAIN message_table',
           DOMAIN ack_table \subseteq DOMAIN ack_table'
    PROVE  DropStep
BY DEF DropStep, NoSilentLoss, DropsAreRemembered

LEMMA SavePacketDrops ==
    ASSUME IInv, NEW m \in Messages, NEW priority \in Priorities, SavePacket(m, priority)
    PROVE  DropStep
<1>1. CASE UNCHANGED <<message_table, ack_table>>
  BY <1>1, NothingDropped
<1>2. CASE /\ message_table' = Put(message_table, m, NewMessage(priority))
           /\ UNCHANGED ack_table
  <2>1. DOMAIN message_table' = DOMAIN message_table \cup {m}
    BY <1>2, PutDomain
  <2> QED BY <1>2, <2>1, NothingDropped
<1>3. ASSUME ~ Seen(m), NEW gc \in GcResults(EntryOf[m], Size[m]),
             ReinitLocalToken,
             message_table' = Put(gc.messages, m, NewMessage(priority)),
             ack_table' = gc.acks, bloom' = gc.bloom
      PROVE  DropStep
  <2>1. Size[m] \in Nat
    BY TableAssumption
  <2>2. local_token' # local_token
    BY <1>3, NewLocalToken
  <2>3. DOMAIN message_table' = DOMAIN gc.messages \cup {m} /\ m \notin DOMAIN message_table
    BY <1>3, PutDomain DEF Seen
  <2>4. /\ \A x \in DOMAIN message_table \ DOMAIN gc.messages :
              \/ x \in DOMAIN gc.bloom["message"] /\ gc.bloom["message"][x] >= rotations
              \/ FreesEverything(Size[m]) /\ EntryOf[x] = EntryOf[m]
        /\ \A a \in DOMAIN ack_table \ DOMAIN gc.acks :
              /\ a \in DOMAIN gc.bloom["ack"] /\ gc.bloom["ack"][a] >= rotations
              /\ a \in DOMAIN gc.bloom["message"] /\ gc.bloom["message"][a] >= rotations
    BY <2>1, GcRemembers
  <2>5. \A x \in DOMAIN message_table \ DOMAIN message_table' :
           FreesEverything(Size[m]) /\ EntryOf[x] = EntryOf[m] => x \in LostForBig
    BY <2>3 DEF LostForBig
  <2> QED BY <1>3, <2>2, <2>3, <2>4, <2>5 DEF DropStep, NoSilentLoss, DropsAreRemembered
<1> QED BY <1>1, <1>2, <1>3 DEF SavePacket, Halt

LEMMA SaveAckDrops ==
    ASSUME IInv, NEW a \in Messages, NEW hops \in Hops, SaveAck(a, hops)
    PROVE  DropStep
<1>0. DOMAIN message_table \subseteq Messages
  BY DEF IInv, Good, MessageTable
<1>1. CASE UNCHANGED <<message_table, ack_table>>
  BY <1>1, NothingDropped
<1>2. CASE /\ ack_table' = [ack_table EXCEPT ![a].max_hops = IF @ < hops THEN hops ELSE @]
           /\ UNCHANGED message_table
  <2>1. DOMAIN ack_table' = DOMAIN ack_table
    BY <1>2
  <2> QED BY <1>2, <2>1, NothingDropped
<1>3. CASE /\ ack_table' = Put(ack_table, a, NewAck(hops))
           /\ message_table' = Keep(message_table, Messages \ {a})
  <2>1. /\ DOMAIN ack_table' = DOMAIN ack_table \cup {a}
        /\ DOMAIN message_table' = DOMAIN message_table \cap (Messages \ {a})
    BY <1>3, PutDomain, KeepDomain
  <2> QED BY <1>0, <2>1 DEF DropStep, NoSilentLoss, DropsAreRemembered
<1>4. ASSUME NEW gc \in GcResults(NoEntry, 0),
             ReinitLocalToken,
             ack_table' = Put(gc.acks, a, NewAck(hops)),
             message_table' = Keep(gc.messages, Messages \ {a}),
             bloom' = gc.bloom
      PROVE  DropStep
  <2>1. /\ DOMAIN ack_table' = DOMAIN gc.acks \cup {a}
        /\ DOMAIN message_table' = DOMAIN gc.messages \cap (Messages \ {a})
    BY <1>4, PutDomain, KeepDomain
  <2>2. local_token' # local_token
    BY <1>4, NewLocalToken
  <2>3. /\ \A m \in DOMAIN message_table \ DOMAIN gc.messages :
              m \in DOMAIN gc.bloom["message"] /\ gc.bloom["message"][m] >= rotations
        /\ \A x \in DOMAIN ack_table \ DOMAIN gc.acks :
              /\ x \in DOMAIN gc.bloom["ack"] /\ gc.bloom["ack"][x] >= rotations
              /\ x \in DOMAIN gc.bloom["message"] /\ gc.bloom["message"][x] >= rotations
    BY GcRemembers, EntryAssumption
  <2> QED BY <1>0, <1>4, <2>1, <2>2, <2>3 DEF DropStep, NoSilentLoss, DropsAreRemembered
<1> QED BY <1>1, <1>2, <1>3, <1>4 DEF SaveAck, Halt

LEMMA MarkInDomain ==
    ASSUME NEW table, NEW x, NEW index
    PROVE  DOMAIN MarkIn(table, x, index) = DOMAIN table
BY DEF MarkIn

LEMMA NextDrops ==
    ASSUME IInv, [Next]_vars
    PROVE  DropStep
<1>1. CASE \E m \in Messages, p \in Priorities : SavePacket(m, p)
  BY <1>1, SavePacketDrops
<1>2. CASE \E a \in Messages, h \in Hops : SaveAck(a, h)
  BY <1>2, SaveAckDrops
<1>3. ASSUME NEW t, NEW a, NEW new \in BOOLEAN, AckForToken(t, a, new)
      PROVE  DropStep
  <2>1. CASE UNCHANGED <<message_table, ack_table>>
    BY <2>1, NothingDropped
  <2>2. ASSUME NEW bitmap, NEW r \in TokenToSendTo(t, bitmap),
               Install(r, r.now.messages,
                       IF new THEN MarkIn(r.now.acks, a, r.index) ELSE r.now.acks)
        PROVE  DropStep
    <3> DEFINE acks == IF new THEN MarkIn(r.now.acks, a, r.index) ELSE r.now.acks
    <3>1. DOMAIN acks = DOMAIN r.now.acks /\ Install(r, r.now.messages, acks)
      BY <2>2, MarkInDomain
    <3> HIDE DEF acks
    <3> QED BY <3>1, InstallDrops
  <2> QED BY <1>3, <2>1, <2>2 DEF AckForToken
<1>4. ASSUME NEW t, NEW m, MarkTokenSent(t, m)
      PROVE  DropStep
  <2>1. PICK r \in TokenToSendTo(t, {}) :
           Install(r, IF r.index = -1 THEN r.now.messages ELSE MarkIn(r.now.messages, m, r.index),
                   r.now.acks)
    BY <1>4 DEF MarkTokenSent
  <2> DEFINE messages == IF r.index = -1 THEN r.now.messages
                         ELSE MarkIn(r.now.messages, m, r.index)
  <2>2. DOMAIN messages = DOMAIN r.now.messages /\ Install(r, messages, r.now.acks)
    BY <2>1, MarkInDomain
  <2> HIDE DEF messages
  <2> QED BY <2>2, InstallDrops
<1>5. ASSUME NEW t, NEW matching, NEW max, NEW results, Request(t, matching, max, results)
      PROVE  DropStep
  <2>1. CASE UNCHANGED vars
    BY <2>1, NothingDropped DEF vars
  <2>2. ASSUME NEW bitmap, NEW r \in TokenToSendTo(t, bitmap),
               Install(r, r.now.messages, r.now.acks)
        PROVE  DropStep
    BY <2>2, InstallDrops
  <2> QED BY <1>5, <2>1, <2>2 DEF Request
<1>6. CASE UNCHANGED <<message_table, ack_table>>
  BY <1>6, NothingDropped
<1> QED BY <1>1, <1>2, <1>3, <1>4, <1>5, <1>6
        DEF Next, RecordPacket, RecordTrace, Expire, MinutePasses, vars

\* No message leaves the cache unnoticed: either its ack is held instead, or
\* reinit_local_token changed the token by which other systems know what we
\* were sent already (do_gc, save_one_ack).
THEOREM LossIsVisible == Spec => LossChangesLocalToken
<1>1. IInv /\ [Next]_vars =>
         \A m \in DOMAIN message_table \ DOMAIN message_table' :
             m \in DOMAIN ack_table' \/ local_token' # local_token
  BY NextDrops DEF DropStep, NoSilentLoss
<1> QED BY <1>1, SpecIInv, PTL DEF Spec, LossChangesLocalToken

\* What a garbage collection drops is in the Bloom filters afterwards, so it is
\* not taken for new when it comes again; only a message of half an entry or
\* more makes gc_messages_entry free an entry without remembering it.
THEOREM DropsRemembered == Spec => DroppedIsRemembered
<1>1. IInv /\ [Next]_vars =>
         /\ \A m \in DOMAIN message_table \ DOMAIN message_table' :
               \/ m \in DOMAIN ack_table'
               \/ InBloom("message", m)'
               \/ m \in LostForBig
         /\ \A a \in DOMAIN ack_table \ DOMAIN ack_table' :
               InBloom("ack", a)' /\ InBloom("message", a)'
  BY NextDrops DEF DropStep, DropsAreRemembered, InBloom
<1> QED BY <1>1, SpecIInv, PTL DEF Spec, DroppedIsRemembered
=============================================================================
