---------------------------- MODULE SocketsProofs ----------------------------
(***************************************************************************)
(* Theorems about the addresses a daemon sends to, for any addresses,      *)
(* limits and routing peers.                                               *)
(*                                                                         *)
(* The lists are compacted while r.sav points into one of them.  What the  *)
(* proofs need of this is the relation Thinned: no address is new or       *)
(* there twice, and as long as none of the first entries has gone they     *)
(* have not moved.                                                         *)
(***************************************************************************)
EXTENDS Sockets, FiniteSetTheorems, SequenceTheorems, TLAPS

Addrs(l) == {l[i].addr : i \in DOMAIN l}
OneEach(l) == \A i, j \in DOMAIN l : l[i].addr = l[j].addr => i = j

StillFirst(old, new, p) ==
    \A i \in 1 .. p : i \in DOMAIN new /\ new[i].addr = old[i].addr
Thinned(old, new) ==
    /\ OneEach(new) /\ Addrs(new) \subseteq Addrs(old)
    /\ \A p \in 0 .. Len(old) :
          (\A i \in 1 .. p : old[i].addr \in Addrs(new)) => StillFirst(old, new, p)

\* every entry of new is one of the kept entries of changed
OnlyFrom(new, changed, kept) ==
    \A n \in DOMAIN new : \E i \in kept : new[n] = changed[i]

-----------------------------------------------------------------------------
(* Compacting a list.                                                      *)

Rank(kept, i) == Cardinality({j \in kept : j <= i})
At(kept, n) == CHOOSE i \in kept : Rank(kept, i) = n

\* Slots of a list can be counted, and each that is kept has another rank.
LEMMA RankIs ==
    ASSUME NEW m \in Nat, NEW kept \in SUBSET (1 .. m)
    PROVE  /\ IsFiniteSet(kept) /\ Cardinality(kept) \in Nat
           /\ \A i \in kept : Rank(kept, i) \in 1 .. Cardinality(kept)
           /\ \A i, j \in kept : Rank(kept, i) = Rank(kept, j) => i = j
           /\ \A p \in 0 .. m : 1 .. p \subseteq kept => \A n \in 1 .. p : Rank(kept, n) = n
<1>1. IsFiniteSet(kept) /\ Cardinality(kept) \in Nat
  <2>1. 1 \in Int /\ m \in Int
    OBVIOUS
  <2>2. IsFiniteSet(1 .. m)
    BY <2>1, FS_Interval
  <2> QED
    BY <2>2, FS_Subset, FS_CardinalityType
<1>2. ASSUME NEW i \in kept
      PROVE  /\ {j \in kept : j <= i} \in SUBSET kept
             /\ IsFiniteSet({j \in kept : j <= i})
             /\ Rank(kept, i) \in Nat /\ Rank(kept, i) <= Cardinality(kept)
  BY <1>1, FS_Subset, FS_CardinalityType DEF Rank
<1>3. ASSUME NEW i \in kept PROVE Rank(kept, i) # 0
  <2>1. i \in {j \in kept : j <= i}
    OBVIOUS
  <2> QED
    BY <1>2, <2>1, FS_EmptySet DEF Rank
<1>4. ASSUME NEW i \in kept, NEW j \in kept, i < j PROVE Rank(kept, i) # Rank(kept, j)
  <2> DEFINE upto == {x \in kept : x <= i}
             further == {x \in kept : x <= j}
  <2>1. upto \in SUBSET further /\ j \in further /\ j \notin upto
    <3>1. i \in Nat /\ j \in Nat /\ \A x \in kept : x \in Nat
      OBVIOUS
    <3>2. \A x \in Nat : x <= i => x <= j
      BY <1>4, <3>1
    <3>3. j <= j /\ ~(j <= i)
      BY <1>4, <3>1
    <3> QED
      BY <3>1, <3>2, <3>3
  <2>2. IsFiniteSet(further)
    BY <1>2
  <2>3. Cardinality(upto) # Cardinality(further)
    <3> HIDE DEF upto, further
    <3> QED
      BY <2>1, <2>2, FS_Subset
  <2> QED
    BY <2>3 DEF Rank
<1>5. ASSUME NEW i \in kept, NEW j \in kept, Rank(kept, i) = Rank(kept, j) PROVE i = j
  <2>1. ~(i < j) /\ ~(j < i)
    BY <1>4, <1>5
  <2> QED
    BY <2>1
<1>6. ASSUME NEW p \in 0 .. m, 1 .. p \subseteq kept, NEW n \in 1 .. p
      PROVE  Rank(kept, n) = n
  <2>1. {j \in kept : j <= n} = 1 .. n
    <3>1. /\ p \in Nat /\ n \in Nat /\ n <= p /\ n >= 1
          /\ \A x \in kept : x \in Nat /\ x >= 1
      OBVIOUS
    <3>2. \A x \in 1 .. n : x \in 1 .. p
      BY <3>1
    <3>3. \A x \in kept : x <= n => x \in 1 .. n
      BY <3>1
    <3>4. \A x \in 1 .. n : x \in kept /\ x <= n
      BY <1>6, <3>1, <3>2
    <3> QED
      BY <3>3, <3>4
  <2>2. Cardinality(1 .. n) = n
    <3>1. 1 \in Int /\ n \in Int /\ ~(1 > n) /\ n - 1 + 1 = n
      OBVIOUS
    <3> QED
      BY <3>1, FS_Interval
  <2> QED
    BY <2>1, <2>2 DEF Rank
<1>7. ASSUME NEW i \in kept PROVE Rank(kept, i) \in 1 .. Cardinality(kept)
  <2>1. \A x, c \in Nat : x # 0 /\ x <= c => x \in 1 .. c
    OBVIOUS
  <2> QED
    BY <1>1, <1>2, <1>3, <2>1
<1> QED
  BY <1>1, <1>5, <1>6, <1>7

\* The nth kept slot exists, and is the only one with rank n.
LEMMA AtIs ==
    ASSUME NEW m \in Nat, NEW kept \in SUBSET (1 .. m)
    PROVE  /\ \A n \in 1 .. Cardinality(kept) :
                 At(kept, n) \in kept /\ Rank(kept, At(kept, n)) = n
           /\ \A i \in kept : At(kept, Rank(kept, i)) = i
<1> DEFINE ranks == 1 .. Cardinality(kept)
           rank == [i \in kept |-> Rank(kept, i)]
<1>1. /\ IsFiniteSet(kept) /\ Cardinality(kept) \in Nat
      /\ \A i \in kept : Rank(kept, i) \in ranks
      /\ \A i, j \in kept : Rank(kept, i) = Rank(kept, j) => i = j
  BY RankIs
<1>2. rank \in Injection(kept, ranks)
  BY <1>1 DEF Injection, IsInjective
<1>3. IsFiniteSet(ranks) /\ Cardinality(ranks) = Cardinality(kept)
  BY <1>1, FS_Interval
<1>4. rank \in Surjection(kept, ranks)
  <2> HIDE DEF rank, ranks
  <2> QED
    BY <1>1, <1>2, <1>3, FS_Injection
<1>5. \A n \in ranks : \E i \in kept : Rank(kept, i) = n
  BY <1>4 DEF Surjection
<1>6. \A n \in ranks : At(kept, n) \in kept /\ Rank(kept, At(kept, n)) = n
  BY <1>5 DEF At
<1> QED
  BY <1>1, <1>6

\* Compacting a list leaves the entries that are kept, in their order.
LEMMA CompactedIs ==
    ASSUME NEW old \in Seq(Entry), OneEach(old),
           NEW kept \in SUBSET (DOMAIN old),
           NEW changed, DOMAIN changed = DOMAIN old,
           \A i \in kept : changed[i] \in Entry /\ changed[i].addr = old[i].addr
    PROVE  /\ Compacted(changed, kept) \in Seq(Entry)
           /\ Thinned(old, Compacted(changed, kept))
           /\ OnlyFrom(Compacted(changed, kept), changed, kept)
           /\ \A i \in kept : old[i].addr \in Addrs(Compacted(changed, kept))
<1> DEFINE new == Compacted(changed, kept)
<1>1. /\ Len(old) \in Nat /\ DOMAIN old = 1 .. Len(old)
      /\ kept \in SUBSET (1 .. Len(old))
  OBVIOUS
<1>2. /\ Cardinality(kept) \in Nat
      /\ \A i \in kept : Rank(kept, i) \in 1 .. Cardinality(kept)
      /\ \A p \in 0 .. Len(old) : 1 .. p \subseteq kept => \A n \in 1 .. p : Rank(kept, n) = n
  BY <1>1, RankIs
<1>3. /\ \A n \in 1 .. Cardinality(kept) : 
            At(kept, n) \in kept /\ Rank(kept, At(kept, n)) = n
      /\ \A i \in kept : At(kept, Rank(kept, i)) = i
  BY <1>1, AtIs
<1>4. new = [n \in 1 .. Cardinality(kept) |-> changed[At(kept, n)]]
  BY DEF Compacted, At, Rank
<1>5. /\ DOMAIN new = 1 .. Cardinality(kept)
      /\ \A n \in DOMAIN new : /\ At(kept, n) \in kept /\ new[n] = changed[At(kept, n)]
                               /\ new[n] \in Entry /\ new[n].addr = old[At(kept, n)].addr
  BY <1>3, <1>4
<1>6. new \in Seq(Entry)
  <2> HIDE DEF new
  <2>1. new = [n \in 1 .. Cardinality(kept) |-> new[n]]
    BY <1>4, <1>5
  <2> QED
    BY <1>2, <1>5, <2>1
<1>7. \A i \in kept : old[i].addr \in Addrs(new)
  <2> HIDE DEF new
  <2> QED
    BY <1>2, <1>3, <1>5 DEF Addrs
<1>8. OneEach(new)
  <2> SUFFICES ASSUME NEW m \in DOMAIN new, NEW n \in DOMAIN new,
                      new[m].addr = new[n].addr
               PROVE  m = n
    BY DEF OneEach
  <2> HIDE DEF new
  <2>1. At(kept, m) = At(kept, n)
    BY <1>5 DEF OneEach
  <2> QED
    BY <1>3, <1>5, <2>1
<1>9. Addrs(new) \subseteq Addrs(old)
  <2> HIDE DEF new
  <2> QED
    BY <1>5 DEF Addrs
<1>10. ASSUME NEW p \in 0 .. Len(old), \A i \in 1 .. p : old[i].addr \in Addrs(new)
       PROVE  StillFirst(old, new, p)
  <2> HIDE DEF new
  <2>1. ASSUME NEW i \in 1 .. p PROVE i \in kept
    <3>1. i \in DOMAIN old
      BY <1>1
    <3>2. PICK n \in DOMAIN new : new[n].addr = old[i].addr
      BY <1>10 DEF Addrs
    <3>3. At(kept, n) = i
      BY <1>5, <3>1, <3>2 DEF OneEach
    <3> QED
      BY <1>5, <3>3
  <2>2. \A n \in 1 .. p : Rank(kept, n) = n
    BY <1>2, <2>1
  <2>3. \A n \in 1 .. p : n \in DOMAIN new /\ At(kept, n) = n
    BY <1>2, <1>3, <1>5, <2>1, <2>2
  <2> QED
    BY <1>5, <2>3 DEF StillFirst
<1>11. Thinned(old, new)
  <2> HIDE DEF new
  <2> QED
    BY <1>8, <1>9, <1>10 DEF Thinned
<1>12. OnlyFrom(new, changed, kept)
  <2> HIDE DEF new
  <2> QED
    BY <1>5 DEF OnlyFrom
<1> QED
  BY <1>6, <1>7, <1>11, <1>12

\* Compacting twice is compacting.
LEMMA ThinnedTwice ==
    ASSUME NEW a \in Seq(Entry), NEW b \in Seq(Entry), NEW c \in Seq(Entry),
           Thinned(a, b), Thinned(b, c)
    PROVE  Thinned(a, c)
<1>1. OneEach(c) /\ Addrs(c) \subseteq Addrs(b) /\ Addrs(b) \subseteq Addrs(a)
  BY DEF Thinned
<1>2. ASSUME NEW p \in 0 .. Len(a), \A i \in 1 .. p : a[i].addr \in Addrs(c)
      PROVE  StillFirst(a, c, p)
  <2>1. StillFirst(a, b, p)
    BY <1>1, <1>2 DEF Thinned
  <2>2. p \in 0 .. Len(b)
    <3>1. p \in Nat /\ Len(b) \in Nat /\ (p = 0 \/ p \in 1 .. p)
      OBVIOUS
    <3>2. p \in 1 .. p => p \in 1 .. Len(b)
      BY <2>1 DEF StillFirst
    <3> QED
      BY <3>1, <3>2
  <2>3. \A i \in 1 .. p : b[i].addr \in Addrs(c)
    BY <1>2, <2>1 DEF StillFirst
  <2>4. StillFirst(b, c, p)
    BY <2>2, <2>3 DEF Thinned
  <2> QED
    BY <2>1, <2>4 DEF StillFirst
<1> QED
  BY <1>1, <1>2 DEF Thinned

\* The position of an address says whether it is there, and where.
LEMMA PositionIs ==
    ASSUME NEW l \in Seq(Entry), NEW a
    PROVE  /\ Position(l, a) \in Nat
           /\ Position(l, a) > 0 <=> a \in Addrs(l)
           /\ Position(l, a) = 0 <=> a \notin Addrs(l)
           /\ Position(l, a) > 0 => /\ Position(l, a) \in DOMAIN l
                                    /\ l[Position(l, a)].addr = a
<1> DEFINE at == {i \in DOMAIN l : l[i].addr = a}
<1>1. at = {} <=> a \notin Addrs(l)
  BY DEF Addrs
<1>2. at = {} => Position(l, a) = 0
  BY DEF Position
<1>3. at # {} => Position(l, a) \in at
  BY DEF Position
<1>4. \A i \in DOMAIN l : i \in Nat /\ i > 0
  OBVIOUS
<1>5. at # {} => /\ Position(l, a) \in DOMAIN l /\ l[Position(l, a)].addr = a
                 /\ Position(l, a) \in Nat /\ Position(l, a) > 0
  BY <1>3, <1>4
<1> HIDE DEF at
<1> QED
  BY <1>1, <1>2, <1>5

-----------------------------------------------------------------------------
(* What is true of the list l of socket s, and what the entries of a list   *)
(* say of the packets that were counted (u) and heard (h).                 *)

ListFor(s, l) ==
    /\ l \in Seq(Entry) /\ OneEach(l)
    /\ \A i \in DOMAIN l : SocketOf(l[i].addr) = s
CountedIn(l, u, h) ==
    \A i \in DOMAIN l : /\ u[l[i].addr] + l[i].send = SEND_LIMIT
                        /\ h[l[i].addr] + l[i].recv <= RECV_LIMIT
Counts == [Addresses -> Nat]

\* the entries of a list are typed
LEMMA EntryIs ==
    ASSUME NEW s, NEW l, ListFor(s, l), NEW i \in DOMAIN l
    PROVE  /\ l[i] \in Entry /\ l[i].addr \in Addresses
           /\ l[i].send \in Nat /\ l[i].send >= 1 /\ l[i].send <= SEND_LIMIT
           /\ l[i].recv \in Nat /\ l[i].recv <= RECV_LIMIT
           /\ l[i].time \in Nat /\ l[i].time <= LOCAL_TICKS + REMOTE_TICKS
           /\ SocketOf(l[i].addr) = s
<1>1. l[i] \in Entry /\ SocketOf(l[i].addr) = s
  BY DEF ListFor
<1>2. SEND_LIMIT \in Nat /\ RECV_LIMIT \in Nat /\ LOCAL_TICKS \in Nat /\ REMOTE_TICKS \in Nat
  BY SocketsAssumption
<1> QED
  BY <1>1, <1>2 DEF Entry

\* An entry whose counters change in their ranges is an entry.
LEMMA EntryWith ==
    ASSUME NEW e \in Entry, NEW send \in Nat, NEW recv \in Nat, NEW time \in Nat,
           send >= 1, send <= SEND_LIMIT, recv <= RECV_LIMIT,
           time <= LOCAL_TICKS + REMOTE_TICKS,
           NEW f, f = [addr |-> e.addr, send |-> send, recv |-> recv, time |-> time]
    PROVE  f \in Entry /\ f.addr = e.addr /\ f.send = send /\ f.recv = recv /\ f.time = time
<1>1. e.addr \in Addresses
  BY DEF Entry
<1>2. SEND_LIMIT \in Nat /\ RECV_LIMIT \in Nat /\ LOCAL_TICKS \in Nat /\ REMOTE_TICKS \in Nat
  BY SocketsAssumption
<1>3. send \in 1 .. SEND_LIMIT /\ recv \in 0 .. RECV_LIMIT
      /\ time \in 0 .. (LOCAL_TICKS + REMOTE_TICKS)
  BY <1>2
<1> QED
  BY <1>1, <1>3 DEF Entry

\* A loop over a list that keeps the addresses of what it keeps leaves a list.
LEMMA ListCompacted ==
    ASSUME NEW s, NEW old, ListFor(s, old), NEW kept \in SUBSET (DOMAIN old),
           NEW changed, DOMAIN changed = DOMAIN old,
           \A i \in kept : changed[i] \in Entry /\ changed[i].addr = old[i].addr
    PROVE  /\ ListFor(s, Compacted(changed, kept))
           /\ Thinned(old, Compacted(changed, kept))
           /\ OnlyFrom(Compacted(changed, kept), changed, kept)
           /\ \A i \in kept : old[i].addr \in Addrs(Compacted(changed, kept))
<1> DEFINE new == Compacted(changed, kept)
<1>1. old \in Seq(Entry) /\ OneEach(old)
  BY DEF ListFor
<1>2. /\ new \in Seq(Entry) /\ Thinned(old, new)
      /\ OnlyFrom(new, changed, kept)
      /\ \A i \in kept : old[i].addr \in Addrs(new)
  BY <1>1, CompactedIs
<1> HIDE DEF new
<1>3. \A n \in DOMAIN new : SocketOf(new[n].addr) = s
  BY <1>2 DEF ListFor, OnlyFrom
<1>4. ListFor(s, new)
  BY <1>2, <1>3 DEF ListFor, Thinned
<1> USE DEF new
<1> QED
  BY <1>2, <1>4

-----------------------------------------------------------------------------
(* The loops over a list.  u2 and h2 are what is counted afterwards.        *)

\* u2 counts a packet to every entry of l but except and those in failing
CountedSent(l, u, u2, except, failing) ==
    \A i \in DOMAIN l :
        u2[l[i].addr] = IF l[i].addr # except /\ l[i].addr \notin failing
                        THEN u[l[i].addr] + 1 ELSE u[l[i].addr]

\* An entry that was counted is one unless nothing is left.
LEMMA CountedIs ==
    ASSUME NEW e \in Entry
    PROVE  /\ Counted(e).addr = e.addr /\ Counted(e).recv = e.recv
           /\ Counted(e).send = e.send - 1
           /\ Left(Counted(e)) => Counted(e) \in Entry
           /\ e.send > 1 => Left(Counted(e))
<1>1. /\ e.send \in Nat /\ e.send >= 1 /\ e.send <= SEND_LIMIT
      /\ e.recv \in Nat /\ e.recv <= RECV_LIMIT
      /\ e.time \in Nat /\ e.time <= LOCAL_TICKS + REMOTE_TICKS /\ SEND_LIMIT \in Nat
  BY SocketsAssumption DEF Entry
<1>2. Counted(e) = [addr |-> e.addr, send |-> e.send - 1, recv |-> e.recv, time |-> e.time]
  BY DEF Counted, Entry
<1>3. Counted(e).addr = e.addr /\ Counted(e).recv = e.recv /\ Counted(e).send = e.send - 1
  BY <1>2
<1>4. ASSUME Left(Counted(e)) PROVE Counted(e) \in Entry
  <2>1. e.send - 1 # 0
    BY <1>3, <1>4 DEF Left
  <2>2. e.send - 1 \in Nat /\ e.send - 1 >= 1 /\ e.send - 1 <= SEND_LIMIT
    BY <1>1, <2>1
  <2> QED
    BY <1>1, <1>2, <2>2, EntryWith
<1>5. e.send > 1 => Left(Counted(e))
  BY <1>1, <1>3 DEF Left
<1> QED
  BY <1>3, <1>4, <1>5

\* A packet sent to all of a list but one is counted in its entries, and those
\* with nothing left are deleted.
LEMMA AfterSendingIs ==
    ASSUME NEW s, NEW l, ListFor(s, l), NEW u \in Counts, NEW h \in Counts,
           CountedIn(l, u, h), NEW except, NEW failing, NEW u2,
           CountedSent(l, u, u2, except, failing)
    PROVE  LET new == AfterSending(l, except, failing)
           IN  ListFor(s, new) /\ Thinned(l, new) /\ CountedIn(new, u2, h)
<1> DEFINE F(e) == IF e.addr = except \/ e.addr \in failing THEN e ELSE Counted(e)
           changed == [i \in DOMAIN l |-> F(l[i])]
           kept == {i \in DOMAIN l : F(l[i]).addr = except
                                     \/ (F(l[i]).addr \notin failing /\ Left(F(l[i])))}
           new == AfterSending(l, except, failing)
<1>1. new = Compacted(changed, kept)
  BY DEF AfterSending, AddrLoop
<1>2. ASSUME NEW i \in kept
      PROVE  /\ changed[i] \in Entry /\ changed[i].addr = l[i].addr
             /\ u2[changed[i].addr] + changed[i].send = SEND_LIMIT
             /\ h[changed[i].addr] + changed[i].recv <= RECV_LIMIT
  <2>1. i \in DOMAIN l /\ changed[i] = F(l[i])
    OBVIOUS
  <2>2. /\ l[i] \in Entry /\ l[i].addr \in Addresses /\ l[i].send \in Nat /\ l[i].send >= 1
        /\ l[i].send <= SEND_LIMIT /\ l[i].recv \in Nat /\ l[i].recv <= RECV_LIMIT
        /\ l[i].time \in Nat /\ l[i].time <= LOCAL_TICKS + REMOTE_TICKS
    BY <2>1, EntryIs
  <2>3. u[l[i].addr] + l[i].send = SEND_LIMIT /\ h[l[i].addr] + l[i].recv <= RECV_LIMIT
    BY <2>1 DEF CountedIn
  <2>4. u[l[i].addr] \in Nat /\ SEND_LIMIT \in Nat
    BY <2>2, SocketsAssumption DEF Counts
  <2>5. CASE l[i].addr = except \/ l[i].addr \in failing
    <3>1. changed[i] = l[i]
      BY <2>1, <2>5
    <3>2. u2[l[i].addr] = u[l[i].addr]
      BY <2>1, <2>5 DEF CountedSent
    <3> QED
      BY <2>2, <2>3, <3>1, <3>2
  <2>6. CASE ~(l[i].addr = except \/ l[i].addr \in failing)
    <3>1. changed[i] = Counted(l[i])
      BY <2>1, <2>6
    <3>2. Counted(l[i]).addr = l[i].addr
      BY <2>2, CountedIs
    <3>3. F(l[i]).addr = except \/ (F(l[i]).addr \notin failing /\ Left(F(l[i])))
      OBVIOUS
    <3>4. Left(Counted(l[i]))
      BY <2>1, <2>6, <3>1, <3>2, <3>3
    <3>5. /\ changed[i] \in Entry /\ changed[i].addr = l[i].addr
          /\ changed[i].send = l[i].send - 1 /\ changed[i].recv = l[i].recv
      BY <2>2, <3>1, <3>4, CountedIs
    <3>6. u2[l[i].addr] = u[l[i].addr] + 1
      BY <2>1, <2>6 DEF CountedSent
    <3>7. u2[l[i].addr] + (l[i].send - 1) = SEND_LIMIT
      BY <2>2, <2>3, <2>4, <3>6
    <3> HIDE DEF changed
    <3> QED
      BY <2>3, <3>5, <3>7
  <2> QED
    BY <2>5, <2>6
<1>3. kept \in SUBSET (DOMAIN l) /\ DOMAIN changed = DOMAIN l
  OBVIOUS
<1> HIDE DEF changed, kept, new
<1>4. ListFor(s, new) /\ Thinned(l, new) /\ OnlyFrom(new, changed, kept)
  BY <1>1, <1>2, <1>3, ListCompacted
<1>5. CountedIn(new, u2, h)
  BY <1>2, <1>4 DEF CountedIn, OnlyFrom
<1> USE DEF new
<1> QED
  BY <1>4, <1>5

\* A keepalive is counted in the entry of its address.
LEMMA SendToIs ==
    ASSUME NEW s, NEW l, ListFor(s, l), NEW u \in Counts, NEW h \in Counts,
           CountedIn(l, u, h), NEW a, NEW u2 \in Counts,
           \A b \in Addresses : u2[b] = IF b = a THEN u[b] + 1 ELSE u[b]
    PROVE  LET new == SendTo(l, a)
           IN  /\ ListFor(s, new) /\ Thinned(l, new) /\ CountedIn(new, u2, h)
               /\ \A i \in DOMAIN l :
                     l[i].addr # a \/ l[i].send > 1 => l[i].addr \in Addrs(new)
<1> DEFINE F(e) == IF e.addr = a THEN Counted(e) ELSE e
           changed == [i \in DOMAIN l |-> F(l[i])]
           kept == {i \in DOMAIN l : Left(F(l[i]))}
           new == SendTo(l, a)
<1>1. new = Compacted(changed, kept)
  BY DEF SendTo, AddrLoop
<1>2. ASSUME NEW i \in DOMAIN l
      PROVE  /\ changed[i] = F(l[i])
             /\ l[i] \in Entry /\ l[i].addr \in Addresses /\ l[i].send \in Nat
             /\ l[i].send >= 1
  BY EntryIs
<1>3. ASSUME NEW i \in kept
      PROVE  /\ changed[i] \in Entry /\ changed[i].addr = l[i].addr
             /\ u2[changed[i].addr] + changed[i].send = SEND_LIMIT
             /\ h[changed[i].addr] + changed[i].recv <= RECV_LIMIT
  <2>1. i \in DOMAIN l /\ Left(F(l[i]))
    OBVIOUS
  <2>2. u[l[i].addr] + l[i].send = SEND_LIMIT /\ h[l[i].addr] + l[i].recv <= RECV_LIMIT
    BY <2>1 DEF CountedIn
  <2>3. u[l[i].addr] \in Nat /\ SEND_LIMIT \in Nat
    BY <1>2, <2>1, SocketsAssumption DEF Counts
  <2>4. CASE l[i].addr # a
    <3>1. changed[i] = l[i] /\ u2[l[i].addr] = u[l[i].addr]
      BY <1>2, <2>1, <2>4
    <3> QED
      BY <1>2, <2>1, <2>2, <3>1
  <2>5. CASE l[i].addr = a
    <3>1. changed[i] = Counted(l[i]) /\ Left(Counted(l[i]))
      BY <2>1, <2>5
    <3>2. /\ changed[i] \in Entry /\ changed[i].addr = l[i].addr
          /\ changed[i].send = l[i].send - 1 /\ changed[i].recv = l[i].recv
      BY <1>2, <2>1, <3>1, CountedIs
    <3>3. u2[l[i].addr] = u[l[i].addr] + 1
      BY <1>2, <2>1, <2>5
    <3>4. u2[l[i].addr] + (l[i].send - 1) = SEND_LIMIT
      BY <1>2, <2>1, <2>2, <2>3, <3>3
    <3> HIDE DEF changed
    <3> QED
      BY <2>2, <3>2, <3>4
  <2> QED
    BY <2>4, <2>5
<1>4. ASSUME NEW i \in DOMAIN l, l[i].addr # a \/ l[i].send > 1
      PROVE  i \in kept
  <2>1. CASE l[i].addr # a
    <3>1. Left(l[i])
      BY <1>2 DEF Left
    <3> QED
      BY <2>1, <3>1
  <2>2. CASE l[i].addr = a
    <3>1. Left(Counted(l[i]))
      BY <1>2, <1>4, <2>2, CountedIs
    <3> QED
      BY <2>2, <3>1
  <2> QED
    BY <2>1, <2>2
<1>5. kept \in SUBSET (DOMAIN l) /\ DOMAIN changed = DOMAIN l
  OBVIOUS
<1> HIDE DEF changed, kept, new
<1>6. /\ ListFor(s, new) /\ Thinned(l, new) /\ OnlyFrom(new, changed, kept)
      /\ \A i \in kept : l[i].addr \in Addrs(new)
  BY <1>1, <1>3, <1>5, ListCompacted
<1>7. CountedIn(new, u2, h)
  BY <1>3, <1>6 DEF CountedIn, OnlyFrom
<1>8. \A i \in DOMAIN l : l[i].addr # a \/ l[i].send > 1 => l[i].addr \in Addrs(new)
  BY <1>4, <1>6
<1> USE DEF new
<1> QED
  BY <1>6, <1>7, <1>8

\* Expiring peers leaves entries of the list as they are.
LEMMA ExpiredIs ==
    ASSUME NEW lists, lists = [s \in Sockets |-> lists[s]], NEW peers,
           ListFor("outside", lists["outside"]), NEW u, NEW h,
           CountedIn(lists["outside"], u, h)
    PROVE  LET new == Expired(lists, peers)
           IN  /\ new = [s \in Sockets |-> new[s]] /\ new["local"] = lists["local"]
               /\ ListFor("outside", new["outside"])
               /\ Thinned(lists["outside"], new["outside"])
               /\ CountedIn(new["outside"], u, h)
<1> DEFINE l == lists["outside"]
           changed == [i \in DOMAIN l |-> NoChange(l[i])]
           kept == {i \in DOMAIN l : NoChange(l[i]).addr \notin peers}
           all == Expired(lists, peers)
           new == all["outside"]
<1>1. all = [lists EXCEPT !["outside"] = Compacted(changed, kept)]
  BY DEF Expired, AddrLoop
<1>2. ASSUME NEW i \in kept
      PROVE  /\ changed[i] \in Entry /\ changed[i].addr = l[i].addr
             /\ u[changed[i].addr] + changed[i].send = SEND_LIMIT
             /\ h[changed[i].addr] + changed[i].recv <= RECV_LIMIT
  <2>1. i \in DOMAIN l /\ changed[i] = l[i]
    BY DEF NoChange
  <2> HIDE DEF changed
  <2> QED
    BY <2>1, EntryIs DEF CountedIn
<1>3. kept \in SUBSET (DOMAIN l) /\ DOMAIN changed = DOMAIN l
  OBVIOUS
<1> HIDE DEF changed, kept, all
<1>4. /\ all = [s \in Sockets |-> all[s]] /\ all["local"] = lists["local"]
      /\ all["outside"] = Compacted(changed, kept)
  BY <1>1 DEF Sockets
<1> HIDE DEF new, l
<1>5. ListFor("outside", l) /\ new = Compacted(changed, kept)
  BY <1>4 DEF l, new
<1>6. ListFor("outside", new) /\ Thinned(l, new) /\ OnlyFrom(new, changed, kept)
  BY <1>2, <1>3, <1>5, ListCompacted
<1>7. CountedIn(new, u, h)
  BY <1>2, <1>6 DEF CountedIn, OnlyFrom
<1> USE DEF new, l, all
<1> QED
  BY <1>4, <1>6, <1>7

\* A tick of the clock leaves the entries whose time has not ended.
LEMMA AfterTickIs ==
    ASSUME NEW s, NEW l, ListFor(s, l), NEW u \in Counts, NEW h \in Counts,
           CountedIn(l, u, h)
    PROVE  ListFor(s, AfterTick(l)) /\ CountedIn(AfterTick(l), u, h)
<1> DEFINE F(e) == [e EXCEPT !.time = @ - 1]
           changed == [i \in DOMAIN l |-> F(l[i])]
           kept == {i \in DOMAIN l : F(l[i]).time >= 0}
           new == AfterTick(l)
<1>1. new = Compacted(changed, kept)
  BY DEF AfterTick, AddrLoop
<1>2. ASSUME NEW i \in kept
      PROVE  /\ changed[i] \in Entry /\ changed[i].addr = l[i].addr
             /\ u[changed[i].addr] + changed[i].send = SEND_LIMIT
             /\ h[changed[i].addr] + changed[i].recv <= RECV_LIMIT
  <2>1. i \in DOMAIN l /\ changed[i] = [l[i] EXCEPT !.time = @ - 1] /\ changed[i].time >= 0
    <3>1. i \in DOMAIN l /\ F(l[i]).time >= 0
      OBVIOUS
    <3>2. changed[i] = F(l[i])
      BY <3>1
    <3> HIDE DEF changed, kept
    <3> QED
      BY <3>1, <3>2
  <2>2. /\ l[i] \in Entry /\ l[i].addr \in Addresses /\ l[i].send \in Nat /\ l[i].send >= 1
        /\ l[i].send <= SEND_LIMIT /\ l[i].recv \in Nat /\ l[i].recv <= RECV_LIMIT
        /\ l[i].time \in Nat /\ l[i].time <= LOCAL_TICKS + REMOTE_TICKS
    BY <2>1, EntryIs
  <2>3. changed[i] = [addr |-> l[i].addr, send |-> l[i].send, recv |-> l[i].recv,
                      time |-> l[i].time - 1]
    BY <2>1, <2>2 DEF Entry
  <2>4. l[i].time - 1 \in Nat /\ l[i].time - 1 <= LOCAL_TICKS + REMOTE_TICKS
    <3>1. l[i].time - 1 >= 0
      BY <2>1, <2>3
    <3> QED
      BY <2>2, <3>1, SocketsAssumption
  <2> HIDE DEF changed, kept
  <2>5. /\ changed[i] \in Entry /\ changed[i].addr = l[i].addr
        /\ changed[i].send = l[i].send /\ changed[i].recv = l[i].recv
    BY <2>2, <2>3, <2>4, EntryWith
  <2> QED
    BY <2>1, <2>5 DEF CountedIn
<1>3. kept \in SUBSET (DOMAIN l) /\ DOMAIN changed = DOMAIN l
  OBVIOUS
<1> HIDE DEF changed, kept, new
<1>4. ListFor(s, new) /\ OnlyFrom(new, changed, kept)
  BY <1>1, <1>2, <1>3, ListCompacted
<1>5. CountedIn(new, u, h)
  BY <1>2, <1>4 DEF CountedIn, OnlyFrom
<1> USE DEF new
<1> QED
  BY <1>4, <1>5

\* The receive limit of an address starts again when what was heard from it is
\* forgotten.
LEMMA UpdateRecvLimitIs ==
    ASSUME NEW s, NEW l, ListFor(s, l), NEW u \in Counts, NEW h \in Counts,
           CountedIn(l, u, h), NEW from, NEW h2 \in Counts,
           \A a \in Addresses : IF a = from THEN h2[a] = 0 ELSE h2[a] <= h[a]
    PROVE  LET new == UpdateRecvLimit(l, from)
           IN  ListFor(s, new) /\ CountedIn(new, u, h2)
<1> DEFINE Again(e) == IF e.addr = from THEN [e EXCEPT !.recv = RECV_LIMIT] ELSE e
           changed == [i \in DOMAIN l |-> Again(l[i])]
           kept == {i \in DOMAIN l : Always(Again(l[i]))}
           new == UpdateRecvLimit(l, from)
<1>1. new = Compacted(changed, kept)
  BY DEF UpdateRecvLimit, AddrLoop
<1>2. ASSUME NEW i \in kept
      PROVE  /\ changed[i] \in Entry /\ changed[i].addr = l[i].addr
             /\ u[changed[i].addr] + changed[i].send = SEND_LIMIT
             /\ h2[changed[i].addr] + changed[i].recv <= RECV_LIMIT
  <2>1. /\ i \in DOMAIN l
        /\ changed[i] = IF l[i].addr = from THEN [l[i] EXCEPT !.recv = RECV_LIMIT] ELSE l[i]
    OBVIOUS
  <2>2. /\ l[i] \in Entry /\ l[i].addr \in Addresses /\ l[i].send \in Nat /\ l[i].send >= 1
        /\ l[i].send <= SEND_LIMIT /\ l[i].recv \in Nat /\ l[i].recv <= RECV_LIMIT
        /\ l[i].time \in Nat /\ l[i].time <= LOCAL_TICKS + REMOTE_TICKS
    BY <2>1, EntryIs
  <2>3. u[l[i].addr] + l[i].send = SEND_LIMIT /\ h[l[i].addr] + l[i].recv <= RECV_LIMIT
    BY <2>1 DEF CountedIn
  <2>4. h[l[i].addr] \in Nat /\ h2[l[i].addr] \in Nat /\ RECV_LIMIT \in Nat
    BY <2>2, SocketsAssumption DEF Counts
  <2>5. CASE l[i].addr # from
    <3>1. changed[i] = l[i] /\ h2[l[i].addr] <= h[l[i].addr]
      BY <2>1, <2>2, <2>5
    <3> HIDE DEF changed
    <3> QED
      BY <2>2, <2>3, <2>4, <3>1
  <2>6. CASE l[i].addr = from
    <3>1. changed[i] = [l[i] EXCEPT !.recv = RECV_LIMIT] /\ h2[l[i].addr] = 0
      BY <2>1, <2>2, <2>6
    <3> HIDE DEF changed
    <3>2. changed[i] = [addr |-> l[i].addr, send |-> l[i].send, recv |-> RECV_LIMIT,
                        time |-> l[i].time]
      BY <2>2, <3>1 DEF Entry
    <3>3. RECV_LIMIT <= RECV_LIMIT
      BY <2>4
    <3>4. /\ changed[i] \in Entry /\ changed[i].addr = l[i].addr
          /\ changed[i].send = l[i].send /\ changed[i].recv = RECV_LIMIT
      BY <2>2, <2>4, <3>2, <3>3, EntryWith
    <3> QED
      BY <2>3, <2>4, <3>1, <3>4
  <2> QED
    BY <2>5, <2>6
<1>3. kept \in SUBSET (DOMAIN l) /\ DOMAIN changed = DOMAIN l
  OBVIOUS
<1> HIDE DEF changed, kept, new
<1>4. ListFor(s, new) /\ OnlyFrom(new, changed, kept)
  BY <1>1, <1>2, <1>3, ListCompacted
<1>5. CountedIn(new, u, h2)
  BY <1>2, <1>4 DEF CountedIn, OnlyFrom
<1> USE DEF new
<1> QED
  BY <1>4, <1>5

\* u2 and h2 count the same as u and h for all but a
OthersSame(a, u, h, u2, h2) ==
    \A b \in Addresses \ {a} : u2[b] = u[b] /\ h2[b] = h[b]

\* An entry may be replaced by one of the same address.
LEMMA ReplaceIs ==
    ASSUME NEW s, NEW l, ListFor(s, l), NEW u, NEW h, CountedIn(l, u, h),
           NEW i \in DOMAIN l, NEW e \in Entry, e.addr = l[i].addr, NEW u2, NEW h2,
           OthersSame(e.addr, u, h, u2, h2),
           u2[e.addr] + e.send = SEND_LIMIT, h2[e.addr] + e.recv <= RECV_LIMIT
    PROVE  LET new == [l EXCEPT ![i] = e]
           IN  /\ ListFor(s, new) /\ CountedIn(new, u2, h2)
               /\ i \in DOMAIN new /\ new[i] = e
<1> DEFINE new == [l EXCEPT ![i] = e]
<1>1. l \in Seq(Entry) /\ OneEach(l) /\ \A j \in DOMAIN l : SocketOf(l[j].addr) = s
  BY DEF ListFor
<1>2. /\ new \in Seq(Entry) /\ DOMAIN new = DOMAIN l /\ new[i] = e
      /\ \A j \in DOMAIN l : j # i => new[j] = l[j]
  BY <1>1
<1> HIDE DEF new
<1>3. \A j \in DOMAIN l : new[j].addr = l[j].addr
  BY <1>2
<1>4. OneEach(new)
  BY <1>1, <1>2, <1>3 DEF OneEach
<1>5. ListFor(s, new)
  BY <1>1, <1>2, <1>3, <1>4 DEF ListFor
<1>6. ASSUME NEW j \in DOMAIN l
      PROVE  u2[new[j].addr] + new[j].send = SEND_LIMIT /\ h2[new[j].addr] + new[j].recv <= RECV_LIMIT
  <2>1. CASE j = i
    BY <1>2, <2>1
  <2>2. CASE j # i
    <3>1. new[j] = l[j] /\ l[j].addr # e.addr
      BY <1>1, <1>2, <2>2 DEF OneEach
    <3>2. l[j].addr \in Addresses
      BY EntryIs
    <3>3. u2[l[j].addr] = u[l[j].addr] /\ h2[l[j].addr] = h[l[j].addr]
      BY <3>1, <3>2 DEF OthersSame
    <3>4. u[l[j].addr] + l[j].send = SEND_LIMIT /\ h[l[j].addr] + l[j].recv <= RECV_LIMIT
      BY DEF CountedIn
    <3> QED
      BY <3>1, <3>3, <3>4
  <2> QED
    BY <2>1, <2>2
<1>7. CountedIn(new, u2, h2)
  BY <1>2, <1>6 DEF CountedIn
<1> USE DEF new
<1> QED
  BY <1>2, <1>5, <1>7

\* A new address may be appended.
LEMMA AppendIs ==
    ASSUME NEW s, NEW l, ListFor(s, l), NEW u, NEW h, CountedIn(l, u, h),
           NEW e \in Entry, e.addr \notin Addrs(l), SocketOf(e.addr) = s, NEW u2, NEW h2,
           OthersSame(e.addr, u, h, u2, h2),
           u2[e.addr] + e.send = SEND_LIMIT, h2[e.addr] + e.recv <= RECV_LIMIT,
           NEW new, new = Append(l, e)
    PROVE  /\ ListFor(s, new) /\ CountedIn(new, u2, h2)
           /\ Len(new) = Len(l) + 1 /\ new[Len(l) + 1] = e
<1>1. l \in Seq(Entry) /\ OneEach(l) /\ \A j \in DOMAIN l : SocketOf(l[j].addr) = s
  BY DEF ListFor
<1>2. /\ new \in Seq(Entry) /\ Len(new) = Len(l) + 1 /\ new[Len(l) + 1] = e
      /\ DOMAIN new = DOMAIN l \cup {Len(l) + 1}
      /\ \A j \in DOMAIN l : new[j] = l[j]
  BY <1>1
<1>3. \A j \in DOMAIN l : l[j].addr # e.addr
  BY DEF Addrs
<1>4. OneEach(new)
  BY <1>1, <1>2, <1>3 DEF OneEach
<1>5. ListFor(s, new)
  BY <1>1, <1>2, <1>4 DEF ListFor
<1>6. ASSUME NEW j \in DOMAIN l
      PROVE  u2[l[j].addr] + l[j].send = SEND_LIMIT /\ h2[l[j].addr] + l[j].recv <= RECV_LIMIT
  <2>1. l[j].addr \in Addresses \ {e.addr}
    BY <1>3, EntryIs
  <2>2. u2[l[j].addr] = u[l[j].addr] /\ h2[l[j].addr] = h[l[j].addr]
    BY <2>1 DEF OthersSame
  <2>3. u[l[j].addr] + l[j].send = SEND_LIMIT /\ h[l[j].addr] + l[j].recv <= RECV_LIMIT
    BY DEF CountedIn
  <2> QED
    BY <2>2, <2>3
<1>7. CountedIn(new, u2, h2)
  BY <1>2, <1>6 DEF CountedIn
<1> QED
  BY <1>2, <1>5, <1>7

\* Counts of other addresses do not matter to a list.
LEMMA CountedSame ==
    ASSUME NEW s, NEW l, ListFor(s, l), NEW u, NEW h, CountedIn(l, u, h), NEW u2, NEW h2,
           \A a \in Addresses : SocketOf(a) = s => u2[a] = u[a] /\ h2[a] = h[a]
    PROVE  CountedIn(l, u2, h2)
<1>1. \A i \in DOMAIN l : l[i].addr \in Addresses /\ SocketOf(l[i].addr) = s
  BY EntryIs
<1>2. \A i \in DOMAIN l : u2[l[i].addr] = u[l[i].addr] /\ h2[l[i].addr] = h[l[i].addr]
  BY <1>1
<1> QED
  BY <1>2 DEF CountedIn

-----------------------------------------------------------------------------
(* The inductive invariant.                                                *)

Forwarding == {"peers", "local", "out"}
CallNames == Forwarding \cup {"answer", "clock", "dht"}
Receivers == Addresses \cup {Nobody}
Calls == [name : CallNames, except : Receivers]
Packets == [from : Receivers, reached : BOOLEAN, slot : Nat, addr : Receivers,
            gone : BOOLEAN]

\* The answer is still to come, and then the clock and the DHT.
Pending(t) ==
    /\ Len(t) >= 3
    /\ t[Len(t) - 2].name = "answer" /\ t[Len(t) - 1].name = "clock"
    /\ t[Len(t)].name = "dht"
    /\ \A i \in 1 .. Len(t) : i < Len(t) - 2 => t[i].name \in Forwarding
AboutToTick(t) == t # <<>> /\ Head(t).name = "clock"

\* As long as no address listed before the sender's, or its own, is gone, r.sav
\* is the entry of the sender; in any case it is one of that socket.
SavKept(lists, p) ==
    /\ p \in Packets
    /\ p.slot = 0 => ~p.reached
    /\ p.slot > 0 =>
          /\ p.from \in Addresses /\ p.addr \in Addresses
          /\ SocketOf(p.addr) = SocketOf(p.from)
          /\ ~p.gone => /\ p.slot \in DOMAIN lists[SocketOf(p.from)]
                        /\ lists[SocketOf(p.from)][p.slot].addr = p.from
                        /\ p.addr = p.from

ListsKept(lists, u, h) ==
    /\ lists = [s \in Sockets |-> lists[s]]
    /\ \A s \in Sockets : ListFor(s, lists[s]) /\ CountedIn(lists[s], u, h)

SentAtMost(u, t) ==
    \A a \in Addresses : u[a] <= IF AboutToTick(t) THEN SEND_LIMIT + 1 ELSE SEND_LIMIT
HeardAtMost(h, p) ==
    \A a \in Addresses :
        h[a] <= IF p.from = a /\ p.reached THEN RECV_LIMIT ELSE RECV_LIMIT - 1

IInv ==
    /\ ListsKept(list, unanswered, heard)
    /\ routing \subseteq RoutingPeers
    /\ unanswered \in Counts /\ heard \in Counts
    /\ SavKept(list, packet)
    /\ todo \in Seq(Calls)
    /\ packet.slot > 0 => Pending(todo)
    /\ SentAtMost(unanswered, todo)
    /\ HeardAtMost(heard, packet)

\* SetLists keeps track of r.sav when a list is thinned.
LEMMA SavIs ==
    ASSUME NEW lists, NEW new, NEW p, NEW q, SavKept(lists, p),
           ListFor(SocketOf(p.from), lists[SocketOf(p.from)]),
           ListFor(SocketOf(p.from), new[SocketOf(p.from)]),
           Thinned(lists[SocketOf(p.from)], new[SocketOf(p.from)]),
           q = IF p = NoPacket THEN p
               ELSE SavAfter(p, lists[SocketOf(p.from)], new[SocketOf(p.from)])
    PROVE  SavKept(new, q) /\ q.slot = p.slot /\ q.from = p.from /\ q.reached = p.reached
<1> DEFINE s == SocketOf(p.from)
           l == lists[s]
           m == new[s]
<1> HIDE DEF s
<1>1. p \in Packets /\ p.slot \in Nat
  BY DEF SavKept, Packets
<1>2. CASE p.slot = 0
  <2>1. q = p
    BY <1>2 DEF SavAfter
  <2> QED
    BY <1>2, <2>1 DEF SavKept
<1>3. CASE p.slot > 0
  <2> DEFINE addr == CASE p.slot <= Len(m) -> m[p.slot].addr
                       [] p.slot > Len(m) /\ p.slot <= Len(l) -> Last(l).addr
                       [] OTHER -> p.addr
             gone == p.gone \/ \E i \in 1 .. p.slot :
                                   i <= Len(l) /\ Position(m, l[i].addr) = 0
  <2>1. q = [p EXCEPT !.addr = addr, !.gone = gone]
    <3>1. p # NoPacket
      BY <1>3 DEF NoPacket
    <3> QED
      BY <1>1, <1>3, <3>1 DEF SavAfter, s
  <2>2. ListFor(s, l) /\ ListFor(s, m) /\ Thinned(l, m)
    BY DEF s
  <2>3. /\ l \in Seq(Entry) /\ m \in Seq(Entry)
        /\ Len(l) \in Nat /\ Len(m) \in Nat /\ DOMAIN l = 1 .. Len(l) /\ DOMAIN m = 1 .. Len(m)
    <3> HIDE DEF l, m
    <3> QED
      BY <2>2 DEF ListFor
  <2>4. /\ p.from \in Addresses /\ p.addr \in Addresses /\ SocketOf(p.addr) = s
        /\ ~p.gone => p.slot \in DOMAIN l /\ l[p.slot].addr = p.from /\ p.addr = p.from
    BY <1>3 DEF SavKept, s
  <2> HIDE DEF l, m
  <2>5. addr \in Addresses /\ SocketOf(addr) = s
    <3>1. CASE p.slot <= Len(m)
      <4>1. p.slot \in DOMAIN m /\ addr = m[p.slot].addr
        BY <1>1, <1>3, <2>3, <3>1
      <4> QED
        BY <2>2, <4>1, EntryIs
    <3>2. CASE p.slot > Len(m) /\ p.slot <= Len(l)
      <4>1. Len(l) \in DOMAIN l /\ addr = l[Len(l)].addr
        BY <1>1, <1>3, <2>3, <3>2 DEF Last
      <4> QED
        BY <2>2, <4>1, EntryIs
    <3>3. CASE ~(p.slot <= Len(m)) /\ ~(p.slot > Len(m) /\ p.slot <= Len(l))
      <4>1. addr = p.addr
        BY <3>3
      <4> QED
        BY <2>4, <4>1
    <3> QED
      BY <1>1, <2>3, <3>1, <3>2, <3>3
  <2>6. ASSUME ~gone
        PROVE  p.slot \in DOMAIN m /\ m[p.slot].addr = p.from /\ addr = p.from
    <3>1. p.slot \in DOMAIN l /\ l[p.slot].addr = p.from
      BY <2>4, <2>6
    <3>2. \A i \in 1 .. p.slot : l[i].addr \in Addrs(m)
      <4>1. ASSUME NEW i \in 1 .. p.slot PROVE Position(m, l[i].addr) # 0
        <5>1. i <= Len(l)
          BY <1>1, <2>3, <3>1
        <5> QED
          BY <2>6, <5>1
      <4> QED
        BY <2>3, <4>1, PositionIs
    <3>3. StillFirst(l, m, p.slot)
      <4>1. p.slot \in 0 .. Len(l)
        BY <2>3, <3>1
      <4> QED
        BY <2>2, <3>2, <4>1 DEF Thinned
    <3>4. p.slot \in DOMAIN m /\ m[p.slot].addr = l[p.slot].addr
      BY <1>1, <1>3, <3>3 DEF StillFirst
    <3>5. addr = m[p.slot].addr
      BY <2>3, <3>4
    <3> QED
      BY <3>1, <3>4, <3>5
  <2>7. gone \in BOOLEAN
    BY <1>1 DEF Packets
  <2> HIDE DEF addr, gone
  <2>8. /\ q \in Packets /\ q.slot = p.slot /\ q.from = p.from /\ q.reached = p.reached
        /\ q.addr = addr /\ q.gone = gone
    BY <1>1, <2>1, <2>5, <2>7 DEF Packets, Receivers
  <2> USE DEF l, m
  <2> QED
    BY <1>3, <2>4, <2>5, <2>6, <2>8 DEF SavKept, s
<1> QED
  BY <1>1, <1>2, <1>3

-----------------------------------------------------------------------------
(* The calls that are still to be made.                                    *)

ForwardCalls == [name : Forwarding, except : Receivers]

\* What is called to forward a packet is one of these.
LEMMA ForwardsIs ==
    ASSUME NEW a \in Addresses, NEW f \in Forwards(a)
    PROVE  f \in Seq(ForwardCalls)
<1> DEFINE all == <<Call("local", a), Call("out", a)>>
           reply == <<Call("local", Nobody)>>
           reply_out == reply \o <<Call("out", Nobody)>>
           peers == <<Call("peers", Nobody)>>
<1>1. \A n \in Forwarding, e \in Receivers : Call(n, e) \in ForwardCalls
  BY DEF Call, ForwardCalls
<1>2. /\ Call("local", a) \in ForwardCalls /\ Call("out", a) \in ForwardCalls
      /\ Call("local", Nobody) \in ForwardCalls /\ Call("out", Nobody) \in ForwardCalls
      /\ Call("peers", Nobody) \in ForwardCalls
  BY <1>1 DEF Forwarding, Receivers
<1>3. /\ all \in Seq(ForwardCalls) /\ reply \in Seq(ForwardCalls)
      /\ peers \in Seq(ForwardCalls) /\ <<Call("out", Nobody)>> \in Seq(ForwardCalls)
  BY <1>2
<1>4. reply_out \in Seq(ForwardCalls)
  <2> HIDE DEF reply
  <2> QED
    BY <1>3
<1>5. \/ f = <<>> \/ f = all \/ f = peers \o all \/ f = reply \/ f = reply_out
      \/ f = reply \o all \/ f = reply_out \o all
  <2>1. f \in {<<>>, all, peers \o all}
              \cup ({reply} \cup (IF a \in Local THEN {} ELSE {reply_out}))
              \cup {r \o all : r \in {reply} \cup (IF a \in Local THEN {} ELSE {reply_out})}
    BY DEF Forwards
  <2> HIDE DEF all, reply, reply_out, peers
  <2> QED
    BY <2>1
<1> HIDE DEF all, reply, reply_out, peers
<1>6. peers \o all \in Seq(ForwardCalls) /\ reply \o all \in Seq(ForwardCalls)
      /\ reply_out \o all \in Seq(ForwardCalls) /\ <<>> \in Seq(ForwardCalls)
  BY <1>3, <1>4
<1> QED
  BY <1>3, <1>4, <1>5, <1>6

\* When a packet is read, the answer and what follows it come last.
LEMMA PendingAfterRead ==
    ASSUME NEW f \in Seq(ForwardCalls)
    PROVE  /\ f \o AtTheEnd \in Seq(Calls) /\ Pending(f \o AtTheEnd)
<1> DEFINE t == f \o AtTheEnd
<1>1. /\ Call("answer", Nobody) \in Calls /\ Call("clock", Nobody) \in Calls
      /\ Call("dht", Nobody) \in Calls
  BY DEF Call, Calls, CallNames, Receivers
<1>2. /\ AtTheEnd \in Seq(Calls) /\ Len(AtTheEnd) = 3
      /\ AtTheEnd[1].name = "answer" /\ AtTheEnd[2].name = "clock" /\ AtTheEnd[3].name = "dht"
  BY <1>1 DEF AtTheEnd, Call
<1>3. ForwardCalls \subseteq Calls
  BY DEF ForwardCalls, Calls, CallNames
<1>4. f \in Seq(Calls) /\ Len(f) \in Nat /\ \A i \in 1 .. Len(f) : f[i].name \in Forwarding
  <2>1. /\ Len(f) \in Nat /\ DOMAIN f = 1 .. Len(f) /\ f = [i \in 1 .. Len(f) |-> f[i]]
        /\ \A i \in 1 .. Len(f) : f[i] \in ForwardCalls
    OBVIOUS
  <2>2. \A i \in 1 .. Len(f) : f[i] \in Calls
    BY <1>3, <2>1
  <2>3. f \in Seq(Calls)
    BY <2>1, <2>2
  <2>4. \A c \in ForwardCalls : c.name \in Forwarding
    BY DEF ForwardCalls
  <2> QED
    BY <2>1, <2>3, <2>4
<1>5. /\ t \in Seq(Calls) /\ Len(t) = Len(f) + 3
      /\ \A i \in 1 .. Len(f) : t[i] = f[i]
      /\ t[Len(f) + 1] = AtTheEnd[1] /\ t[Len(f) + 2] = AtTheEnd[2]
      /\ t[Len(f) + 3] = AtTheEnd[3]
  <2>1. /\ t \in Seq(Calls) /\ Len(t) = Len(f) + 3
        /\ \A i \in 1 .. (Len(f) + 3) :
              t[i] = IF i <= Len(f) THEN f[i] ELSE AtTheEnd[i - Len(f)]
    <3>1. /\ t \in Seq(Calls) /\ Len(t) = Len(f) + Len(AtTheEnd)
          /\ \A i \in 1 .. (Len(f) + Len(AtTheEnd)) :
                t[i] = IF i <= Len(f) THEN f[i] ELSE AtTheEnd[i - Len(f)]
      BY <1>2, <1>4, ConcatProperties, Zenon
    <3>2. Len(f) + Len(AtTheEnd) = Len(f) + 3
      BY <1>2
    <3> HIDE DEF t
    <3> QED
      BY <3>1, <3>2, Zenon
  <2>2. /\ \A i \in 1 .. Len(f) : i \in 1 .. (Len(f) + 3) /\ i <= Len(f)
        /\ Len(f) + 1 \in 1 .. (Len(f) + 3) /\ Len(f) + 2 \in 1 .. (Len(f) + 3)
        /\ Len(f) + 3 \in 1 .. (Len(f) + 3)
        /\ ~(Len(f) + 1 <= Len(f)) /\ ~(Len(f) + 2 <= Len(f)) /\ ~(Len(f) + 3 <= Len(f))
        /\ Len(f) + 1 - Len(f) = 1 /\ Len(f) + 2 - Len(f) = 2 /\ Len(f) + 3 - Len(f) = 3
    BY <1>4
  <2> HIDE DEF t
  <2> QED
    BY <2>1, <2>2
<1> HIDE DEF t
<1>6. Len(t) - 2 = Len(f) + 1 /\ Len(t) - 1 = Len(f) + 2 /\ Len(t) >= 3
  BY <1>4, <1>5
<1>7. ASSUME NEW i \in 1 .. Len(t), i < Len(t) - 2 PROVE t[i].name \in Forwarding
  <2>1. i \in 1 .. Len(f)
    BY <1>4, <1>5, <1>7
  <2> QED
    BY <1>4, <1>5, <2>1
<1>8. Pending(t)
  BY <1>2, <1>5, <1>6, <1>7 DEF Pending
<1> USE DEF t
<1> QED
  BY <1>5, <1>8

\* Before the answer only calls that forward are made, and the clock follows it.
LEMMA PendingStep ==
    ASSUME NEW t \in Seq(Calls), Pending(t)
    PROVE  /\ t # <<>> /\ Head(t).name \in Forwarding \cup {"answer"}
           /\ Head(t).name \in Forwarding => Pending(Tail(t))
           /\ Head(t).name = "answer" => AboutToTick(Tail(t))
<1>1. Len(t) \in Nat /\ Len(t) >= 3 /\ t # <<>> /\ Head(t) = t[1]
  BY DEF Pending
<1>2. /\ Tail(t) \in Seq(Calls) /\ Len(Tail(t)) = Len(t) - 1
      /\ \A i \in 1 .. (Len(t) - 1) : Tail(t)[i] = t[i + 1]
  BY <1>1
<1>3. CASE Len(t) = 3
  <2>1. t[1].name = "answer" /\ t[2].name = "clock"
    BY <1>3 DEF Pending
  <2>2. Tail(t) # <<>> /\ Head(Tail(t)) = t[2]
    <3>1. Len(Tail(t)) = 2 /\ 1 \in 1 .. (Len(t) - 1)
      BY <1>2, <1>3
    <3>2. Tail(t)[1] = t[2]
      BY <1>2, <3>1
    <3>3. ASSUME NEW r \in Seq(Calls), Len(r) = 2 PROVE r # <<>> /\ Head(r) = r[1]
      <4>1. r # <<>>
        BY <3>3, EmptySeq
      <4> QED
        BY <4>1
    <3> QED
      BY <1>2, <3>1, <3>2, <3>3
  <2> QED
    BY <1>1, <2>1, <2>2 DEF AboutToTick, Forwarding
<1>4. CASE Len(t) > 3
  <2>1. 1 \in 1 .. Len(t) /\ 1 < Len(t) - 2
    BY <1>1, <1>4
  <2>2. t[1].name \in Forwarding
    BY <2>1 DEF Pending
  <2>3. /\ Len(Tail(t)) >= 3
        /\ Tail(t)[Len(Tail(t)) - 2] = t[Len(t) - 2]
        /\ Tail(t)[Len(Tail(t)) - 1] = t[Len(t) - 1]
        /\ Tail(t)[Len(Tail(t))] = t[Len(t)]
    <3>1. /\ Len(Tail(t)) >= 3 /\ Len(Tail(t)) \in 1 .. (Len(t) - 1)
          /\ Len(Tail(t)) - 1 \in 1 .. (Len(t) - 1) /\ Len(Tail(t)) - 2 \in 1 .. (Len(t) - 1)
          /\ Len(Tail(t)) - 2 + 1 = Len(t) - 2 /\ Len(Tail(t)) - 1 + 1 = Len(t) - 1
          /\ Len(Tail(t)) + 1 = Len(t)
      BY <1>1, <1>2, <1>4
    <3> QED
      BY <1>2, <3>1
  <2>4. ASSUME NEW i \in 1 .. Len(Tail(t)), i < Len(Tail(t)) - 2
        PROVE  Tail(t)[i].name \in Forwarding
    <3>1. i \in 1 .. (Len(t) - 1) /\ i + 1 \in 1 .. Len(t) /\ i + 1 < Len(t) - 2
      BY <1>1, <1>2, <2>4
    <3> QED
      BY <1>2, <3>1 DEF Pending
  <2>5. Pending(Tail(t))
    BY <2>3, <2>4 DEF Pending
  <2> QED
    BY <1>1, <2>2, <2>5 DEF Forwarding
<1>5. Len(t) = 3 \/ Len(t) > 3
  <2>1. \A n \in Nat : n >= 3 => n = 3 \/ n > 3
    OBVIOUS
  <2> QED
    BY <1>1, <2>1
<1> QED
  BY <1>3, <1>4, <1>5

\* Nobody was sent more than the limit: that is enough whatever is called next.
LEMMA SentEnough ==
    ASSUME NEW u \in Counts, NEW t, \A a \in Addresses : u[a] <= SEND_LIMIT
    PROVE  SentAtMost(u, t)
<1>1. SEND_LIMIT \in Nat /\ \A a \in Addresses : u[a] \in Nat
  BY SocketsAssumption DEF Counts
<1> QED
  BY <1>1 DEF SentAtMost

-----------------------------------------------------------------------------
(* The operations keep the invariant.                                      *)

\* What Listed says of the lists.
LEMMA ListedIs ==
    ASSUME IInv, NEW a \in Addresses
    PROVE  /\ SocketOf(a) \in Sockets /\ ListFor(SocketOf(a), list[SocketOf(a)])
           /\ Listed(a) <=> a \in Addrs(list[SocketOf(a)])
           /\ Listed(a) =>
                 /\ Position(list[SocketOf(a)], a) \in DOMAIN list[SocketOf(a)]
                 /\ list[SocketOf(a)][Position(list[SocketOf(a)], a)].addr = a
                 /\ unanswered[a] + list[SocketOf(a)][Position(list[SocketOf(a)], a)].send = SEND_LIMIT
                 /\ heard[a] + list[SocketOf(a)][Position(list[SocketOf(a)], a)].recv <= RECV_LIMIT
                 /\ unanswered[a] + 1 <= SEND_LIMIT
<1> DEFINE l == list[SocketOf(a)]
           i == Position(l, a)
<1>1. SocketOf(a) \in Sockets
  BY DEF SocketOf, Sockets
<1>2. ListFor(SocketOf(a), l) /\ CountedIn(l, unanswered, heard) /\ l \in Seq(Entry)
  BY <1>1 DEF IInv, ListsKept, ListFor
<1> HIDE DEF l
<1>3. Listed(a) <=> i > 0
  BY DEF Listed, l
<1>4. (i > 0 <=> a \in Addrs(l)) /\ (i > 0 => i \in DOMAIN l /\ l[i].addr = a)
  BY <1>2, PositionIs
<1> HIDE DEF i
<1>5. ASSUME i > 0
      PROVE  /\ i \in DOMAIN l /\ l[i].addr = a
             /\ unanswered[a] + l[i].send = SEND_LIMIT
             /\ heard[a] + l[i].recv <= RECV_LIMIT
             /\ unanswered[a] + 1 <= SEND_LIMIT
  <2>1. i \in DOMAIN l /\ l[i].addr = a
    BY <1>4, <1>5
  <2>2. unanswered[a] + l[i].send = SEND_LIMIT /\ heard[a] + l[i].recv <= RECV_LIMIT
    BY <1>2, <2>1 DEF CountedIn
  <2>3. l[i].send \in Nat /\ l[i].send >= 1
    BY <1>2, <2>1, EntryIs
  <2>4. unanswered[a] \in Nat /\ SEND_LIMIT \in Nat
    BY SocketsAssumption DEF IInv, Counts
  <2> QED
    BY <2>1, <2>2, <2>3, <2>4
<1> USE DEF l, i
<1> QED
  BY <1>1, <1>2, <1>3, <1>4, <1>5

\* Between packets, and once the answer was sent, r.sav is not used any more.
LEMMA SavUnused ==
    ASSUME IInv, todo = <<>> \/ Head(todo).name \in {"clock", "dht"}
    PROVE  packet.slot = 0 /\ ~packet.reached /\ \A lists : SavKept(lists, packet)
<1>1. packet.slot \in Nat /\ SavKept(list, packet) /\ todo \in Seq(Calls)
  BY DEF IInv, SavKept, Packets
<1>2. ~Pending(todo)
  <2>1. \A n \in Forwarding \cup {"answer"} : n \notin {"clock", "dht"}
    BY DEF Forwarding
  <2> QED
    BY <1>1, <2>1, PendingStep
<1>3. packet.slot = 0
  BY <1>1, <1>2 DEF IInv
<1> QED
  BY <1>1, <1>3 DEF SavKept

\* Unless the clock is next, the limit is kept exactly.
LEMMA SentLimited ==
    ASSUME IInv, ~AboutToTick(todo), NEW a \in Addresses
    PROVE  unanswered[a] <= SEND_LIMIT
BY DEF IInv, SentAtMost

\* A call that forwards keeps the invariant if it keeps the lists and r.sav.
LEMMA ForwardKeeps ==
    ASSUME IInv, NEW name \in Forwarding, Step(name),
           ListsKept(list', unanswered', heard), heard' = heard,
           routing' \subseteq RoutingPeers,
           unanswered' \in Counts, \A a \in Addresses : unanswered'[a] <= SEND_LIMIT,
           SavKept(list', packet'), packet'.slot = packet.slot,
           packet'.from = packet.from, packet'.reached = packet.reached
    PROVE  IInv'
<1>1. todo \in Seq(Calls) /\ todo # <<>> /\ todo' = Tail(todo) /\ Head(todo).name \in Forwarding
  BY DEF IInv, Step
<1>2. todo' \in Seq(Calls)
  BY <1>1
<1>3. packet'.slot > 0 => Pending(todo')
  <2>1. packet'.slot > 0 => Pending(todo)
    BY DEF IInv
  <2> QED
    BY <1>1, <2>1, PendingStep
<1>4. SentAtMost(unanswered', todo')
  BY SentEnough
<1>5. HeardAtMost(heard', packet')
  BY DEF IInv, HeardAtMost
<1>6. heard' \in Counts
  BY DEF IInv
<1> QED
  BY <1>2, <1>3, <1>4, <1>5, <1>6 DEF IInv

\* nothing happens to a list that stays as it is
LEMMA ThinnedSame ==
    ASSUME NEW s, NEW l, ListFor(s, l)
    PROVE  Thinned(l, l)
BY DEF ListFor, Thinned, StillFirst

\* Thinning the lists while r.sav is followed keeps the invariant.
LEMMA ThinningKeeps ==
    ASSUME IInv, NEW name \in Forwarding, Step(name), NEW new, SetLists(new),
           new = [s \in Sockets |-> new[s]], heard' = heard,
           \A s \in Sockets : ListFor(s, new[s]),
           \A s \in Sockets : Thinned(list[s], new[s]),
           \A s \in Sockets : CountedIn(new[s], unanswered', heard),
           routing' \subseteq RoutingPeers,
           unanswered' \in Counts, \A a \in Addresses : unanswered'[a] <= SEND_LIMIT
    PROVE  IInv'
<1>1. list' = new
  BY DEF SetLists
<1>2. ListsKept(list', unanswered', heard)
  BY <1>1 DEF ListsKept
<1>3. packet' = IF packet = NoPacket THEN packet
                ELSE SavAfter(packet, list[SocketOf(packet.from)], new[SocketOf(packet.from)])
  BY DEF SetLists
<1>4. SocketOf(packet.from) \in Sockets /\ SavKept(list, packet)
  BY DEF SocketOf, Sockets, IInv
<1>5. ListFor(SocketOf(packet.from), list[SocketOf(packet.from)])
  BY <1>4 DEF IInv, ListsKept
<1>6. /\ SavKept(new, packet') /\ packet'.slot = packet.slot
      /\ packet'.from = packet.from /\ packet'.reached = packet.reached
  BY <1>3, <1>4, <1>5, SavIs
<1> QED
  BY <1>1, <1>2, <1>6, ForwardKeeps

\* What is counted when a packet is sent to all addresses of a socket.
LEMMA SentToAllIs ==
    ASSUME IInv, ~AboutToTick(todo), NEW s \in Sockets, NEW except, NEW failing
    PROVE  LET u2 == SentToAll(s, except, failing)
           IN  /\ u2 \in Counts /\ \A a \in Addresses : u2[a] <= SEND_LIMIT
               /\ \A a \in Addresses : SocketOf(a) # s => u2[a] = unanswered[a]
               /\ CountedSent(list[s], unanswered, u2, except, failing)
<1> DEFINE u2 == SentToAll(s, except, failing)
<1>1. unanswered \in Counts /\ SEND_LIMIT \in Nat
  BY SocketsAssumption DEF IInv
<1>2. ASSUME NEW a \in Addresses
      PROVE  /\ unanswered[a] \in Nat /\ unanswered[a] <= SEND_LIMIT
             /\ Listed(a) => unanswered[a] + 1 <= SEND_LIMIT
  BY <1>1, SentLimited, ListedIs DEF Counts
<1>3. u2 = [a \in Addresses |->
              IF /\ SocketOf(a) = s /\ Listed(a) /\ a # except /\ a \notin failing
              THEN unanswered[a] + 1 ELSE unanswered[a]]
  BY DEF SentToAll
<1>4. u2 \in Counts /\ \A a \in Addresses : u2[a] <= SEND_LIMIT
  BY <1>2, <1>3 DEF Counts
<1>5. ASSUME NEW i \in DOMAIN list[s]
      PROVE  u2[list[s][i].addr] =
                IF list[s][i].addr # except /\ list[s][i].addr \notin failing
                THEN unanswered[list[s][i].addr] + 1 ELSE unanswered[list[s][i].addr]
  <2>1. ListFor(s, list[s])
    BY DEF IInv, ListsKept
  <2>2. list[s][i].addr \in Addresses /\ SocketOf(list[s][i].addr) = s
    BY <2>1, EntryIs
  <2>3. Listed(list[s][i].addr)
    <3>1. list[s][i].addr \in Addrs(list[s])
      BY DEF Addrs
    <3> QED
      BY <2>2, <3>1, ListedIs
  <2> HIDE DEF u2
  <2> QED
    BY <1>3, <2>2, <2>3
<1> HIDE DEF u2
<1>6. \A a \in Addresses : SocketOf(a) # s => u2[a] = unanswered[a]
  BY <1>3
<1>7. CountedSent(list[s], unanswered, u2, except, failing)
  BY <1>5 DEF CountedSent
<1> USE DEF u2
<1> QED
  BY <1>4, <1>6, <1>7

\* A DHT packet changes the routing table only.
LEMMA DhtProcessKeeps == IInv /\ DhtProcess => IInv'
<1> SUFFICES ASSUME IInv, DhtProcess PROVE IInv'
  OBVIOUS
<1>1. /\ Step("peers") /\ "peers" \in Forwarding /\ routing' \subseteq RoutingPeers
      /\ list' = list /\ packet' = packet /\ unanswered' = unanswered /\ heard' = heard
  BY DEF DhtProcess, Forwarding
<1>2. ~AboutToTick(todo)
  BY <1>1 DEF Step, AboutToTick
<1>3. unanswered' \in Counts /\ \A a \in Addresses : unanswered'[a] <= SEND_LIMIT
  BY <1>1, <1>2, SentLimited DEF IInv
<1>4. ListsKept(list', unanswered', heard) /\ SavKept(list', packet')
  BY <1>1 DEF IInv
<1> QED
  BY <1>1, <1>3, <1>4, ForwardKeeps

\* Sending to the programs on this device counts for each, and may delete them.
LEMMA SendLocalKeeps == IInv /\ SendLocal => IInv'
<1> SUFFICES ASSUME IInv, SendLocal PROVE IInv'
  OBVIOUS
<1> DEFINE except == Head(todo).except
<1>0. PICK failing \in SUBSET Local :
             /\ SetLists([list EXCEPT !["local"] = AfterSending(@, except, failing)])
             /\ unanswered' = SentToAll("local", except, failing)
  BY DEF SendLocal
<1> DEFINE new == [list EXCEPT !["local"] = AfterSending(@, except, failing)]
           u2 == SentToAll("local", except, failing)
<1>1. /\ Step("local") /\ "local" \in Forwarding /\ SetLists(new) /\ unanswered' = u2
      /\ routing' = routing /\ heard' = heard
  BY <1>0 DEF SendLocal, Forwarding
<1>2. ~AboutToTick(todo)
  BY <1>1 DEF Step, AboutToTick
<1>3. /\ "local" \in Sockets /\ "outside" \in Sockets
      /\ \A s \in Sockets : s = "local" \/ s = "outside"
  BY DEF Sockets
<1>4. /\ ListFor("local", list["local"]) /\ CountedIn(list["local"], unanswered, heard)
      /\ ListFor("outside", list["outside"]) /\ CountedIn(list["outside"], unanswered, heard)
      /\ unanswered \in Counts /\ heard \in Counts /\ list = [s \in Sockets |-> list[s]]
  BY <1>3 DEF IInv, ListsKept
<1>5. /\ u2 \in Counts /\ \A a \in Addresses : u2[a] <= SEND_LIMIT
      /\ \A a \in Addresses : SocketOf(a) # "local" => u2[a] = unanswered[a]
      /\ CountedSent(list["local"], unanswered, u2, except, failing)
  BY <1>2, <1>3, SentToAllIs
<1>6. /\ new = [s \in Sockets |-> new[s]] /\ new["outside"] = list["outside"]
      /\ new["local"] = AfterSending(list["local"], except, failing)
  BY <1>3, <1>4
<1> HIDE DEF new, u2, except
<1>7. /\ ListFor("local", new["local"]) /\ Thinned(list["local"], new["local"])
      /\ CountedIn(new["local"], u2, heard)
  BY <1>4, <1>5, <1>6, AfterSendingIs
<1>8. /\ ListFor("outside", new["outside"]) /\ Thinned(list["outside"], new["outside"])
      /\ CountedIn(new["outside"], u2, heard)
  <2>1. \A a \in Addresses : SocketOf(a) = "outside" => u2[a] = unanswered[a] /\ heard[a] = heard[a]
    BY <1>5
  <2> QED
    BY <1>4, <1>6, <2>1, CountedSame, ThinnedSame
<1>9. \A s \in Sockets : /\ ListFor(s, new[s]) /\ Thinned(list[s], new[s])
                         /\ CountedIn(new[s], unanswered', heard)
  BY <1>1, <1>3, <1>7, <1>8
<1>10. routing' \subseteq RoutingPeers
  BY <1>1 DEF IInv
<1> QED
  BY <1>1, <1>5, <1>6, <1>9, <1>10, ThinningKeeps

\* Sending to all others may delete addresses twice: by their limits, and with
\* the peers that expire.
LEMMA SendOutKeeps == IInv /\ SendOut => IInv'
<1> SUFFICES ASSUME IInv, SendOut PROVE IInv'
  OBVIOUS
<1> DEFINE except == Head(todo).except
<1>1. Step("out") /\ "out" \in Forwarding /\ heard' = heard
  BY DEF SendOut, Forwarding
<1>2. ~AboutToTick(todo)
  BY <1>1 DEF Step, AboutToTick
<1>3. CASE UNCHANGED <<list, packet, unanswered, routing>>
  <2>1. unanswered' \in Counts /\ \A a \in Addresses : unanswered'[a] <= SEND_LIMIT
    BY <1>2, <1>3, SentLimited DEF IInv
  <2>2. ListsKept(list', unanswered', heard) /\ SavKept(list', packet')
    BY <1>3 DEF IInv
  <2>3. /\ routing' \subseteq RoutingPeers /\ packet'.slot = packet.slot
        /\ packet'.from = packet.from /\ packet'.reached = packet.reached
    BY <1>3 DEF IInv
  <2> QED
    BY <1>1, <2>1, <2>2, <2>3, ForwardKeeps
<1>4. ASSUME NEW failing \in SUBSET Outside, NEW peers \in SUBSET routing,
             SetLists(Expired([list EXCEPT !["outside"] =
                                   AfterSending(@, except, failing)], peers)),
             unanswered' = SentToAll("outside", except, failing),
             routing' = routing \ peers
      PROVE  IInv'
  <2> DEFINE sent == [list EXCEPT !["outside"] = AfterSending(@, except, failing)]
             new == Expired(sent, peers)
             u2 == SentToAll("outside", except, failing)
  <2>1. /\ "local" \in Sockets /\ "outside" \in Sockets
        /\ \A s \in Sockets : s = "local" \/ s = "outside"
    BY DEF Sockets
  <2>2. /\ ListFor("local", list["local"]) /\ CountedIn(list["local"], unanswered, heard)
        /\ ListFor("outside", list["outside"]) /\ CountedIn(list["outside"], unanswered, heard)
        /\ unanswered \in Counts /\ heard \in Counts /\ list = [s \in Sockets |-> list[s]]
    BY <2>1 DEF IInv, ListsKept
  <2>3. /\ u2 \in Counts /\ \A a \in Addresses : u2[a] <= SEND_LIMIT
        /\ \A a \in Addresses : SocketOf(a) # "outside" => u2[a] = unanswered[a]
        /\ CountedSent(list["outside"], unanswered, u2, except, failing)
    BY <1>2, <2>1, SentToAllIs
  <2>4. /\ sent = [s \in Sockets |-> sent[s]] /\ sent["local"] = list["local"]
        /\ sent["outside"] = AfterSending(list["outside"], except, failing)
    BY <2>1, <2>2
  <2> HIDE DEF sent, u2, except
  <2>5. /\ ListFor("outside", sent["outside"]) /\ Thinned(list["outside"], sent["outside"])
        /\ CountedIn(sent["outside"], u2, heard)
    BY <2>2, <2>3, <2>4, AfterSendingIs
  <2>6. /\ new = [s \in Sockets |-> new[s]] /\ new["local"] = sent["local"]
        /\ ListFor("outside", new["outside"]) /\ Thinned(sent["outside"], new["outside"])
        /\ CountedIn(new["outside"], u2, heard)
    BY <2>4, <2>5, ExpiredIs
  <2> HIDE DEF new
  <2>7. Thinned(list["outside"], new["outside"])
    BY <2>2, <2>5, <2>6, ThinnedTwice DEF ListFor
  <2>8. /\ ListFor("local", new["local"]) /\ Thinned(list["local"], new["local"])
         /\ CountedIn(new["local"], u2, heard)
    <3>1. \A a \in Addresses : SocketOf(a) = "local" => u2[a] = unanswered[a] /\ heard[a] = heard[a]
      BY <2>3
    <3> QED
      BY <2>2, <2>4, <2>6, <3>1, CountedSame, ThinnedSame
  <2>9. \A s \in Sockets : ListFor(s, new[s]) /\ Thinned(list[s], new[s]) /\ CountedIn(new[s], u2, heard)
    BY <2>1, <2>6, <2>7, <2>8
  <2>10. routing' \subseteq RoutingPeers
    BY <1>4 DEF IInv
  <2>11. SetLists(new) /\ unanswered' = u2
    BY <1>4 DEF new, sent, u2, except
  <2> QED
    BY <1>1, <2>3, <2>6, <2>9, <2>10, <2>11, ThinningKeeps
<1> QED
  BY <1>3, <1>4 DEF SendOut

\* One list changes, and with it what is counted for its addresses.
LEMMA OneListChanged ==
    ASSUME IInv, NEW s \in Sockets, NEW l, NEW u2, NEW h2, ListFor(s, l), CountedIn(l, u2, h2),
           \A a \in Addresses : SocketOf(a) # s => u2[a] = unanswered[a] /\ h2[a] = heard[a]
    PROVE  /\ ListsKept([list EXCEPT ![s] = l], u2, h2) /\ [list EXCEPT ![s] = l][s] = l
<1> DEFINE new == [list EXCEPT ![s] = l]
<1>1. /\ list = [t \in Sockets |-> list[t]]
      /\ \A t \in Sockets : ListFor(t, list[t]) /\ CountedIn(list[t], unanswered, heard)
  BY DEF IInv, ListsKept
<1>2. /\ new = [t \in Sockets |-> new[t]] /\ new[s] = l
      /\ \A t \in Sockets : t # s => new[t] = list[t]
  BY <1>1
<1> HIDE DEF new
<1>3. ASSUME NEW t \in Sockets PROVE ListFor(t, new[t]) /\ CountedIn(new[t], u2, h2)
  <2>1. CASE t = s
    BY <1>2, <2>1
  <2>2. CASE t # s
    <3>1. \A a \in Addresses : SocketOf(a) = t => u2[a] = unanswered[a] /\ h2[a] = heard[a]
      BY <2>2
    <3>2. new[t] = list[t]
      BY <1>2, <2>2
    <3>3. CountedIn(list[t], u2, h2)
      BY <1>1, <3>1, CountedSame
    <3> QED
      BY <1>1, <3>2, <3>3
  <2> QED
    BY <2>1, <2>2
<1> USE DEF new
<1> QED
  BY <1>2, <1>3 DEF ListsKept

\* no packet, no r.sav
LEMMA NoPacketKept ==
    /\ \A lists : SavKept(lists, NoPacket)
    /\ NoPacket.slot = 0 /\ NoPacket.reached = FALSE
BY DEF NoPacket, SavKept, Packets, Receivers

\* The keepalive goes to the sender, or to another address of its socket if r.sav
\* points elsewhere; the sender's count starts again in both cases.
LEMMA AnswerKeeps == IInv /\ Answer => IInv'
<1> SUFFICES ASSUME IInv, Answer PROVE IInv'
  OBVIOUS
<1> DEFINE from == packet.from
           to == packet.addr
           s == SocketOf(from)
<1>1. /\ todo # <<>> /\ Head(todo).name = "answer" /\ todo' = Tail(todo)
      /\ packet' = NoPacket /\ routing' = routing
  BY DEF Answer, Step
<1>2. /\ todo \in Seq(Calls) /\ unanswered \in Counts /\ heard \in Counts /\ SavKept(list, packet)
      /\ routing \subseteq RoutingPeers /\ HeardAtMost(heard, packet)
      /\ SEND_LIMIT \in Nat /\ RECV_LIMIT \in Nat /\ RECV_LIMIT - 1 >= 0 /\ RECV_LIMIT # 0
  BY SocketsAssumption DEF IInv
<1>3. todo' \in Seq(Calls)
  BY <1>1, <1>2
<1>4. ~AboutToTick(todo)
  BY <1>1 DEF AboutToTick
<1>5. SavKept(list', packet') /\ ~(packet'.slot > 0) /\ packet'.reached = FALSE
  BY <1>1, NoPacketKept
<1>6. CASE ~packet.reached
  <2>1. list' = list /\ unanswered' = unanswered /\ heard' = heard
    BY <1>6 DEF Answer
  <2>2. SentAtMost(unanswered', todo')
    BY <1>2, <1>4, <2>1, SentLimited, SentEnough
  <2>3. HeardAtMost(heard', packet')
    BY <1>2, <1>5, <1>6, <2>1 DEF HeardAtMost
  <2>4. ListsKept(list', unanswered', heard')
    BY <2>1 DEF IInv
  <2> QED
    BY <1>1, <1>2, <1>3, <1>5, <2>1, <2>2, <2>3, <2>4 DEF IInv
<1>7. CASE packet.reached
  <2> DEFINE mid == UpdateRecvLimit(list[s], from)
             new == SendTo(mid, to)
             u2 == [unanswered EXCEPT ![to] = @ + 1]
             h2 == [a \in Addresses |->
                       IF a = to \/ (a = from /\ packet.gone) THEN 0 ELSE heard[a]]
  <2>1. /\ list' = [list EXCEPT ![s] = new] /\ unanswered' = u2 /\ heard' = h2
    BY <1>7 DEF Answer
  <2>2. packet.slot \in Nat /\ packet.slot # 0 /\ packet.slot > 0
    BY <1>2, <1>7 DEF SavKept, Packets
  <2>3. /\ from \in Addresses /\ to \in Addresses /\ SocketOf(to) = s
        /\ ~packet.gone => to = from
    BY <1>2, <2>2 DEF SavKept
  <2>4. s \in Sockets
    BY DEF SocketOf, Sockets
  <2>5. ListFor(s, list[s]) /\ CountedIn(list[s], unanswered, heard)
    BY <2>4 DEF IInv, ListsKept
  <2>6. AboutToTick(todo')
    <3>1. Pending(todo)
      BY <2>2 DEF IInv
    <3> QED
      BY <1>1, <1>2, <3>1, PendingStep
  <2>7. \A a \in Addresses : unanswered[a] \in Nat /\ unanswered[a] <= SEND_LIMIT /\ heard[a] \in Nat
    BY <1>2, <1>4, SentLimited DEF Counts
  <2>8. /\ u2 \in Counts
        /\ \A b \in Addresses : u2[b] = IF b = to THEN unanswered[b] + 1 ELSE unanswered[b]
    BY <1>2, <2>3, <2>7 DEF Counts
  <2>9. /\ h2 \in Counts
        /\ \A a \in Addresses : h2[a] = IF a = to \/ (a = from /\ packet.gone) THEN 0 ELSE heard[a]
    BY <2>7 DEF Counts
  <2> HIDE DEF u2, h2, from, to, s
  <2>10. \A a \in Addresses : IF a = from THEN h2[a] = 0 ELSE h2[a] <= heard[a]
    BY <2>3, <2>7, <2>9
  <2>11. ListFor(s, mid) /\ CountedIn(mid, unanswered, h2)
    BY <1>2, <2>5, <2>9, <2>10, UpdateRecvLimitIs
  <2> HIDE DEF mid
  <2>12. ListFor(s, new) /\ CountedIn(new, u2, h2)
    BY <1>2, <2>8, <2>9, <2>11, SendToIs
  <2> HIDE DEF new
  <2>13. \A a \in Addresses : SocketOf(a) # s => u2[a] = unanswered[a] /\ h2[a] = heard[a]
    <3>1. SocketOf(from) = s
      BY DEF s, from
    <3> QED
      BY <2>3, <2>8, <2>9, <3>1
  <2>14. ListsKept(list', unanswered', heard')
    BY <2>1, <2>4, <2>12, <2>13, OneListChanged
  <2>15. SentAtMost(unanswered', todo')
    <3>1. \A a \in Addresses : u2[a] <= SEND_LIMIT + 1
      BY <1>2, <2>7, <2>8
    <3> QED
      BY <2>1, <2>6, <3>1 DEF SentAtMost
  <2>16. HeardAtMost(heard', packet')
    <3>1. ASSUME NEW a \in Addresses PROVE h2[a] <= RECV_LIMIT - 1
      <4>1. CASE a = from
        BY <1>2, <2>10, <4>1
      <4>2. CASE a # from
        <5>1. heard[a] <= RECV_LIMIT - 1
          BY <1>2, <4>2 DEF HeardAtMost, from
        <5>2. h2[a] <= heard[a] /\ h2[a] \in Nat /\ heard[a] \in Nat
          BY <2>7, <2>9, <2>10, <4>2 DEF Counts
        <5> QED
          BY <1>2, <5>1, <5>2
      <4> QED
        BY <4>1, <4>2
    <3> QED
      BY <1>5, <2>1, <3>1 DEF HeardAtMost
  <2> QED
    BY <1>1, <1>2, <1>3, <1>5, <2>1, <2>8, <2>9, <2>14, <2>15, <2>16 DEF IInv
<1> QED
  BY <1>6, <1>7

\* Forgetting what is counted for unlisted addresses keeps what the lists say.
LEMMA OfListedIs ==
    ASSUME NEW lists, NEW u \in Counts, NEW h \in Counts, ListsKept(lists, u, h),
           NEW a \in Addresses
    PROVE  /\ OfListed(u, lists)[a] \in Nat /\ OfListed(h, lists)[a] \in Nat
           /\ OfListed(u, lists)[a] <= SEND_LIMIT
           /\ OfListed(h, lists)[a] <= h[a]
           /\ a \in Addrs(lists[SocketOf(a)]) =>
                 OfListed(u, lists)[a] = u[a] /\ OfListed(h, lists)[a] = h[a]
<1> DEFINE l == lists[SocketOf(a)]
           i == Position(l, a)
<1>1. SocketOf(a) \in Sockets
  BY DEF SocketOf, Sockets
<1>2. ListFor(SocketOf(a), l) /\ CountedIn(l, u, h) /\ l \in Seq(Entry)
  BY <1>1 DEF ListsKept, ListFor
<1>3. /\ u[a] \in Nat /\ h[a] \in Nat /\ SEND_LIMIT \in Nat
  BY SocketsAssumption DEF Counts
<1>4. /\ OfListed(u, lists)[a] = IF i > 0 THEN u[a] ELSE 0
      /\ OfListed(h, lists)[a] = IF i > 0 THEN h[a] ELSE 0
  BY DEF OfListed
<1> HIDE DEF l
<1>5. (i > 0 <=> a \in Addrs(l)) /\ (i > 0 => i \in DOMAIN l /\ l[i].addr = a)
  BY <1>2, PositionIs
<1> HIDE DEF i
<1>6. ASSUME i > 0 PROVE u[a] <= SEND_LIMIT
  <2>1. i \in DOMAIN l /\ l[i].addr = a
    BY <1>5, <1>6
  <2>2. u[a] + l[i].send = SEND_LIMIT
    BY <1>2, <2>1 DEF CountedIn
  <2>3. l[i].send \in Nat
    BY <1>2, <2>1, EntryIs
  <2> QED
    BY <1>3, <2>2, <2>3
<1>7. OfListed(u, lists)[a] <= SEND_LIMIT /\ OfListed(h, lists)[a] <= h[a]
  BY <1>3, <1>4, <1>6
<1>8. OfListed(u, lists)[a] \in Nat /\ OfListed(h, lists)[a] \in Nat
  BY <1>3, <1>4
<1> QED
  BY <1>4, <1>5, <1>7, <1>8 DEF l

\* The clock may delete addresses, since r.sav is not used any more.
LEMMA ClockKeeps ==
    ASSUME IInv, NEW tick \in BOOLEAN, Clock(tick)
    PROVE  IInv'
<1> DEFINE u2 == OfListed(unanswered, list')
           h2 == OfListed(heard, list')
<1>1. /\ todo # <<>> /\ Head(todo).name = "clock" /\ todo' = Tail(todo)
      /\ list' = IF tick THEN [s \in Sockets |-> AfterTick(list[s])] ELSE list
      /\ unanswered' = u2 /\ heard' = h2 /\ routing' = routing /\ packet' = packet
  BY DEF Clock, Step
<1>2. /\ todo \in Seq(Calls) /\ unanswered \in Counts /\ heard \in Counts
      /\ routing \subseteq RoutingPeers /\ HeardAtMost(heard, packet)
      /\ SEND_LIMIT \in Nat /\ RECV_LIMIT - 1 \in Int
  BY SocketsAssumption DEF IInv
<1>3. todo' \in Seq(Calls)
  BY <1>1, <1>2
<1>4. packet.slot = 0 /\ ~packet.reached /\ \A lists : SavKept(lists, packet)
  BY <1>1, SavUnused
<1>5. ListsKept(list', unanswered, heard)
  <2>1. /\ list = [s \in Sockets |-> list[s]]
        /\ \A s \in Sockets : ListFor(s, list[s]) /\ CountedIn(list[s], unanswered, heard)
    BY DEF IInv, ListsKept
  <2>2. CASE tick
    <3>1. /\ list' = [s \in Sockets |-> AfterTick(list[s])]
      BY <1>1, <2>2
    <3>2. /\ list' = [s \in Sockets |-> list'[s]]
          /\ \A s \in Sockets : list'[s] = AfterTick(list[s])
      BY <3>1
    <3>3. \A s \in Sockets : ListFor(s, AfterTick(list[s])) /\ CountedIn(AfterTick(list[s]), unanswered, heard)
      BY <1>2, <2>1, AfterTickIs
    <3> QED
      BY <3>2, <3>3 DEF ListsKept
  <2>3. CASE ~tick
    BY <1>1, <2>1, <2>3 DEF ListsKept
  <2> QED
    BY <2>2, <2>3
<1>6. ASSUME NEW a \in Addresses
      PROVE  /\ u2[a] \in Nat /\ h2[a] \in Nat /\ u2[a] <= SEND_LIMIT /\ h2[a] <= heard[a]
             /\ a \in Addrs(list'[SocketOf(a)]) => u2[a] = unanswered[a] /\ h2[a] = heard[a]
  BY <1>2, <1>5, OfListedIs
<1>7. u2 = [a \in Addresses |-> u2[a]] /\ h2 = [a \in Addresses |-> h2[a]]
  BY DEF OfListed
<1> HIDE DEF u2, h2
<1>8. u2 \in Counts /\ h2 \in Counts
  BY <1>6, <1>7 DEF Counts
<1>9. ListsKept(list', u2, h2)
  <2>1. /\ list' = [s \in Sockets |-> list'[s]]
        /\ \A s \in Sockets : ListFor(s, list'[s]) /\ CountedIn(list'[s], unanswered, heard)
    BY <1>5 DEF ListsKept
  <2>2. ASSUME NEW s \in Sockets PROVE CountedIn(list'[s], u2, h2)
    <3>1. ASSUME NEW i \in DOMAIN list'[s]
          PROVE  /\ u2[list'[s][i].addr] = unanswered[list'[s][i].addr]
                 /\ h2[list'[s][i].addr] = heard[list'[s][i].addr]
      <4>1. list'[s][i].addr \in Addresses /\ SocketOf(list'[s][i].addr) = s
        BY <2>1, EntryIs
      <4>2. list'[s][i].addr \in Addrs(list'[s])
        BY DEF Addrs
      <4> QED
        BY <1>6, <4>1, <4>2
    <3> QED
      BY <2>1, <3>1 DEF CountedIn
  <2> QED
    BY <2>1, <2>2 DEF ListsKept
<1>10. SentAtMost(u2, todo')
  BY <1>6, <1>8, SentEnough
<1>11. HeardAtMost(h2, packet)
  <2>1. ASSUME NEW a \in Addresses PROVE h2[a] <= RECV_LIMIT - 1
    <3>1. heard[a] <= RECV_LIMIT - 1 /\ heard[a] \in Nat
      BY <1>2, <1>4 DEF HeardAtMost, Counts
    <3> QED
      BY <1>2, <1>6, <3>1
  <2> QED
    BY <1>4, <2>1 DEF HeardAtMost
<1>12. SavKept(list', packet') /\ ~(packet'.slot > 0)
  BY <1>1, <1>4
<1>13. ListsKept(list', unanswered', heard') /\ SentAtMost(unanswered', todo') /\ HeardAtMost(heard', packet')
  BY <1>1, <1>9, <1>10, <1>11
<1> QED
  BY <1>1, <1>2, <1>3, <1>8, <1>12, <1>13 DEF IInv

\* So may an update of the DHT.
LEMMA UpdateDhtKeeps == IInv /\ UpdateDht => IInv'
<1> SUFFICES ASSUME IInv, UpdateDht PROVE IInv'
  OBVIOUS
<1>1. /\ todo # <<>> /\ Head(todo).name = "dht"
      /\ packet' = packet /\ unanswered' = unanswered /\ heard' = heard
  BY DEF UpdateDht
<1>2. /\ todo \in Seq(Calls) /\ unanswered \in Counts /\ heard \in Counts
      /\ routing \subseteq RoutingPeers /\ HeardAtMost(heard, packet)
  BY DEF IInv
<1>3. packet.slot = 0 /\ ~packet.reached /\ \A lists : SavKept(lists, packet)
  BY <1>1, SavUnused
<1>4. ~AboutToTick(todo)
  BY <1>1 DEF AboutToTick
<1>5. SentAtMost(unanswered', todo')
  BY <1>1, <1>2, <1>4, SentLimited, SentEnough
<1>6. SavKept(list', packet') /\ ~(packet'.slot > 0) /\ HeardAtMost(heard', packet')
  BY <1>1, <1>2, <1>3
<1>7. SUFFICES /\ ListsKept(list', unanswered', heard')
               /\ routing' \subseteq RoutingPeers /\ todo' \in Seq(Calls)
  BY <1>1, <1>2, <1>5, <1>6 DEF IInv
<1>8. CASE todo' = Tail(todo) /\ UNCHANGED <<list, routing>>
  <2>1. ListsKept(list', unanswered', heard')
    BY <1>1, <1>8 DEF IInv
  <2>2. todo' \in Seq(Calls)
    BY <1>1, <1>2, <1>8
  <2> QED
    BY <1>2, <1>8, <2>1, <2>2
<1>9. ASSUME NEW peers \in SUBSET routing, list' = Expired(list, peers),
             routing' = routing \ peers,
             todo' = <<Call("local", Nobody), Call("out", Nobody)>>
      PROVE  /\ ListsKept(list', unanswered', heard')
             /\ routing' \subseteq RoutingPeers /\ todo' \in Seq(Calls)
  <2>1. /\ "local" \in Sockets /\ "outside" \in Sockets
        /\ \A s \in Sockets : s = "local" \/ s = "outside"
    BY DEF Sockets
  <2>2. /\ list = [s \in Sockets |-> list[s]]
        /\ \A s \in Sockets : ListFor(s, list[s]) /\ CountedIn(list[s], unanswered, heard)
    BY DEF IInv, ListsKept
  <2>3. /\ list' = [s \in Sockets |-> list'[s]] /\ list'["local"] = list["local"]
        /\ ListFor("outside", list'["outside"])
        /\ CountedIn(list'["outside"], unanswered, heard)
    BY <1>9, <2>1, <2>2, ExpiredIs
  <2>4. ListsKept(list', unanswered', heard')
    BY <1>1, <2>1, <2>2, <2>3 DEF ListsKept
  <2>5. Call("local", Nobody) \in Calls /\ Call("out", Nobody) \in Calls
    BY DEF Call, Calls, CallNames, Forwarding, Receivers
  <2> QED
    BY <1>2, <1>9, <2>4, <2>5
<1> QED
  BY <1>8, <1>9 DEF UpdateDht

\* What reading a packet does to the entry of its sender.
LEMMA ReadIs ==
    ASSUME NEW e \in Entry, NEW auth \in BOOLEAN, NEW time \in {e.time, Ticks(e.addr)}
    PROVE  LET f == [Read(e, auth) EXCEPT !.time = time]
           IN  /\ f \in Entry /\ f.addr = e.addr
               /\ f.send = IF auth THEN SEND_LIMIT ELSE e.send
               /\ f.recv = IF e.recv >= 1 THEN e.recv - 1 ELSE e.recv
<1> DEFINE f == [Read(e, auth) EXCEPT !.time = time]
           send == IF auth THEN SEND_LIMIT ELSE e.send
           recv == IF e.recv >= 1 THEN e.recv - 1 ELSE e.recv
<1>1. /\ e.send \in Nat /\ e.send >= 1 /\ e.send <= SEND_LIMIT
      /\ e.recv \in Nat /\ e.recv <= RECV_LIMIT
      /\ e.time \in Nat /\ e.time <= LOCAL_TICKS + REMOTE_TICKS
      /\ SEND_LIMIT \in Nat /\ SEND_LIMIT > 1 /\ RECV_LIMIT \in Nat
      /\ LOCAL_TICKS \in Nat /\ REMOTE_TICKS \in Nat
  BY SocketsAssumption DEF Entry
<1>2. f = [addr |-> e.addr, send |-> send, recv |-> recv, time |-> time]
  <2>1. e = [addr |-> e.addr, send |-> e.send, recv |-> e.recv, time |-> e.time]
    BY DEF Entry
  <2>2. Read(e, auth) = [e EXCEPT !.recv = recv, !.send = send]
    BY <2>1 DEF Read
  <2> HIDE DEF send, recv
  <2>3. Read(e, auth) = [addr |-> e.addr, send |-> send, recv |-> recv, time |-> e.time]
    BY <2>1, <2>2
  <2> QED
    BY <2>3
<1>3. /\ send \in Nat /\ send >= 1 /\ send <= SEND_LIMIT
      /\ recv \in Nat /\ recv <= RECV_LIMIT
  BY <1>1
<1>4. time \in Nat /\ time <= LOCAL_TICKS + REMOTE_TICKS
  BY <1>1 DEF Ticks
<1> HIDE DEF f, send, recv
<1>5. f \in Entry /\ f.addr = e.addr /\ f.send = send /\ f.recv = recv
  BY <1>2, <1>3, <1>4, EntryWith
<1> USE DEF f, send, recv
<1> QED
  BY <1>5

\* An invalid packet may use up the receive limit without being heard.
LEMMA ReadInvalidKeeps ==
    ASSUME IInv, NEW a \in Addresses, ReadInvalid(a)
    PROVE  IInv'
<1> DEFINE s == SocketOf(a)
           i == Position(list[s], a)
           auth == a \in Local
           e == Read(list[s][i], auth)
           u2 == IF auth THEN [unanswered EXCEPT ![a] = 0] ELSE unanswered
           new == [list[s] EXCEPT ![i] = e]
<1>1. /\ todo = <<>> /\ Listed(a) /\ list' = [list EXCEPT ![s] = new]
      /\ unanswered' = u2 /\ routing' = routing /\ packet' = packet /\ todo' = todo
      /\ heard' = heard
  BY DEF ReadInvalid
<1>2. /\ unanswered \in Counts /\ heard \in Counts /\ SEND_LIMIT \in Nat
      /\ \A b \in Addresses : unanswered[b] \in Nat /\ heard[b] \in Nat
  BY SocketsAssumption DEF IInv, Counts
<1>3. packet.slot = 0 /\ \A lists : SavKept(lists, packet)
  BY <1>1, SavUnused
<1>4. /\ s \in Sockets /\ ListFor(s, list[s]) /\ i \in DOMAIN list[s] /\ list[s][i].addr = a
      /\ unanswered[a] + list[s][i].send = SEND_LIMIT
      /\ heard[a] + list[s][i].recv <= RECV_LIMIT
  BY <1>1, ListedIs
<1>5. CountedIn(list[s], unanswered, heard)
  BY <1>4 DEF IInv, ListsKept
<1> HIDE DEF s, i
<1>6. list[s][i] \in Entry /\ list[s][i].recv \in Nat /\ RECV_LIMIT \in Nat
  BY <1>4, EntryIs, SocketsAssumption
<1>7. /\ e \in Entry /\ e.addr = a
      /\ e.send = IF auth THEN SEND_LIMIT ELSE list[s][i].send
      /\ e.recv = IF list[s][i].recv >= 1 THEN list[s][i].recv - 1 ELSE list[s][i].recv
  <2>1. auth \in BOOLEAN
    OBVIOUS
  <2> HIDE DEF auth
  <2> DEFINE same == [Read(list[s][i], auth) EXCEPT !.time = list[s][i].time]
  <2>2. e = same
    BY <1>6 DEF Read, Entry
  <2>3. /\ same \in Entry /\ same.addr = list[s][i].addr
        /\ same.send = IF auth THEN SEND_LIMIT ELSE list[s][i].send
        /\ same.recv = IF list[s][i].recv >= 1 THEN list[s][i].recv - 1 ELSE list[s][i].recv
    BY <1>6, <2>1, ReadIs
  <2> HIDE DEF same, e
  <2> QED
    BY <1>4, <2>2, <2>3
<1>8. /\ u2 \in Counts /\ u2[a] = (IF auth THEN 0 ELSE unanswered[a])
      /\ \A b \in Addresses \ {a} : u2[b] = unanswered[b] /\ heard[b] = heard[b]
  BY <1>2 DEF Counts
<1> HIDE DEF e, u2, auth
<1>9. u2[a] + e.send = SEND_LIMIT /\ heard[a] + e.recv <= RECV_LIMIT
  BY <1>2, <1>4, <1>6, <1>7, <1>8
<1>10. ListFor(s, new) /\ CountedIn(new, u2, heard)
  <2>1. /\ e.addr = list[s][i].addr /\ u2[e.addr] + e.send = SEND_LIMIT
        /\ heard[e.addr] + e.recv <= RECV_LIMIT
        /\ OthersSame(e.addr, unanswered, heard, u2, heard)
    BY <1>4, <1>7, <1>8, <1>9 DEF OthersSame
  <2> QED
    BY <1>4, <1>5, <1>7, <2>1, ReplaceIs
<1> HIDE DEF new
<1>11. \A b \in Addresses : SocketOf(b) # s => u2[b] = unanswered[b] /\ heard[b] = heard[b]
  BY <1>8 DEF s
<1>12. ListsKept(list', unanswered', heard')
  BY <1>1, <1>4, <1>10, <1>11, OneListChanged
<1>13. SentAtMost(unanswered', todo')
  <2>1. ~AboutToTick(todo)
    BY <1>1 DEF AboutToTick
  <2>2. \A b \in Addresses : u2[b] <= SEND_LIMIT
    BY <1>2, <1>8, <2>1, SentLimited
  <2> QED
    BY <1>1, <1>8, <2>2, SentEnough
<1>14. SavKept(list', packet') /\ ~(packet'.slot > 0) /\ HeardAtMost(heard', packet')
  BY <1>1, <1>3 DEF IInv
<1> QED
  BY <1>1, <1>2, <1>8, <1>12, <1>13, <1>14 DEF IInv

\* A packet of a listed address sets r.sav to its entry.
LEMMA ReadKnownKeeps ==
    ASSUME IInv, NEW a \in Addresses, NEW auth \in BOOLEAN, NEW f \in Seq(ForwardCalls),
           ReadKnown(a, auth, f)
    PROVE  IInv'
<1> DEFINE s == SocketOf(a)
           i == Position(list[s], a)
           e == [Read(list[s][i], auth) EXCEPT !.time = Ticks(a)]
           u2 == IF auth THEN [unanswered EXCEPT ![a] = 0] ELSE unanswered
           h2 == [heard EXCEPT ![a] = @ + 1]
           new == [list[s] EXCEPT ![i] = e]
<1>1. /\ todo = <<>> /\ Listed(a) /\ list' = [list EXCEPT ![s] = new]
      /\ packet' = [from |-> a, reached |-> Reached(list[s][i], e), slot |-> i,
                    addr |-> a, gone |-> FALSE]
      /\ unanswered' = u2 /\ heard' = h2 /\ routing' = routing /\ todo' = f \o AtTheEnd
  BY DEF ReadKnown
<1>2. /\ unanswered \in Counts /\ heard \in Counts /\ SEND_LIMIT \in Nat
      /\ \A b \in Addresses : unanswered[b] \in Nat /\ heard[b] \in Nat
  BY SocketsAssumption DEF IInv, Counts
<1>3. ~packet.reached
  BY <1>1, SavUnused
<1>4. /\ s \in Sockets /\ ListFor(s, list[s]) /\ i \in DOMAIN list[s] /\ list[s][i].addr = a
      /\ unanswered[a] + list[s][i].send = SEND_LIMIT
      /\ heard[a] + list[s][i].recv <= RECV_LIMIT
  BY <1>1, ListedIs
<1>5. CountedIn(list[s], unanswered, heard)
  BY <1>4 DEF IInv, ListsKept
<1> HIDE DEF s, i
<1>6. /\ list[s][i] \in Entry /\ list[s][i].recv \in Nat
      /\ RECV_LIMIT \in Nat /\ RECV_LIMIT # 0 /\ i \in Nat /\ i > 0
  <2>1. list[s][i] \in Entry /\ list[s][i].recv \in Nat
    BY <1>4, EntryIs
  <2>2. list[s] \in Seq(Entry)
    BY <1>4 DEF ListFor
  <2>3. i \in Nat /\ i > 0
    BY <1>4, <2>2
  <2> QED
    BY <2>1, <2>3, SocketsAssumption
<1>7. /\ e \in Entry /\ e.addr = a
      /\ e.send = IF auth THEN SEND_LIMIT ELSE list[s][i].send
      /\ e.recv = IF list[s][i].recv >= 1 THEN list[s][i].recv - 1 ELSE list[s][i].recv
  BY <1>4, <1>6, ReadIs
<1>8. /\ u2 \in Counts /\ u2[a] = (IF auth THEN 0 ELSE unanswered[a])
      /\ h2 \in Counts /\ h2[a] = heard[a] + 1
      /\ \A b \in Addresses \ {a} : u2[b] = unanswered[b] /\ h2[b] = heard[b]
  BY <1>2 DEF Counts
<1> HIDE DEF e, u2, h2
<1>9. \A b \in Addresses : heard[b] <= RECV_LIMIT - 1
  BY <1>3 DEF IInv, HeardAtMost
<1>10. /\ u2[a] + e.send = SEND_LIMIT /\ h2[a] + e.recv <= RECV_LIMIT
       /\ h2[a] <= RECV_LIMIT /\ (e.recv # 0 => h2[a] <= RECV_LIMIT - 1)
  <2>1. u2[a] + e.send = SEND_LIMIT
    BY <1>2, <1>4, <1>7, <1>8
  <2>2. heard[a] \in Nat /\ heard[a] <= RECV_LIMIT - 1
    BY <1>2, <1>9
  <2>3. h2[a] + e.recv <= RECV_LIMIT
    BY <1>4, <1>6, <1>7, <1>8, <2>2
  <2>4. e.recv \in Nat
    BY <1>6, <1>7
  <2> QED
    BY <1>6, <1>8, <2>1, <2>2, <2>3, <2>4
<1>11. /\ ListFor(s, new) /\ CountedIn(new, u2, h2) /\ i \in DOMAIN new /\ new[i] = e
  <2>1. /\ e.addr = list[s][i].addr /\ u2[e.addr] + e.send = SEND_LIMIT
        /\ h2[e.addr] + e.recv <= RECV_LIMIT
        /\ OthersSame(e.addr, unanswered, heard, u2, h2)
    BY <1>4, <1>7, <1>8, <1>10 DEF OthersSame
  <2> QED
    BY <1>4, <1>5, <1>7, <2>1, ReplaceIs
<1> HIDE DEF new
<1>12. \A b \in Addresses : SocketOf(b) # s => u2[b] = unanswered[b] /\ h2[b] = heard[b]
  BY <1>8 DEF s
<1>13. ListsKept(list', unanswered', heard') /\ list'[s] = new
  <2>1. ListsKept([list EXCEPT ![s] = new], u2, h2) /\ [list EXCEPT ![s] = new][s] = new
    BY <1>4, <1>11, <1>12, OneListChanged
  <2> QED
    BY <1>1, <2>1
<1>14. SentAtMost(unanswered', todo')
  <2>1. ~AboutToTick(todo)
    BY <1>1 DEF AboutToTick
  <2>2. \A b \in Addresses : u2[b] <= SEND_LIMIT
    BY <1>2, <1>8, <2>1, SentLimited
  <2> QED
    BY <1>1, <1>8, <2>2, SentEnough
<1>15. /\ packet'.from = a /\ packet'.reached = (e.recv = 0) /\ packet'.slot = i
       /\ packet'.addr = a /\ packet'.gone = FALSE /\ packet' \in Packets
  BY <1>1, <1>6 DEF Reached, Packets, Receivers
<1>16. SavKept(list', packet')
  <2>1. SocketOf(packet'.from) = s
    BY <1>15 DEF s
  <2> QED
    BY <1>6, <1>7, <1>11, <1>13, <1>15, <2>1 DEF SavKept
<1>17. HeardAtMost(heard', packet')
  <2>1. ASSUME NEW b \in Addresses
        PROVE  h2[b] <= IF packet'.from = b /\ packet'.reached THEN RECV_LIMIT ELSE RECV_LIMIT - 1
    <3>1. CASE b = a
      BY <1>10, <1>15, <3>1
    <3>2. CASE b # a
      BY <1>8, <1>9, <1>15, <3>2
    <3> QED
      BY <3>1, <3>2
  <2> QED
    BY <1>1, <2>1 DEF HeardAtMost
<1>18. todo' \in Seq(Calls) /\ Pending(todo')
  BY <1>1, PendingAfterRead
<1> QED
  BY <1>1, <1>8, <1>13, <1>14, <1>16, <1>17, <1>18 DEF IInv

\* the packet of a new address
LEMMA PacketFrom ==
    ASSUME NEW r \in Packets, NEW a \in Addresses
    PROVE  /\ [r EXCEPT !.from = a] \in Packets
           /\ [r EXCEPT !.from = a].from = a
           /\ [r EXCEPT !.from = a].slot = r.slot
           /\ [r EXCEPT !.from = a].reached = r.reached
BY DEF Packets, Receivers

\* A new address is appended, and r.sav is the last entry.
LEMMA ReadNewKeeps ==
    ASSUME IInv, NEW a \in Addresses, NEW f \in Seq(ForwardCalls), ReadNew(a, f)
    PROVE  IInv'
<1> DEFINE s == SocketOf(a)
           l == list[s]
           e == [addr |-> a, send |-> SEND_LIMIT, recv |-> RECV_LIMIT, time |-> Ticks(a)]
           none == [NoPacket EXCEPT !.from = a]
           longer == Append(l, e)
           new == SendTo(longer, a)
           u1 == [unanswered EXCEPT ![a] = 0]
           u2 == [unanswered EXCEPT ![a] = 1]
           h2 == [heard EXCEPT ![a] = 0]
<1>1. /\ todo = <<>> /\ ~Listed(a) /\ todo' = f \o AtTheEnd /\ routing' = routing
      /\ \/ packet' = none /\ list' = list /\ unanswered' = unanswered /\ heard' = heard
         \/ /\ list' = [list EXCEPT ![s] = new]
            /\ packet' = [none EXCEPT !.slot = Len(l) + 1, !.addr = a]
            /\ unanswered' = u2 /\ heard' = h2
  BY DEF ReadNew
<1>2. /\ unanswered \in Counts /\ heard \in Counts /\ SEND_LIMIT \in Nat /\ SEND_LIMIT > 1
      /\ RECV_LIMIT \in Nat /\ RECV_LIMIT # 0 /\ LOCAL_TICKS \in Nat /\ REMOTE_TICKS \in Nat
      /\ \A b \in Addresses : unanswered[b] \in Nat /\ heard[b] \in Nat
  BY SocketsAssumption DEF IInv, Counts
<1>3. ~packet.reached /\ ~AboutToTick(todo)
  BY <1>1, SavUnused DEF AboutToTick
<1>4. todo' \in Seq(Calls) /\ Pending(todo')
  BY <1>1, PendingAfterRead
<1>5. \A b \in Addresses : heard[b] <= RECV_LIMIT - 1 /\ unanswered[b] <= SEND_LIMIT
  BY <1>3, SentLimited DEF IInv, HeardAtMost
<1>6. routing' \subseteq RoutingPeers
  BY <1>1 DEF IInv
<1>7. none \in Packets /\ none.from = a /\ none.slot = 0 /\ none.reached = FALSE
  <2>1. NoPacket \in Packets /\ NoPacket.slot = 0 /\ NoPacket.reached = FALSE
    BY NoPacketKept DEF SavKept
  <2> QED
    BY <2>1, PacketFrom
<1> HIDE DEF none
<1>8. CASE packet' = none /\ list' = list /\ unanswered' = unanswered /\ heard' = heard
  <2>1. /\ packet' \in Packets /\ packet'.slot = 0 /\ ~packet'.reached
    BY <1>7, <1>8 DEF Packets, Receivers
  <2>2. SentAtMost(unanswered', todo')
    BY <1>2, <1>5, <1>8, SentEnough
  <2>3. HeardAtMost(heard', packet')
    BY <1>5, <1>8, <2>1 DEF HeardAtMost
  <2>4. ListsKept(list', unanswered', heard') /\ SavKept(list', packet')
    BY <1>8, <2>1 DEF IInv, SavKept
  <2>5. unanswered' \in Counts /\ heard' \in Counts
    BY <1>2, <1>8
  <2> QED
    BY <1>4, <1>6, <2>1, <2>2, <2>3, <2>4, <2>5 DEF IInv
<1>9. CASE /\ list' = [list EXCEPT ![s] = new]
           /\ packet' = [none EXCEPT !.slot = Len(l) + 1, !.addr = a]
           /\ unanswered' = u2 /\ heard' = h2
  <2>1. s \in Sockets /\ ListFor(s, l) /\ a \notin Addrs(l)
    BY <1>1, ListedIs
  <2>2. CountedIn(l, unanswered, heard) /\ Len(l) \in Nat
    BY <2>1 DEF IInv, ListsKept, ListFor
  <2>3. e \in Entry /\ e.addr = a /\ e.send = SEND_LIMIT /\ e.recv = RECV_LIMIT
    <3>1. Ticks(a) \in 0 .. (LOCAL_TICKS + REMOTE_TICKS)
      BY <1>2 DEF Ticks
    <3>2. SEND_LIMIT \in 1 .. SEND_LIMIT /\ RECV_LIMIT \in 0 .. RECV_LIMIT
      BY <1>2
    <3> QED
      BY <3>1, <3>2 DEF Entry
  <2>4. /\ u1 \in Counts /\ u1[a] = 0 /\ h2 \in Counts /\ h2[a] = 0
        /\ \A b \in Addresses \ {a} : u1[b] = unanswered[b] /\ h2[b] = heard[b]
        /\ u2 \in Counts /\ u2[a] = 1
        /\ \A b \in Addresses \ {a} : u2[b] = unanswered[b]
    BY <1>2 DEF Counts
  <2>5. SocketOf(a) = s
    OBVIOUS
  <2> HIDE DEF s, l, e, u1, u2, h2
  <2>6. /\ packet' \in Packets /\ packet'.from = a /\ packet'.slot = Len(l) + 1
        /\ packet'.addr = a /\ ~packet'.reached
    <3>1. Len(l) + 1 \in Nat
      BY <2>2
    <3> DEFINE r == [none EXCEPT !.slot = Len(l) + 1, !.addr = a]
    <3>2. r \in Packets /\ r.from = a /\ r.slot = Len(l) + 1 /\ r.addr = a /\ r.reached = FALSE
      BY <1>7, <3>1 DEF Packets, Receivers
    <3>3. packet' = r
      BY <1>9
    <3> HIDE DEF r
    <3> QED
      BY <3>2, <3>3
  <2>7. u1[a] + e.send = SEND_LIMIT /\ h2[a] + e.recv <= RECV_LIMIT
    BY <1>2, <2>3, <2>4
  <2>8. /\ ListFor(s, longer) /\ CountedIn(longer, u1, h2)
        /\ Len(longer) = Len(l) + 1 /\ longer[Len(l) + 1] = e
    <3>1. /\ e.addr \notin Addrs(l) /\ SocketOf(e.addr) = s
          /\ u1[e.addr] + e.send = SEND_LIMIT /\ h2[e.addr] + e.recv <= RECV_LIMIT
          /\ OthersSame(e.addr, unanswered, heard, u1, h2)
      BY <2>1, <2>3, <2>4, <2>5, <2>7 DEF OthersSame
    <3>2. longer = Append(l, e)
      OBVIOUS
    <3> HIDE DEF longer
    <3> QED
      <4>1. ListFor(s, longer)
        BY <2>1, <2>2, <2>3, <3>1, <3>2, AppendIs
      <4>2. CountedIn(longer, u1, h2)
        BY <2>1, <2>2, <2>3, <3>1, <3>2, AppendIs
      <4>3. Len(longer) = Len(l) + 1
        BY <2>1, <2>2, <2>3, <3>1, <3>2, AppendIs
      <4>4. longer[Len(l) + 1] = e
        BY <2>1, <2>2, <2>3, <3>1, <3>2, AppendIs
      <4> QED
        BY <4>1, <4>2, <4>3, <4>4
  <2> HIDE DEF longer
  <2>9. \A b \in Addresses : u2[b] = IF b = a THEN u1[b] + 1 ELSE u1[b]
    BY <2>4
  <2>10. /\ ListFor(s, new) /\ Thinned(longer, new) /\ CountedIn(new, u2, h2)
         /\ \A i \in DOMAIN longer :
               longer[i].addr # a \/ longer[i].send > 1 => longer[i].addr \in Addrs(new)
    BY <2>4, <2>8, <2>9, SendToIs
  <2> HIDE DEF new
  <2>11. Len(l) + 1 \in DOMAIN new /\ new[Len(l) + 1].addr = a
    <3>1. longer \in Seq(Entry) /\ OneEach(longer)
      BY <2>8 DEF ListFor
    <3>2. DOMAIN longer = 1 .. (Len(l) + 1) /\ Len(l) + 1 \in 1 .. (Len(l) + 1)
      BY <2>2, <2>8, <3>1
    <3>3. \A i \in 1 .. (Len(l) + 1) : longer[i].addr \in Addrs(new)
      <4>1. ASSUME NEW i \in DOMAIN longer, longer[i].addr = a PROVE longer[i].send > 1
        <5>1. i = Len(l) + 1
          BY <2>3, <2>8, <3>1, <3>2, <4>1 DEF OneEach
        <5> QED
          BY <1>2, <2>3, <2>8, <5>1
      <4> QED
        BY <2>10, <3>2, <4>1
    <3>4. Len(l) + 1 \in 0 .. Len(longer)
      BY <2>2, <2>8
    <3>5. StillFirst(longer, new, Len(l) + 1)
      BY <2>10, <3>3, <3>4 DEF Thinned
    <3> QED
      BY <2>3, <2>8, <3>2, <3>5 DEF StillFirst
  <2>12. \A b \in Addresses : SocketOf(b) # s => u2[b] = unanswered[b] /\ h2[b] = heard[b]
    BY <2>4, <2>5
  <2>13. ListsKept(list', unanswered', heard') /\ list'[s] = new
    <3>1. ListsKept([list EXCEPT ![s] = new], u2, h2) /\ [list EXCEPT ![s] = new][s] = new
      BY <2>1, <2>10, <2>12, OneListChanged
    <3> QED
      BY <1>9, <3>1
  <2>14. SavKept(list', packet') /\ ~packet'.reached
    <3>1. Len(l) + 1 # 0
      BY <2>2
    <3> QED
      BY <2>5, <2>6, <2>11, <2>13, <3>1 DEF SavKept
  <2>15. SentAtMost(unanswered', todo')
    <3>1. \A b \in Addresses : u2[b] <= SEND_LIMIT
      BY <1>2, <1>5, <2>4
    <3> QED
      BY <1>9, <2>4, <3>1, SentEnough
  <2>16. HeardAtMost(heard', packet')
    <3>1. \A b \in Addresses : h2[b] <= RECV_LIMIT - 1
      BY <1>2, <1>5, <2>4
    <3> QED
      BY <1>9, <2>14, <3>1 DEF HeardAtMost
  <2>17. unanswered' \in Counts /\ heard' \in Counts
    BY <1>9, <2>4
  <2> QED
    BY <1>4, <1>6, <2>13, <2>14, <2>15, <2>16, <2>17 DEF IInv
<1> QED
  BY <1>1, <1>8, <1>9

\* Whatever is read, the invariant is kept.
LEMMA ReceiveKeeps ==
    ASSUME IInv, NEW a \in Addresses, Receive(a)
    PROVE  IInv'
<1>1. CASE ReadInvalid(a)
  BY <1>1, ReadInvalidKeeps
<1>2. ASSUME NEW f \in Forwards(a), ReadNew(a, f) PROVE IInv'
  BY <1>2, ForwardsIs, ReadNewKeeps
<1>3. ASSUME NEW f \in Forwards(a), ReadKnown(a, a \in Local, f) PROVE IInv'
  <2>1. (a \in Local) \in BOOLEAN
    OBVIOUS
  <2> QED
    BY <1>3, <2>1, ForwardsIs, ReadKnownKeeps
<1>4. ASSUME ReadKnown(a, TRUE, <<>>) PROVE IInv'
  <2>1. <<>> \in Seq(ForwardCalls)
    OBVIOUS
  <2> QED
    BY <1>4, <2>1, ReadKnownKeeps
<1> QED
  BY <1>1, <1>2, <1>3, <1>4 DEF Receive

\* It holds at first,
LEMMA InitInv == Init => IInv
<1> SUFFICES ASSUME Init PROVE IInv
  OBVIOUS
<1>1. /\ list = [s \in Sockets |-> <<>>] /\ routing \subseteq RoutingPeers /\ todo = <<>>
      /\ packet = NoPacket /\ unanswered = [a \in Addresses |-> 0]
      /\ heard = [a \in Addresses |-> 0]
      /\ SEND_LIMIT \in Nat /\ RECV_LIMIT \in Nat /\ RECV_LIMIT # 0
  BY SocketsAssumption DEF Init
<1>2. unanswered \in Counts /\ heard \in Counts /\ todo \in Seq(Calls)
  BY <1>1 DEF Counts
<1>3. ListsKept(list, unanswered, heard)
  <2>1. ASSUME NEW s PROVE ListFor(s, <<>>) /\ CountedIn(<<>>, unanswered, heard)
    BY DEF ListFor, OneEach, CountedIn
  <2>2. list = [s \in Sockets |-> list[s]] /\ \A s \in Sockets : list[s] = <<>>
    BY <1>1
  <2> QED
    BY <2>1, <2>2 DEF ListsKept
<1>4. SavKept(list, packet) /\ ~(packet.slot > 0) /\ packet.reached = FALSE
  BY <1>1, NoPacketKept
<1>5. \A a \in Addresses : unanswered[a] = 0 /\ heard[a] = 0
  BY <1>1
<1>6. SentAtMost(unanswered, todo) /\ HeardAtMost(heard, packet)
  BY <1>1, <1>4, <1>5 DEF SentAtMost, HeardAtMost
<1> QED
  BY <1>1, <1>2, <1>3, <1>4, <1>6 DEF IInv

\* every step keeps it,
LEMMA NextInv == IInv /\ [Next]_vars => IInv'
<1> SUFFICES ASSUME IInv, [Next]_vars PROVE IInv'
  OBVIOUS
<1>1. ASSUME NEW a \in Addresses, Receive(a) PROVE IInv'
  BY <1>1, ReceiveKeeps
<1>2. CASE DhtProcess
  BY <1>2, DhtProcessKeeps
<1>3. CASE SendLocal
  BY <1>3, SendLocalKeeps
<1>4. CASE SendOut
  BY <1>4, SendOutKeeps
<1>5. CASE Answer
  BY <1>5, AnswerKeeps
<1>6. CASE Tick \/ Clock(FALSE)
  BY <1>6, ClockKeeps DEF Tick
<1>7. CASE UpdateDht
  BY <1>7, UpdateDhtKeeps
<1>8. CASE UNCHANGED vars
  BY <1>8 DEF vars, IInv
<1> QED
  BY <1>1, <1>2, <1>3, <1>4, <1>5, <1>6, <1>7, <1>8 DEF Next, Handle

\* and so it holds always.
LEMMA Invariant == Spec => []IInv
<1> QED
  BY InitInv, NextInv, PTL DEF Spec

-----------------------------------------------------------------------------
(* The theorems.                                                           *)

\* The lists are typed and hold no address twice, none with a send limit of 0,
\* and each for the socket of its kind, whatever sending deletes.
THEOREM TypeCorrect == Spec => []TypeOK
<1>1. ASSUME IInv PROVE TypeOK
  <2>1. /\ \A s \in Sockets : ListFor(s, list[s])
        /\ routing \subseteq RoutingPeers /\ packet \in Packets /\ todo \in Seq(Calls)
    BY <1>1 DEF IInv, ListsKept, SavKept
  <2>2. packet.from \in Addresses \cup {Nobody} /\ packet.addr \in Addresses \cup {Nobody}
    BY <2>1 DEF Packets, Receivers
  <2>3. \A i \in DOMAIN todo : todo[i].name \in
                 {"peers", "local", "out", "answer", "clock", "dht"}
    <3>1. \A i \in DOMAIN todo : todo[i] \in Calls
      BY <2>1
    <3>2. \A c \in Calls : c.name \in {"peers", "local", "out", "answer", "clock", "dht"}
      BY DEF Calls, CallNames, Forwarding
    <3> QED
      BY <3>1, <3>2
  <2>4. \A s \in Sockets :
          /\ list[s] \in Seq(Entry)
          /\ \A i \in DOMAIN list[s] : SocketOf(list[s][i].addr) = s
          /\ \A i, j \in DOMAIN list[s] : list[s][i].addr = list[s][j].addr => i = j
    BY <2>1 DEF ListFor, OneEach
  <2> QED
    BY <2>1, <2>2, <2>3, <2>4 DEF TypeOK
<1> QED
  BY <1>1, Invariant, PTL

\* No address is sent more packets that count than the send limit allows before
\* it is heard, but for one keepalive that goes astray, and the limit of a
\* listed address is what is left.
THEOREM SendsLimited == Spec => []SendLimited
<1>1. ASSUME IInv PROVE SendLimited
  <2>1. ASSUME NEW a \in Addresses
        PROVE  /\ unanswered[a] <= SEND_LIMIT + 1
               /\ Listed(a) =>
                     unanswered[a] + list[SocketOf(a)][Position(list[SocketOf(a)], a)].send
                        = SEND_LIMIT
    <3>1. unanswered[a] \in Nat /\ SEND_LIMIT \in Nat
      BY <1>1, SocketsAssumption DEF IInv, Counts
    <3>2. unanswered[a] <= IF AboutToTick(todo) THEN SEND_LIMIT + 1 ELSE SEND_LIMIT
      BY <1>1 DEF IInv, SentAtMost
    <3>3. unanswered[a] <= SEND_LIMIT + 1
      BY <3>1, <3>2
    <3> QED
      BY <1>1, <3>3, ListedIs
  <2> QED
    BY <2>1 DEF SendLimited
<1> QED
  BY <1>1, Invariant, PTL

\* A keepalive is sent to whoever is heard RECV_LIMIT times, unless the handling
\* of the packet deleted its address or one that is listed before it.
THEOREM KeepalivesSent == Spec => []KeepaliveEvery
<1>1. ASSUME IInv PROVE KeepaliveEvery
  <2>1. ASSUME NEW a \in Addresses
        PROVE  heard[a] <= IF packet.from = a THEN RECV_LIMIT ELSE RECV_LIMIT - 1
    <3>1. heard[a] \in Nat /\ RECV_LIMIT \in Nat
      BY <1>1, SocketsAssumption DEF IInv, Counts
    <3>2. heard[a] <= IF packet.from = a /\ packet.reached THEN RECV_LIMIT ELSE RECV_LIMIT - 1
      BY <1>1 DEF IInv, HeardAtMost
    <3> QED
      BY <3>1, <3>2
  <2> QED
    BY <2>1 DEF KeepaliveEvery
<1> QED
  BY <1>1, Invariant, PTL
=============================================================================
