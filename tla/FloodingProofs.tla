--------------------------- MODULE FloodingProofs ---------------------------
(***************************************************************************)
(* That a message or a trace request is forwarded at most once by each     *)
(* daemon, for every network, every hop limit and any number of packets.   *)
(***************************************************************************)
EXTENDS Flooding, TLAPS

Flooded == Messages \cup Traces
IdOf(p) == <<p, NoToken>>

\* A daemon that passed a packet on has it recorded, and so has the origin of
\* a packet that was ever sent.
Recorded ==
    \A p \in Flooded :
        /\ Sent(p) => IdOf(p) \in seen[Origin[p]]
        /\ \A f \in flying : f.packet = p => Sent(p)
        /\ \A n \in Nodes :
              /\ passed_on[n][p] \in {0, 1}
              /\ passed_on[n][p] = 1 => n # Origin[p] /\ IdOf(p) \in seen[n]

Shape ==
    /\ \A f \in flying : f.packet \in Packets /\ f.from \in Nodes /\ f.to \in Nodes
    /\ DOMAIN seen = Nodes
    /\ sends \in Seq(Packets)
    /\ passed_on \in [Nodes -> [Packets -> 0 .. 2]]

IInv == Shape /\ Recorded

LEMMA OriginIsNode == ASSUME NEW p \in Packets PROVE Origin[p] \in Nodes
  BY NetworkAssumption

\* A flooded packet has one identity, whatever the token.
LEMMA OneIdentity ==
  ASSUME NEW p \in Flooded, NEW token
  PROVE  /\ p \in Packets /\ p \notin Requests
         /\ Identity(p, token) = IdOf(p)
  BY NetworkAssumption DEF Flooded, Packets, Identity, IdOf

\* What send_out sends is the packet it was given, to other nodes.
LEMMA SentIsTheSame ==
  ASSUME NEW n \in Nodes, NEW p, NEW hops, NEW from, NEW f \in SendOut(n, p, hops, from)
  PROVE  f.packet = p /\ f.from = n /\ f.to \in Nodes
  BY NetworkAssumption DEF SendOut

LEMMA InitIInv == Init => IInv
  <1> SUFFICES ASSUME Init PROVE IInv
      OBVIOUS
  <1>1. Shape
        BY DEF Init, Shape
  <1>2. Recorded
        BY OriginIsNode, OneIdentity DEF Init, Recorded, Sent
  <1> QED BY <1>1, <1>2 DEF IInv

LEMMA SendKeepsIInv ==
  ASSUME IInv, NEW p \in Packets, SendLocal(p)
  PROVE  IInv'
  <1> DEFINE n == Origin[p]
  <1>0. n \in Nodes
        BY OriginIsNode
  <1>1. /\ sends' = Append(sends, p)
        /\ passed_on' = passed_on
        BY DEF SendLocal
  <1>2. \A g \in flying' : g \in flying \/ g \in SendOut(n, p, 0, n)
        BY DEF SendLocal
  <1>3. /\ DOMAIN seen' = Nodes
        /\ \A x \in Nodes : seen[x] \subseteq seen'[x]
        BY <1>0 DEF SendLocal, Record, IInv, Shape
  <1>4. p \in Flooded => IdOf(p) \in seen'[n]
        BY <1>0, OneIdentity DEF SendLocal, Record, IInv, Shape
  <1>5. Shape'
        BY <1>0, <1>1, <1>2, <1>3, SentIsTheSame DEF IInv, Shape
  <1>6. Recorded'
    <2> SUFFICES ASSUME NEW x \in Flooded
                 PROVE  /\ Sent(x)' => IdOf(x) \in seen'[Origin[x]]
                        /\ \A f \in flying' : f.packet = x => Sent(x)'
                        /\ \A y \in Nodes :
                              /\ passed_on'[y][x] \in {0, 1}
                              /\ passed_on'[y][x] = 1 => y # Origin[x] /\ IdOf(x) \in seen'[y]
        BY DEF Recorded
    <2>0. x \in Packets /\ Origin[x] \in Nodes
          BY OneIdentity, OriginIsNode
    <2>1. Sent(x)' => IdOf(x) \in seen'[Origin[x]]
          BY <1>1, <1>3, <1>4, <2>0 DEF IInv, Recorded, Shape, Sent
    <2>2. /\ Sent(x) => Sent(x)'
          /\ x = p => Sent(x)'
          BY <1>1, <2>0 DEF IInv, Shape, Sent
    <2>3. ASSUME NEW f \in flying', f.packet = x
          PROVE  Sent(x)'
      <3>1. CASE f \in flying
            BY <2>2, <2>3, <3>1 DEF IInv, Recorded
      <3>2. CASE f \in SendOut(n, p, 0, n)
        <4>1. f.packet = p
              BY <1>0, <3>2, SentIsTheSame
        <4> QED BY <2>2, <2>3, <4>1
      <3> QED BY <1>2, <2>3, <3>1, <3>2
    <2>4. \A y \in Nodes :
             /\ passed_on'[y][x] \in {0, 1}
             /\ passed_on'[y][x] = 1 => y # Origin[x] /\ IdOf(x) \in seen'[y]
          BY <1>1, <1>3 DEF IInv, Recorded
    <2> QED BY <2>1, <2>3, <2>4
  <1> QED BY <1>5, <1>6 DEF IInv

LEMMA ReceiveKeepsIInv ==
  ASSUME IInv, NEW f \in flying, Receive(f)
  PROVE  IInv'
  <1> DEFINE n == f.to
             p == f.packet
             Fresh == Identity(p, f.token) \notin seen[n]
  <1>0. n \in Nodes /\ p \in Packets
        BY DEF IInv, Shape
  <1>1. sends' = sends
        BY DEF Receive
  <1>2. \A g \in flying' : g \in flying \/ g \in SendOut(n, p, f.hops + 1, f.from)
        BY DEF Receive
  <1>3. /\ DOMAIN seen' = Nodes
        /\ \A x \in Nodes : seen[x] \subseteq seen'[x]
        BY <1>0 DEF Receive, Record, IInv, Shape
  <1>4. passed_on' = IF Fresh THEN [passed_on EXCEPT ![n][p] = OneMore(@)] ELSE passed_on
        BY DEF Receive
  <1>5. Fresh /\ p \in Flooded => IdOf(p) \in seen'[n] /\ IdOf(p) \notin seen[n]
        BY <1>0, OneIdentity DEF Receive, Record, IInv, Shape
  <1>6. Shape'
        BY <1>0, <1>1, <1>2, <1>3, <1>4, SentIsTheSame DEF IInv, Shape, OneMore
  <1>7. Recorded'
    <2> SUFFICES ASSUME NEW x \in Flooded
                 PROVE  /\ Sent(x)' => IdOf(x) \in seen'[Origin[x]]
                        /\ \A g \in flying' : g.packet = x => Sent(x)'
                        /\ \A y \in Nodes :
                              /\ passed_on'[y][x] \in {0, 1}
                              /\ passed_on'[y][x] = 1 => y # Origin[x] /\ IdOf(x) \in seen'[y]
        BY DEF Recorded
    <2>0. x \in Packets /\ Origin[x] \in Nodes
          BY OneIdentity, OriginIsNode
    <2>1. Sent(x)' => IdOf(x) \in seen'[Origin[x]]
          BY <1>1, <1>3, <2>0 DEF IInv, Recorded, Sent
    <2>2. \A g \in flying' : g.packet = x => Sent(x)'
          BY <1>0, <1>1, <1>2, SentIsTheSame DEF IInv, Recorded, Sent
    <2>3. ASSUME NEW y \in Nodes
          PROVE  /\ passed_on'[y][x] \in {0, 1}
                 /\ passed_on'[y][x] = 1 => y # Origin[x] /\ IdOf(x) \in seen'[y]
      <3>1. CASE Fresh /\ y = n /\ x = p
        \* the origin has recorded what it sent, and p was not recorded here
        <4>1. IdOf(x) \notin seen[n] /\ IdOf(x) \in seen'[n]
              BY <1>5, <3>1
        <4>2. passed_on[n][x] = 0 /\ n # Origin[x]
              BY <1>0, <3>1, <4>1 DEF IInv, Recorded
        <4>3. passed_on'[n][x] = 1
              BY <1>0, <1>4, <3>1, <4>2 DEF IInv, Shape, OneMore
        <4> QED BY <3>1, <4>1, <4>2, <4>3
      <3>2. CASE ~ (Fresh /\ y = n /\ x = p)
        <4>1. passed_on'[y][x] = passed_on[y][x]
              BY <1>0, <1>4, <2>0, <3>2 DEF IInv, Shape
        <4> QED BY <1>3, <4>1 DEF IInv, Recorded
      <3> QED BY <3>1, <3>2
    <2> QED BY <2>1, <2>2, <2>3
  <1> QED BY <1>6, <1>7 DEF IInv

LEMMA NextKeepsIInv == IInv /\ [Next]_vars => IInv'
  <1> SUFFICES ASSUME IInv, [Next]_vars PROVE IInv'
      OBVIOUS
  <1>1. ASSUME NEW p \in Packets, SendLocal(p) PROVE IInv'
        BY <1>1, SendKeepsIInv
  <1>2. CASE ReceiveAny
        BY <1>2, ReceiveKeepsIInv DEF ReceiveAny
  <1>3. ASSUME NEW f \in flying, Lose(f) PROVE IInv'
        BY <1>3 DEF Lose, IInv, Shape, Recorded, Sent
  <1>4. ASSUME NEW n \in Nodes, NewToken(n) PROVE IInv'
        BY <1>4 DEF NewToken, IInv, Shape, Recorded, Sent
  <1>5. CASE UNCHANGED vars
        BY <1>5 DEF vars, IInv, Shape, Recorded, Sent
  <1> QED BY <1>1, <1>2, <1>3, <1>4, <1>5 DEF Next

\* A daemon forwards a message, or a trace request, from outside at most once,
\* and never one of its own: process_message and pcache_trace_request drop
\* what was seen before, in every network and for every order of arrival.
THEOREM EachFloodedOnce == Spec => []FloodedOnce
  <1>1. IInv => FloodedOnce
        BY OneIdentity DEF IInv, Recorded, Shape, FloodedOnce, PassedOnOnce, Flooded
  <1> QED BY <1>1, InitIInv, NextKeepsIInv, PTL DEF Spec
-----------------------------------------------------------------------------
(* Types.  That what is in flight has hops left is part of them: the hops  *)
(* are counted on every receipt, and send_out compares them with the limit. *)

Flight(f) ==
    /\ f.packet \in Packets /\ f.token \in AnyToken
    /\ f.hops \in 0 .. MaxHops[f.packet] - 1
    /\ f.from \in Nodes /\ f.to \in Nodes

\* What a node puts into its packets is a token.
LEMMA TokenFromType ==
  ASSUME TypeOK, NEW n \in Nodes, NEW p
  PROVE  TokenFrom(n, p) \in AnyToken
  BY DEF TypeOK, TokenFrom, NodeToken, NoToken, AnyToken

\* send_out sends only what has hops left.
LEMMA SendOutType ==
  ASSUME TypeOK, NEW n \in Nodes, NEW p \in Packets, NEW hops \in Nat, NEW from,
         NEW f \in SendOut(n, p, hops, from)
  PROVE  Flight(f)
  <1>1. TokenFrom(n, p) \in AnyToken
        BY TokenFromType
  <1>2. MaxHops[p] \in Nat
        BY NetworkAssumption
  <1>3. /\ ~ hops >= MaxHops[p]
        /\ \E m \in (Neighbors[n] \ {from}) \cup DhtPeers[n] :
              f = [packet |-> p, token |-> TokenFrom(n, p), hops |-> hops,
                   from |-> n, to |-> m]
        BY DEF SendOut
  <1>4. hops \in 0 .. MaxHops[p] - 1
        BY <1>2, <1>3
  <1> QED BY <1>1, <1>3, <1>4, SentIsTheSame DEF Flight

LEMMA RecordType ==
  ASSUME TypeOK, NEW n \in Nodes, NEW p \in Packets, NEW is_local,
         Record(n, p, is_local)
  PROVE  seen' \in [Nodes -> SUBSET (Packets \X AnyToken)]
  <1>1. Identity(p, TokenFrom(n, p)) \in Packets \X AnyToken
        BY TokenFromType DEF Identity, AnyToken
  <1> QED BY <1>1 DEF Record, TypeOK

LEMMA SendLocalType ==
  ASSUME TypeOK, NEW p \in Packets, SendLocal(p)
  PROVE  TypeOK'
  <1>1. Origin[p] \in Nodes /\ MAX_SENDS \in Nat
        BY NetworkAssumption
  <1>2. sends' \in Seq(Packets) /\ Len(sends') <= MAX_SENDS
    <2>1. /\ sends \in Seq(Packets) /\ Len(sends) \in Nat /\ Len(sends) < MAX_SENDS
          /\ sends' = Append(sends, p)
          BY DEF SendLocal, TypeOK
    <2>2. Len(sends') = Len(sends) + 1 /\ sends' \in Seq(Packets)
          BY <2>1
    <2> QED BY <1>1, <2>1, <2>2
  <1>3. seen' \in [Nodes -> SUBSET (Packets \X AnyToken)]
        BY <1>1, RecordType DEF SendLocal, TypeOK
  <1>4. \A f \in flying' : Flight(f)
        BY <1>1, SendOutType DEF SendLocal, TypeOK, Flight
  <1> QED BY <1>2, <1>3, <1>4 DEF SendLocal, TypeOK, Flight

LEMMA ReceiveType ==
  ASSUME TypeOK, NEW f \in flying, Receive(f)
  PROVE  TypeOK'
  <1>1. f.to \in Nodes /\ f.packet \in Packets /\ f.hops + 1 \in Nat
    <2>1. /\ f.to \in Nodes /\ f.packet \in Packets
          /\ f.hops \in 0 .. MaxHops[f.packet] - 1
          BY DEF TypeOK
    <2>2. MaxHops[f.packet] \in Nat
          BY <2>1, NetworkAssumption
    <2>3. f.hops \in Nat
          BY <2>1, <2>2
    <2> QED BY <2>1, <2>3
  <1>2. seen' \in [Nodes -> SUBSET (Packets \X AnyToken)]
        BY <1>1, RecordType DEF Receive, TypeOK
  <1>3. \A g \in flying' : Flight(g)
        BY <1>1, SendOutType DEF Receive, TypeOK, Flight
  <1>4. passed_on' \in [Nodes -> [Packets -> 0 .. 2]]
    <2>1. passed_on \in [Nodes -> [Packets -> 0 .. 2]]
          BY DEF TypeOK
    <2>2. \A count \in 0 .. 2 : OneMore(count) \in 0 .. 2
          BY DEF OneMore
    <2>3. OneMore(passed_on[f.to][f.packet]) \in 0 .. 2
          BY <1>1, <2>1, <2>2
    <2>4. \/ passed_on' = passed_on
          \/ passed_on' = [passed_on EXCEPT ![f.to][f.packet] =
                               OneMore(passed_on[f.to][f.packet])]
          BY DEF Receive
    <2> HIDE DEF OneMore
    <2> QED BY <1>1, <2>1, <2>3, <2>4
  <1>5. UNCHANGED <<local_token, sends, losses>>
        BY DEF Receive
  <1> QED BY <1>2, <1>3, <1>4, <1>5 DEF TypeOK, Flight

LEMMA NextType == TypeOK /\ [Next]_vars => TypeOK'
  <1> SUFFICES ASSUME TypeOK, [Next]_vars PROVE TypeOK'
      OBVIOUS
  <1>1. CASE \E p \in Packets : SendLocal(p)
        BY <1>1, SendLocalType
  <1>2. CASE ReceiveAny
        BY <1>2, ReceiveType DEF ReceiveAny
  <1>3. ASSUME NEW f \in flying, Lose(f) PROVE TypeOK'
    <2>1. losses' \in 0 .. MAX_LOSSES
          BY <1>3, NetworkAssumption DEF Lose, TypeOK
    <2> QED BY <1>3, <2>1 DEF Lose, TypeOK
  <1>4. ASSUME NEW n \in Nodes, NewToken(n) PROVE TypeOK'
    <2>1. local_token[n] + 1 \in 0 .. MAX_GCS
          BY <1>4, NetworkAssumption DEF NewToken, TypeOK
    <2>2. local_token' \in [Nodes -> 0 .. MAX_GCS]
          BY <1>4, <2>1 DEF NewToken, TypeOK
    <2> QED BY <1>4, <2>2 DEF NewToken, TypeOK
  <1>5. CASE UNCHANGED vars
        BY <1>5 DEF vars, TypeOK
  <1> QED BY <1>1, <1>2, <1>3, <1>4, <1>5 DEF Next

\* Every variable has its type, in every network: in particular a copy in
\* flight has fewer hops left than its packet was sent with.
THEOREM TypeCorrect == Spec => []TypeOK
  <1>1. Init => TypeOK
        BY NetworkAssumption DEF Init, TypeOK
  <1> QED BY <1>1, NextType, PTL DEF Spec
=============================================================================
