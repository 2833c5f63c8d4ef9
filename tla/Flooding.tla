------------------------------ MODULE Flooding ------------------------------
(***************************************************************************)
(* A network of AllNet daemons that flood packets to each other, ad.c:     *)
(* what one daemon forwards (process_message, process_mgmt, send_out) is   *)
(* received, in any order or not at all, by the daemons it is sent to.     *)
(*                                                                         *)
(* A daemon drops a packet that comes from outside and was seen before.    *)
(* The identity of a message is its message id, that of a trace request    *)
(* its trace id.  A data request has neither: its identity is the hash of  *)
(* its contents, among them the token of the system that sent it last.     *)
(* The packet caches are far from full here: nothing ages.                 *)
(***************************************************************************)
EXTENDS Integers, Sequences

CONSTANTS
    Nodes,
    Neighbors,      \* the addresses a node's sockets send to (socket_send_out)
    DhtPeers,       \* the addresses routing_top_dht_matches returns
    Messages, Requests, Traces,     \* the packets, by kind
    Origin,         \* the node whose local program sends the packet
    MaxHops,        \* the max_hops of the packet
    MAX_SENDS,      \* bound on the packets that programs send
    MAX_GCS,        \* a node may change its token until one did so
                    \* MAX_GCS times
    MAX_LOSSES      \* bound on the packets that are lost

Packets == Messages \cup Requests \cup Traces

ASSUME NetworkAssumption ==
    /\ Neighbors \in [Nodes -> SUBSET Nodes]
    /\ DhtPeers \in [Nodes -> SUBSET Nodes]
    /\ Origin \in [Packets -> Nodes]
    /\ MaxHops \in [Packets -> 1 .. 254]
    /\ MAX_SENDS \in Nat /\ MAX_GCS \in Nat /\ MAX_LOSSES \in Nat
    /\ Messages \cap Requests = {} /\ Messages \cap Traces = {}
    /\ Requests \cap Traces = {}

VARIABLES
    flying,         \* packets sent and neither received nor lost
    seen,           \* per node, the identities in its Bloom filters and cache
    local_token,    \* per node, the number of times it drew a new token
    sends,          \* the packets that programs sent, in order
    losses,         \* the number of packets lost
    passed_on       \* history: how often each node forwarded a copy, received
                    \* from outside, of each packet: 0, 1, or 2 for more

vars == <<flying, seen, local_token, sends, losses, passed_on>>

-----------------------------------------------------------------------------
(* Tokens and identities (pcache_message_id, pcache_trace_request).        *)

ProgramToken == <<"program", 0>>
NoToken == <<"none", 0>>
NodeToken(n) == <<n, local_token[n]>>
AnyToken == {ProgramToken, NoToken} \cup (Nodes \X (0 .. MAX_GCS))

\* the token a packet leaves n with: a request has that of its last sender
TokenFrom(n, p) == IF p \in Requests THEN NodeToken(n) ELSE NoToken

Identity(p, token) == <<p, IF p \in Requests THEN token ELSE NoToken>>

\* send_out: what is sent if the hops permit, to the sockets' addresses except
\* the one the packet came from, and to the addresses of the routing table.
SendOutForever(n, p, hops, from) ==         \* mutant: a request starts over
    LET h == IF p \in Requests /\ hops >= MaxHops[p] THEN 1 ELSE hops
    IN  IF h >= MaxHops[p] THEN {}
        ELSE {[packet |-> p, token |-> TokenFrom(n, p), hops |-> h, from |-> n, to |-> m] :
                 m \in (Neighbors[n] \ {from}) \cup DhtPeers[n]}
SendOutMore(n, p, hops, from) ==            \* mutant: one hop too many
    IF hops > MaxHops[p] THEN {}
    ELSE {[packet |-> p, token |-> TokenFrom(n, p), hops |-> hops, from |-> n, to |-> m] :
             m \in (Neighbors[n] \ {from}) \cup DhtPeers[n]}
SendOutLess(n, p, hops, from) ==            \* mutant: one hop too few
    IF hops + 1 >= MaxHops[p] THEN {}
    ELSE {[packet |-> p, token |-> TokenFrom(n, p), hops |-> hops, from |-> n, to |-> m] :
             m \in (Neighbors[n] \ {from}) \cup DhtPeers[n]}
SendOut(n, p, hops, from) ==
    IF hops >= MaxHops[p] THEN {}
    ELSE {[packet |-> p, token |-> TokenFrom(n, p), hops |-> hops, from |-> n, to |-> m] :
             m \in (Neighbors[n] \ {from}) \cup DhtPeers[n]}

\* did the program at the origin send p yet?
Sent(p) == \E i \in DOMAIN sends : sends[i] = p

OneMore(count) == IF count = 2 THEN 2 ELSE count + 1

-----------------------------------------------------------------------------
(* The daemon at n: it records the packet that it forwards, with its own    *)
(* token in it, not the one it received.                                    *)

RecordUnlessLocal(n, p, is_local) ==        \* mutant: own packets are not kept
    seen' = IF is_local THEN seen
            ELSE [seen EXCEPT ![n] = @ \cup {Identity(p, TokenFrom(n, p))}]
Record(n, p, is_local) ==
    seen' = [seen EXCEPT ![n] = @ \cup {Identity(p, TokenFrom(n, p))}]

\* A local program sends p.  One that was seen before is forwarded again,
\* unless it is a trace request.
SendLocal(p) ==
    LET n == Origin[p]
    IN  /\ Len(sends) < MAX_SENDS
        /\ sends' = Append(sends, p)
        /\ IF p \in Traces /\ Identity(p, ProgramToken) \in seen[n]
           THEN UNCHANGED <<flying, seen>>
           ELSE /\ Record(n, p, TRUE)
                /\ flying' = flying \cup SendOut(n, p, 0, n)
        /\ UNCHANGED <<local_token, losses, passed_on>>

\* A packet comes from outside: dropped if it was seen before.
Receive(f) ==
    LET n == f.to
        p == f.packet
    IN  /\ f \in flying
        /\ IF Identity(p, f.token) \in seen[n]
           THEN /\ flying' = flying \ {f}
                /\ UNCHANGED <<seen, passed_on>>
           ELSE /\ Record(n, p, FALSE)
                /\ flying' = (flying \ {f}) \cup SendOut(n, p, f.hops + 1, f.from)
                /\ passed_on' = [passed_on EXCEPT ![n][p] = OneMore(@)]
        /\ UNCHANGED <<local_token, sends, losses>>

Lose(f) ==
    /\ f \in flying /\ losses < MAX_LOSSES
    /\ flying' = flying \ {f}
    /\ losses' = losses + 1
    /\ UNCHANGED <<seen, local_token, sends, passed_on>>

\* a garbage collection in the packet cache of n
NewToken(n) ==
    /\ \A k \in Nodes : local_token[k] < MAX_GCS
    /\ local_token' = [local_token EXCEPT ![n] = @ + 1]
    /\ UNCHANGED <<flying, seen, sends, losses, passed_on>>

Init ==
    /\ flying = {}
    /\ seen = [n \in Nodes |-> {}]
    /\ local_token = [n \in Nodes |-> 0]
    /\ sends = <<>>
    /\ losses = 0
    /\ passed_on = [n \in Nodes |-> [p \in Packets |-> 0]]

ReceiveAny == \E f \in flying : Receive(f)

Next ==
    \/ \E p \in Packets : SendLocal(p)
    \/ ReceiveAny
    \/ \E f \in flying : Lose(f)
    \/ \E n \in Nodes : NewToken(n)

Spec == Init /\ [][Next]_vars

\* allnet_daemon_loop reads what arrives, one packet after the other
FairSpec == Spec /\ WF_vars(ReceiveAny)

-----------------------------------------------------------------------------
(* Properties.                                                             *)

\* Every variable has its type; what is in flight has hops left.
TypeOK ==
    /\ \A f \in flying :
          /\ f.packet \in Packets /\ f.token \in AnyToken
          /\ f.hops \in 0 .. MaxHops[f.packet] - 1
          /\ f.from \in Nodes /\ f.to \in Nodes
    /\ seen \in [Nodes -> SUBSET (Packets \X AnyToken)]
    /\ local_token \in [Nodes -> 0 .. MAX_GCS]
    /\ sends \in Seq(Packets) /\ Len(sends) <= MAX_SENDS
    /\ losses \in 0 .. MAX_LOSSES
    /\ passed_on \in [Nodes -> [Packets -> 0 .. 2]]

PassedOnOnce(p) ==
    \A n \in Nodes : passed_on[n][p] <= IF n = Origin[p] THEN 0 ELSE 1

\* Whatever the network looks like, a daemon forwards a message, or a trace
\* request, that comes from outside at most once, and one of its own that comes
\* back not at all (ad.c:653, "we have seen it before, drop the message").
FloodedOnce == \A p \in Messages \cup Traces : PassedOnOnce(p)

\* The same for data requests: their random padding "allows us to distinguish
\* retransmitted and looped packets from new transmissions" (packet.h:387).
\* The code does not: it records the hash of the request with its own token in
\* it, and compares with that of the request it receives.
RequestsFloodedOnce == \A p \in Requests : PassedOnOnce(p)

\* Every flood ends, also that of a request that is not recognized when it
\* comes back: hops is counted on every receipt (packet.h:74).
FloodEnds == <>[](flying = {})

\* A message that no hop limit can stop reaches every daemon if nothing is
\* lost, whatever the order in which its copies arrive.
EveryoneReached ==
    [](losses = 0) =>
        \A p \in Messages : Sent(p) ~>
            \A n \in Nodes \ {Origin[p]} : passed_on[n][p] > 0
=============================================================================
