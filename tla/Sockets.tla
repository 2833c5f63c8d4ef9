------------------------------ MODULE Sockets -------------------------------
(***************************************************************************)
(* The addresses a daemon sends to: the socket set (lib/sockets.c) and     *)
(* what the daemon's loop does to it for every packet it reads (ad.c,      *)
(* allnet_daemon_loop).  One thread does all of this; the hard part is     *)
(* that r.sav, found when a packet is read, is a pointer into the array    *)
(* of addresses of its socket, and that sending, for the same packet, may  *)
(* delete addresses and compact that array before r.sav is used again.     *)
(*                                                                         *)
(* An address is local (a program on this device) or outside, and is       *)
(* listed for one socket, that of its kind.  Broadcast sockets, whose      *)
(* addresses have no limits and are deleted and added again by every tick  *)
(* of the virtual clock, are left out.  So is what is never counted:       *)
(* replies to a sender and routing table packets (socket_send_to_ip), and  *)
(* the keepalives that the clock sends to everyone.                        *)
(***************************************************************************)
EXTENDS Integers, Sequences, SequencesExt

CONSTANTS
    Local, Outside,         \* the addresses
    RoutingPeers,           \* the outside addresses that may be in the
                            \* routing table
    SEND_LIMIT, RECV_LIMIT, \* SEND_LIMIT_DEFAULT, RECV_LIMIT_DEFAULT
    LOCAL_TICKS, REMOTE_TICKS,  \* how long an address is valid, in ticks
    Constrained             \* ALLNET_RESOURCE_CONSTRAINED: no DHT updates

Addresses == Local \cup Outside

ASSUME SocketsAssumption ==
    /\ Local \cap Outside = {} /\ RoutingPeers \subseteq Outside
    /\ SEND_LIMIT \in Nat /\ SEND_LIMIT > 1
    /\ RECV_LIMIT \in Nat \ {0}
    /\ LOCAL_TICKS \in Nat /\ REMOTE_TICKS \in Nat
    /\ Constrained \in BOOLEAN

VARIABLES
    list,           \* per socket, its send_addrs; time is time_limit minus
                    \* the virtual clock
    routing,        \* the addresses that are in the routing table
    packet,         \* the packet that is handled (r), or NoPacket
    todo,           \* the calls its handling still has to make
    unanswered,     \* history: packets counted since the send limit was set
    heard           \* history: valid packets from an address since it was
                    \* last sent a keepalive for them

vars == <<list, routing, packet, todo, unanswered, heard>>

Sockets == {"local", "outside"}
SocketOf(a) == IF a \in Local THEN "local" ELSE "outside"
Ticks(a) == IF a \in Local THEN LOCAL_TICKS ELSE REMOTE_TICKS

Entry == [addr : Addresses, send : 1 .. SEND_LIMIT, recv : 0 .. RECV_LIMIT,
          time : 0 .. (LOCAL_TICKS + REMOTE_TICKS)]

Nobody == "nobody"
NoPacket == [from |-> Nobody, reached |-> FALSE, slot |-> 0, addr |-> Nobody, gone |-> FALSE]
Call(name, except) == [name |-> name, except |-> except]

Position(l, a) == LET at == {i \in DOMAIN l : l[i].addr = a}
                  IN  IF at = {} THEN 0 ELSE CHOOSE i \in at : TRUE
Listed(a) == Position(list[SocketOf(a)], a) > 0

-----------------------------------------------------------------------------
(* The array of addresses of a socket.                                     *)

\* What is left of l when only the slots in kept are: the nth of them becomes
\* slot n.
Compacted(l, kept) ==
    [n \in 1 .. Cardinality(kept) |->
        l[CHOOSE i \in kept : Cardinality({j \in kept : j <= i}) = n]]

\* socket_addr_loop: the entries that f changes and keeps, in their order.
AddrLoop(l, F(_), Keep(_)) ==
    Compacted([i \in DOMAIN l |-> F(l[i])], {i \in DOMAIN l : Keep(F(l[i]))})

Always(e) == TRUE
NoChange(e) == e

\* What r.sav points to when its array, old, becomes new: the slots behind the
\* entries that are left still hold the entry that was the last.
SavAfter(p, old, new) ==
    IF p.slot = 0 THEN p
    ELSE [p EXCEPT
            !.addr = CASE p.slot <= Len(new) -> new[p.slot].addr
                       [] p.slot > Len(new) /\ p.slot <= Len(old) -> Last(old).addr
                       [] OTHER -> @,
            !.gone = @ \/ \E i \in 1 .. p.slot :
                             i <= Len(old) /\ Position(new, old[i].addr) = 0]

\* The lists become new.
SetLists(new) ==
    /\ list' = new
    /\ packet' = IF packet = NoPacket THEN packet
                 ELSE LET s == SocketOf(packet.from)
                      IN  SavAfter(packet, list[s], new[s])

\* A packet to a is counted: the address is deleted when none is left
\* (socket_send_fun, socket_dec_send_limit).
Counted(e) == [e EXCEPT !.send = @ - 1]
LeftAtZero(e) == e.send >= 0                \* mutant: one packet too late
Left(e) == e.send # 0

\* update_read, for a listed address: an authenticated packet renews the limit.
ReadAnything(e, auth) ==                    \* mutant: by any packet
    [e EXCEPT !.recv = IF @ >= 1 THEN @ - 1 ELSE @, !.send = SEND_LIMIT]
Read(e, auth) ==
    [e EXCEPT !.recv = IF @ >= 1 THEN @ - 1 ELSE @,
              !.send = IF auth THEN SEND_LIMIT ELSE @]

\* is it time for a keepalive?
ReachedExactly(before, after) == before.recv = 1    \* mutant: not if it was
Reached(before, after) == after.recv = 0            \* time before

\* socket_send_to: a keepalive to a, and one packet less that may follow it
SendTo(l, a) ==
    AddrLoop(l, LAMBDA e : IF e.addr = a THEN Counted(e) ELSE e, Left)

\* socket_update_recv_limit: the receive limit of a starts again
UpdateRecvLimit(l, a) ==
    AddrLoop(l, LAMBDA e : IF e.addr = a THEN [e EXCEPT !.recv = RECV_LIMIT] ELSE e,
             Always)

-----------------------------------------------------------------------------
(* What is called to forward a packet: nothing, or socket_send_local and    *)
(* send_out.  A trace request is first answered, to everybody if it does    *)
(* not come from this device, and a DHT packet goes into the routing table  *)
(* (process_mgmt).                                                         *)

Forwards(a) ==
    LET all == <<Call("local", a), Call("out", a)>>
        reply == <<Call("local", Nobody)>>
        reply_out == reply \o <<Call("out", Nobody)>>
        replies == {reply} \cup (IF a \in Local THEN {} ELSE {reply_out})
    IN  {<<>>, all, <<Call("peers", Nobody)>> \o all}
            \cup replies \cup {r \o all : r \in replies}

AtTheEnd == <<Call("answer", Nobody), Call("clock", Nobody), Call("dht", Nobody)>>

\* An invalid packet is counted as received, and that is all.
ReadInvalid(a) ==
    /\ todo = <<>> /\ Listed(a)
    /\ LET s == SocketOf(a)
       IN  list' = [list EXCEPT ![s][Position(list[s], a)] = Read(@, a \in Local)]
    /\ unanswered' = IF a \in Local THEN [unanswered EXCEPT ![a] = 0] ELSE unanswered
    /\ UNCHANGED <<routing, packet, todo, heard>>

\* add_received_address: a new address is listed unless the routing table has
\* it, and gets a keepalive.
ReadNew(a, forwards) ==
    /\ todo = <<>> /\ ~Listed(a)
    /\ LET s == SocketOf(a)
           entry == [addr |-> a, send |-> SEND_LIMIT, recv |-> RECV_LIMIT,
                     time |-> Ticks(a)]
           none == [NoPacket EXCEPT !.from = a]
       IN  IF a \in routing
           THEN /\ packet' = none
                /\ UNCHANGED <<list, unanswered, heard>>
           ELSE /\ list' = [list EXCEPT ![s] = SendTo(Append(@, entry), a)]
                /\ packet' = [none EXCEPT !.slot = Len(list[s]) + 1, !.addr = a]
                /\ unanswered' = [unanswered EXCEPT ![a] = 1]
                /\ heard' = [heard EXCEPT ![a] = 0]
    /\ todo' = forwards \o AtTheEnd
    /\ UNCHANGED routing

\* update_read, and the time limit starts again
ReadKnown(a, auth, forwards) ==
    /\ todo = <<>> /\ Listed(a)
    /\ LET s == SocketOf(a)
           i == Position(list[s], a)
           entry == [Read(list[s][i], auth) EXCEPT !.time = Ticks(a)]
       IN  /\ list' = [list EXCEPT ![s][i] = entry]
           /\ packet' = [from |-> a, reached |-> Reached(list[s][i], entry), slot |-> i,
                         addr |-> a, gone |-> FALSE]
    /\ unanswered' = IF auth THEN [unanswered EXCEPT ![a] = 0] ELSE unanswered
    /\ heard' = [heard EXCEPT ![a] = @ + 1]
    /\ todo' = forwards \o AtTheEnd
    /\ UNCHANGED routing

\* On a local socket every packet counts as authenticated.  On the others only
\* an authenticated keepalive does, and that is not forwarded.
Receive(a) ==
    \/ ReadInvalid(a)
    \/ \E forwards \in Forwards(a) :
          \/ ReadNew(a, forwards)
          \/ ReadKnown(a, a \in Local, forwards)
    \/ a \in Outside /\ ReadKnown(a, TRUE, <<>>)

-----------------------------------------------------------------------------
(* The calls.                                                              *)

Step(name) ==
    /\ todo # <<>> /\ Head(todo).name = name
    /\ todo' = Tail(todo)

\* The packets counted by sending to all addresses of a socket but one, and
\* the entries left: sending to those in failing fails, and deletes them.
SentToAll(s, except, failing) ==
    [a \in Addresses |->
        IF /\ SocketOf(a) = s /\ Listed(a) /\ a # except /\ a \notin failing
        THEN unanswered[a] + 1 ELSE unanswered[a]]
AfterSending(l, except, failing) ==
    AddrLoop(l, LAMBDA e : IF e.addr = except \/ e.addr \in failing THEN e
                           ELSE Counted(e),
             LAMBDA e : e.addr = except \/ (e.addr \notin failing /\ Left(e)))

\* dht_process: the packet may change the routing table in any way.
DhtProcess ==
    /\ Step("peers")
    /\ routing' \in SUBSET RoutingPeers
    /\ UNCHANGED <<list, packet, unanswered, heard>>

\* socket_send_local
SendLocal ==
    /\ Step("local")
    /\ LET except == Head(todo).except
       IN  \E failing \in SUBSET Local :
              /\ SetLists([list EXCEPT !["local"] = AfterSending(@, except, failing)])
              /\ unanswered' = SentToAll("local", except, failing)
    /\ UNCHANGED <<routing, heard>>

\* routing_expire_dht: it deletes the addresses of the peers it expires.
Expired(lists, peers) ==
    [lists EXCEPT !["outside"] = AddrLoop(@, NoChange, LAMBDA e : e.addr \notin peers)]

\* send_out: nothing if the packet has no hops left; else it is sent to all
\* outside addresses, and routing peers may expire if sending to one failed.
SendOut ==
    /\ Step("out")
    /\ LET except == Head(todo).except
       IN  \/ UNCHANGED <<list, packet, unanswered, routing>>
           \/ \E failing \in SUBSET Outside, peers \in SUBSET routing :
                 /\ SetLists(Expired([list EXCEPT !["outside"] =
                                          AfterSending(@, except, failing)], peers))
                 /\ unanswered' = SentToAll("outside", except, failing)
                 /\ routing' = routing \ peers
    /\ UNCHANGED heard

\* The end of the loop's body for a packet: if the receive limit of its sender
\* was reached, it starts again and a keepalive is sent to what r.sav is now.
Answer ==
    /\ Step("answer")
    /\ LET from == packet.from
           to == packet.addr
           s == SocketOf(from)
       IN  IF packet.reached
           THEN /\ list' = [list EXCEPT ![s] = SendTo(UpdateRecvLimit(@, from), to)]
                /\ unanswered' = [unanswered EXCEPT ![to] = @ + 1]
                /\ heard' = [a \in Addresses |->
                                IF a = to \/ (a = from /\ packet.gone) THEN 0 ELSE heard[a]]
           ELSE UNCHANGED <<list, unanswered, heard>>
    /\ packet' = NoPacket
    /\ UNCHANGED routing

\* what is counted for addresses that are not listed any more is forgotten
OfListed(count, lists) ==
    [a \in Addresses |-> IF Position(lists[SocketOf(a)], a) > 0 THEN count[a] ELSE 0]

\* update_virtual_clock: at most one tick per packet, and only after a valid one
AfterTickForever(l) ==                      \* mutant: 0 is no limit
    AddrLoop(l, LAMBDA e : IF e.time = 0 THEN e ELSE [e EXCEPT !.time = @ - 1], Always)
AfterTick(l) ==
    AddrLoop(l, LAMBDA e : [e EXCEPT !.time = @ - 1], LAMBDA e : e.time >= 0)
Clock(tick) ==
    /\ Step("clock")
    /\ list' = IF tick THEN [s \in Sockets |-> AfterTick(list[s])] ELSE list
    /\ unanswered' = OfListed(unanswered, list')
    /\ heard' = OfListed(heard, list')
    /\ UNCHANGED <<routing, packet>>
Tick == Clock(TRUE)

\* update_dht: from time to time a DHT packet is sent, and peers may expire.
UpdateDht ==
    /\ todo # <<>> /\ Head(todo).name = "dht"
    /\ \/ /\ todo' = Tail(todo)
          /\ UNCHANGED <<list, routing>>
       \/ /\ ~Constrained
          /\ todo' = <<Call("local", Nobody), Call("out", Nobody)>>
          /\ \E peers \in SUBSET routing :
                /\ list' = Expired(list, peers)
                /\ routing' = routing \ peers
    /\ UNCHANGED <<packet, unanswered, heard>>

Init ==
    /\ list = [s \in Sockets |-> <<>>]
    /\ routing \in SUBSET RoutingPeers
    /\ packet = NoPacket
    /\ todo = <<>>
    /\ unanswered = [a \in Addresses |-> 0]
    /\ heard = [a \in Addresses |-> 0]

Handle == DhtProcess \/ SendLocal \/ SendOut \/ Answer \/ Tick \/ Clock(FALSE) \/ UpdateDht

Next ==
    \/ \E a \in Addresses : Receive(a)
    \/ Handle

\* the loop runs on whenever a packet is being handled
Spec == Init /\ [][Next]_vars /\ WF_vars(Handle)

-----------------------------------------------------------------------------
(* Properties.                                                             *)

\* Every variable has its type.  No address is listed twice, and none that is
\* listed has a send limit of 0, which would mean that it has no limit
\* (sockets.h:33).
TypeOK ==
    /\ \A s \in Sockets :
          /\ list[s] \in Seq(Entry)
          /\ \A i \in DOMAIN list[s] : SocketOf(list[s][i].addr) = s
          /\ \A i, j \in DOMAIN list[s] : list[s][i].addr = list[s][j].addr => i = j
    /\ routing \subseteq RoutingPeers
    /\ packet.from \in Addresses \cup {Nobody}
    /\ packet.addr \in Addresses \cup {Nobody}
    /\ \A i \in DOMAIN todo : todo[i].name \in 
              {"peers", "local", "out", "answer", "clock", "dht"}

\* An address is sent at most SEND_LIMIT packets that count before it is heard
\* (ad.c:129, "send <= 99 packets before rcv"), and one more if a keepalive
\* meant for another address goes to it after it was deleted.  As long as it is
\* listed, its limit is what is left.
SendLimited ==
    \A a \in Addresses :
        /\ unanswered[a] <= SEND_LIMIT + 1
        /\ Listed(a) => LET l == list[SocketOf(a)]
                        IN  unanswered[a] + l[Position(l, a)].send = SEND_LIMIT

\* Nobody who is listed sends RECV_LIMIT valid packets without being sent a
\* keepalive (ad.c:128, "send keepalive every 20 packets"), also if invalid
\* packets, after which none is sent, are counted in between.  One case is
\* excused: if the handling of the packet deleted an address listed before the
\* sender's, or its own, r.sav points elsewhere, and the keepalive goes astray
\* (ad.c:745).
KeepaliveEvery ==
    \A a \in Addresses :
        heard[a] <= IF packet.from = a THEN RECV_LIMIT ELSE RECV_LIMIT - 1

\* An address that is not heard from any more is deleted sooner or later,
\* provided that the clock goes on, which takes valid packets from others.
SilentForgotten ==
    []<><<Tick>>_vars =>
        \A a \in Addresses : []<>(~Listed(a) \/ packet.from = a)
=============================================================================
