---------------------------- MODULE AllNetDaemon ----------------------------
(***************************************************************************)
(* The forwarding loop of the AllNet daemon, ad.c, on top of its packet    *)
(* cache.  The daemon is one thread: it reads a packet, handles it         *)
(* (process_acks, process_message, process_mgmt) and forwards it or not.   *)
(* A handler that calls the cache several times is one step per call, with *)
(* busy holding what it has yet to do; nothing else runs in between, but   *)
(* the cache may collect its garbage, or its filters rotate, in any of the *)
(* calls.                                                                  *)
(***************************************************************************)
EXTENDS PCache

CONSTANTS
    DO_NOT_CACHE,           \* messages with ALLNET_TRANSPORT_DO_NOT_CACHE
    ACK_REQ,                \* messages with an explicit message id; only these
                            \* are acked, the id of any other packet is its hash
    SEND_EXTERNAL_MAX,      \* answers to a data request from outside
    AckBatches              \* the ack packets that may arrive: sequences of acks

ASSUME DaemonAssumption ==
    /\ DO_NOT_CACHE \subseteq Messages /\ ACK_REQ \subseteq Messages
    /\ SEND_EXTERNAL_MAX \in Nat \ {0}
    /\ AckBatches \subseteq Seq(ACK_REQ) \ {<<>>}       \* no acks, nothing to do

VARIABLES
    busy,           \* what the current handler has yet to do
    forwarded_acks, \* history: <<a, t>>, ack a was forwarded as new for our token
                    \* t, and the token list has held t since then
    forwarded_at,   \* history: the rotations before each message from outside
                    \* was last forwarded; -1 if it never was, or NUM_FILTERS
                    \* rotations ago, or was lost with a whole entry since then
    answered        \* history: <<m, t>>, m was sent, and marked, in answer to a
                    \* request with token t, and the cache has held m and known t
                    \* since then

all_vars == <<vars, busy, forwarded_acks, forwarded_at, answered>>

Idle == [handler |-> "none"]
Acks(token, hops, save, check) ==
    [handler |-> "acks", token |-> token, hops |-> hops, save |-> save, check |-> check,
     began |-> rotations]
\* keep: the request that is yet to be saved or recorded, if it is new
Asking(is_local, keep) ==
    [handler |-> "request", is_local |-> is_local, keep |-> keep]
Answers(token, is_local, send, keep) ==
    [handler |-> "answer", token |-> token, is_local |-> is_local, send |-> send,
     keep |-> keep]
TracingOneMore(packets) ==      \* mutant: the request is saved before it is rewritten
    [handler |-> "trace", packets |-> packets + 1]
Tracing(packets) == [handler |-> "trace", packets |-> packets]

\* the filters have not rotated often enough to forget what the handler did
InTime == rotations < busy.began + NUM_FILTERS

Note(sent, acks) ==
    LET listed(t) == \E i \in DOMAIN token_list' : token_list'[i] = t
    IN  /\ answered' = IF TokensKept
                       THEN {x \in answered \cup sent :
                                x[1] \in DOMAIN message_table' /\ listed(x[2])}
                       ELSE {}
        /\ forwarded_acks' = IF TokensKept
                             THEN {x \in forwarded_acks \cup acks : listed(x[2])}
                             ELSE {}
Forward(S) ==
    forwarded_at' = [m \in Messages |->
        IF m \in S THEN rotations
        ELSE IF m \in LostForBig \/ rotations' >= forwarded_at[m] + NUM_FILTERS THEN -1
        ELSE forwarded_at[m]]

-----------------------------------------------------------------------------
(* process_acks: our token is copied, all acks are saved, and those that    *)
(* are new for that token are forwarded in one packet.                      *)

ReceiveAcks(acks, hops) ==
    /\ busy = Idle
    /\ busy' = Acks(local_token, hops, acks, acks)
    /\ UNCHANGED <<vars, forwarded_acks, forwarded_at, answered>>

SaveNextAck ==
    /\ busy.handler = "acks" /\ busy.save # <<>>
    /\ SaveAck(Head(busy.save), busy.hops)
    /\ busy' = [busy EXCEPT !.save = Tail(@)]
    /\ Note({}, {}) /\ Forward({})

CheckNextAck(new) ==
    /\ busy.handler = "acks" /\ busy.save = <<>>
    /\ AckForToken(busy.token, Head(busy.check), new)
    /\ Note({}, IF new /\ InTime THEN {<<Head(busy.check), busy.token>>} ELSE {})
    /\ Forward({})
    /\ busy' = IF Len(busy.check) = 1 THEN Idle ELSE [busy EXCEPT !.check = Tail(@)]

-----------------------------------------------------------------------------
(* process_message for a message that is neither an ack nor a data request. *)
(* One that is acked, or was seen before, is not saved and, if it comes     *)
(* from outside, not forwarded (nor counted here).                          *)

Acked(m) == m \in DOMAIN ack_table                  \* pcache_id_acked

LookUp(m) ==
    /\ IF Acked(m) THEN UNCHANGED filters ELSE RefreshIfInBloom("message", m)
    /\ UNCHANGED <<message_table, ack_table, token_list, local_token, expired,
                   gc_recent, halted>>
    /\ Note({}, {}) /\ Forward({})

ReceiveKnown(m) ==
    /\ busy = Idle /\ (Acked(m) \/ Seen(m))
    /\ LookUp(m)
    /\ UNCHANGED busy

SaveOrRecord(m, priority) ==
    IF m \in DO_NOT_CACHE THEN RecordPacket(m) ELSE SavePacket(m, priority)

ReceiveUnacked(m, priority, is_local) ==    \* mutant: pcache_id_acked is not asked
    /\ busy = Idle /\ ~ Seen(m)
    /\ SavePacket(m, priority)
    /\ Note({}, {}) /\ Forward({})
    /\ UNCHANGED busy

ReceiveNew(m, priority, is_local) ==
    /\ busy = Idle /\ ~ Acked(m) /\ ~ Seen(m)
    /\ SaveOrRecord(m, priority)
    /\ Note({}, {}) /\ Forward(IF is_local THEN {} ELSE {m})
    /\ UNCHANGED busy

-----------------------------------------------------------------------------
(* process_message for a data request.  One from outside that was seen is   *)
(* dropped.  The cached messages that match and were not sent to its token   *)
(* are sent to the requester.  Then our own token replaces that of the       *)
(* request, and the request is saved or recorded, if new, and forwarded; its *)
(* id is by then another one, unless it has an explicit id.                  *)

ReceiveRequest(m, is_local) ==
    /\ busy = Idle
    /\ is_local \/ ~ (Acked(m) \/ Seen(m))
    /\ LookUp(m)
    /\ busy' = Asking(is_local, IF Acked(m) \/ Seen(m) THEN {} ELSE {m})

AnswerRequest(t, matching, results) ==
    /\ busy.handler = "request"
    /\ Request(t, matching, IF busy.is_local THEN 0 ELSE SEND_EXTERNAL_MAX, results)
    /\ busy' = Answers(t, busy.is_local, results, busy.keep)
    /\ Note({}, {}) /\ Forward({})

(* send_message_to_one.  For a local program the priority is appended       *)
(* before the packet is marked: the hash of a packet without an explicit    *)
(* message id is then another one, and no cached message is marked.         *)
IsMarked(m) == m \in ACK_REQ \/ ~ busy.is_local
MarkNext(m) ==
    IF m \in Messages /\ IsMarked(m)
    THEN MarkTokenSent(busy.token, m)
    ELSE \E r \in TokenToSendTo(busy.token, {}) : Install(r, r.now.messages, r.now.acks)

SendAnswer(m) ==
    /\ busy.handler = "answer" /\ m \in busy.send
    /\ \/ MarkNext(m)
       \/ m = Garbled /\ UNCHANGED vars               \* it has no message id
    /\ Note(IF busy.token # ZeroToken /\ IsMarked(m) THEN {<<m, busy.token>>} ELSE {}, {})
    /\ Forward({})
    /\ busy' = [busy EXCEPT !.send = @ \ {m}]

FinishRequest(n, priority) ==
    /\ busy.handler = "answer" /\ busy.send = {}
    /\ IF busy.keep = {}
       THEN UNCHANGED vars
       ELSE \E m \in busy.keep :
               /\ n = m \/ {m, n} \cap ACK_REQ = {}
               /\ (n \in DO_NOT_CACHE) = (m \in DO_NOT_CACHE)
               /\ SaveOrRecord(n, priority)
    /\ Note({}, {})
    /\ Forward(IF busy.is_local THEN {} ELSE busy.keep \cap ACK_REQ)
    /\ busy' = Idle

-----------------------------------------------------------------------------
(* process_mgmt.  A trace request or reply that is new is remembered, and   *)
(* one or two packets are saved that have no explicit message id: the reply  *)
(* we make and the request, or the reply, that we forward.                   *)

ReceiveTrace(packets) ==
    /\ busy = Idle
    /\ RecordTrace
    /\ Note({}, {}) /\ Forward({})
    /\ busy' = IF packets = 0 THEN Idle ELSE Tracing(packets)

SaveTrace(m, priority) ==
    /\ busy.handler = "trace"
    /\ m \notin ACK_REQ /\ SavePacket(m, priority)
    /\ Note({}, {}) /\ Forward({})
    /\ busy' = IF busy.packets = 1 THEN Idle ELSE [busy EXCEPT !.packets = @ - 1]

-----------------------------------------------------------------------------
Time ==
    /\ busy = Idle
    /\ (\E m \in Messages : Expire(m)) \/ MinutePasses
    /\ UNCHANGED <<busy, forwarded_acks, forwarded_at, answered>>

DaemonInit ==
    /\ Init
    /\ busy = Idle
    /\ forwarded_acks = {}
    /\ forwarded_at = [m \in Messages |-> -1]
    /\ answered = {}

DaemonNext ==
    /\ ~ halted
    /\ \/ \E acks \in AckBatches, h \in Hops : ReceiveAcks(acks, h)
       \/ SaveNextAck
       \/ \E new \in BOOLEAN : CheckNextAck(new)
       \/ \E m \in Messages : ReceiveKnown(m)
       \/ \E m \in Messages, p \in Priorities, is_local \in BOOLEAN :
             ReceiveNew(m, p, is_local)
       \/ \E m \in Messages, is_local \in BOOLEAN : ReceiveRequest(m, is_local)
       \/ \E t \in Tokens, matching \in SUBSET Messages,
             results \in SUBSET (Messages \cup {Garbled}) :
             AnswerRequest(t, matching, results)
       \/ \E m \in Messages \cup {Garbled} : SendAnswer(m)
       \/ \E n \in Messages, p \in Priorities : FinishRequest(n, p)
       \/ \E packets \in 0 .. 2 : ReceiveTrace(packets)
       \/ \E m \in Messages, p \in Priorities : SaveTrace(m, p)
       \/ Time

DaemonSpec == DaemonInit /\ [][DaemonNext]_all_vars

-----------------------------------------------------------------------------
(* Properties.                                                             *)

\* The handler in progress is one of those above, and the history variables are
\* of the types they are meant to have.
DaemonTypeOK ==
    /\ TypeOK
    /\ \/ busy = Idle
       \/ busy \in [handler : {"acks"}, token : 0 .. MAX_GCS, hops : Hops,
                    save : Seq(ACK_REQ), check : Seq(ACK_REQ) \ {<<>>},
                    began : 0 .. rotations]
       \/ busy \in [handler : {"request"}, is_local : BOOLEAN, keep : SUBSET Messages]
       \/ busy \in [handler : {"answer"}, token : Tokens, is_local : BOOLEAN,
                    send : SUBSET (Messages \cup {Garbled}), keep : SUBSET Messages]
       \/ busy \in [handler : {"trace"}, packets : 1 .. 2]
    /\ forwarded_acks \subseteq Messages \X (0 .. MAX_GCS)
    /\ forwarded_at \in [Messages -> -1 .. rotations]
    /\ answered \subseteq Messages \X Tokens

\* A message whose ack we hold is not cached (pcache_save_acks: "record all
\* these acks and delete (stop caching) corresponding messages"), whatever
\* arrives later and whatever is collected in between.
AckedNotCached == DOMAIN ack_table \cap DOMAIN message_table = {}

\* Right after pcache_save_acks has recorded an ack, the message it is for is
\* not cached: "record all these acks and delete (stop caching) corresponding
\* messages" (pcache.h:76).  Not so for an ack that is only remembered by the
\* Bloom filter: save_one_ack returns before it looks at the message.
SavedAckNotCached ==
    [][SaveNextAck => Head(busy.save) \notin DOMAIN message_table']_all_vars

\* pcache_ack_for_token never reads ack_table [-1]: after process_acks has
\* saved the acks of a packet, each is in the table or in the Bloom filter,
\* although the gc that made room for a later one may have evicted it.  That
\* holds while the filters have not rotated NUM_FILTERS times since the packet
\* came: nothing in the code bounds how often the acks of one packet make them.
CheckedAcksAreKnown ==
    busy.handler = "acks" /\ busy.save = <<>> /\ InTime =>
        \A i \in DOMAIN busy.check :
            busy.check[i] \in DOMAIN ack_table \/ InBloom("ack", busy.check[i])

\* An ack is forwarded once for each token of ours (ad.c:491) while the token
\* list keeps that token: the token copied at the start of process_acks may be
\* outdated when it is used, and the gc that replaced it may have dropped it.
\* (On a little-endian host, while the list keeps all its tokens.)
AckForwardedOncePerToken ==
    [][\A new \in BOOLEAN : CheckNextAck(new) /\ new /\ InTime =>
          <<Head(busy.check), busy.token>> \notin forwarded_acks]_all_vars

\* A packet that was forwarded is not handled again, when it comes from outside,
\* before the Bloom filters have rotated NUM_FILTERS times (ad.c:654, "we have
\* seen it before, drop the message"): neither eviction nor its ack, nor the
\* eviction of its ack, makes us forget it sooner; only a message of half an
\* entry or more does.
SeenIsDropped ==
    [][\A m \in Messages :
          forwarded_at[m] # -1 =>
              /\ \A p \in Priorities : ~ ReceiveNew(m, p, FALSE)
              /\ ~ ReceiveRequest(m, FALSE)]_all_vars

\* A message is never sent twice in answer to the same token while the cache
\* holds the message and knows the token (pcache.c, "forward each message to
\* each system at most once"), even when a gc moved the messages under the loop
\* of pcache_request.  Not so for requests without a token, nor for messages
\* without an explicit id that were sent to a local program, see SentIsMarked.
\* (On a little-endian host, while the list keeps all its tokens.)
AnswersAreNew ==
    busy.handler = "answer" => \A m \in busy.send : <<m, busy.token>> \notin answered

\* A cached message that is sent to a listed token is marked as sent to it
\* (pcache_mark_token_sent).  Not so for a local program: with the priority
\* appended, the packet has another hash.
SentIsMarked ==
    [][\A m \in Messages : SendAnswer(m) =>
          \A i \in DOMAIN token_list' :
              token_list'[i] = busy.token /\ m \in DOMAIN message_table' =>
                  i - 1 \in message_table'[m].sent_to_tokens]_all_vars
=============================================================================
