-------------------------------- MODULE Chat --------------------------------
(***************************************************************************)
(* One direction of a conversation: the messages one system sends to a     *)
(* contact (xchat/cutil.c, message.c, store.c), and how they are pushed    *)
(* again by the sender and pulled by the receiver until they are acked     *)
(* (retransmit.c, request_and_resend of xcommon.c).                        *)
(*                                                                         *)
(* On the sender two threads work on the log and on the cache of unacked   *)
(* sequence numbers: the one of the user interface, that sends, and the    *)
(* one that handles packets.  On the receiver only the latter matters.     *)
(* The network loses and reorders packets, and what is resent arrives      *)
(* again; both programs may be killed and started again.                   *)
(*                                                                         *)
(* A message is identified by its place in the sender's log, which stands  *)
(* for its random ack.  Conversations are not deleted, messages are less   *)
(* than a week old, and both sides have one key for the contact.           *)
(*                                                                         *)
(* request_and_resend refuses calls that come too soon after another: any  *)
(* call may be refused here, and it is called whenever a packet, of this   *)
(* conversation or not, is handled.                                        *)
(***************************************************************************)
EXTENDS Integers, Sequences, FiniteSetsExt

CONSTANTS
    MAX_SEND,       \* sequence numbers pushed at a time, 8 in resend_unacked
    MAX_RESEND,     \* and those that are pulled, 16 in do_chat_control
    EXCHANGED,      \* messages sent, stored and acked in earlier sessions
    MAX_MESSAGES,   \* bound on the messages in the log
    MAX_CRASHES,    \* bound on the times one of the programs is killed
    MAX_REQUESTS    \* bound on the requests in flight, others are lost

ASSUME ChatAssumption ==
    /\ MAX_SEND \in Nat \ {0} /\ MAX_RESEND \in Nat \ {0}
    /\ EXCHANGED \in Nat /\ MAX_MESSAGES \in Nat \ 0 .. EXCHANGED
    /\ MAX_CRASHES \in Nat /\ MAX_REQUESTS \in Nat

VARIABLES
    (* the sender: its log and file, which survive a crash *)
    sent,           \* the MSG_TYPE_SENT records, by their sequence number
    acked,          \* the messages that have a MSG_TYPE_ACK record
    last_sent,      \* the file of that name, 0 if there is none
    (* and its memory *)
    unacked_cache,  \* the entry of unacked_cache for the contact
    recent,         \* recently_resent: what was resent in the last half minute
    gui,            \* where the thread of the user interface is
    reader,         \* where the thread that handles packets is
    (* the receiver: log, file, memory *)
    stored,         \* the MSG_TYPE_RCVD records, in order
    last_received,  \* the file of that name, 0 if there is none
    rcvd_cache,     \* the cache of is_in_cache
    ids,            \* id_hashes [MESSAGE_ID_HASH_INDEX]
    app,            \* where the thread that handles packets is
    (* the network *)
    net,            \* packets in flight
    out,            \* history: the messages that were ever transmitted
    crashes

senderStore == <<sent, acked, last_sent>>
senderMemory == <<unacked_cache, recent, gui, reader>>
receiver == <<stored, last_received, rcvd_cache, ids, app>>
vars == <<senderStore, senderMemory, receiver, net, out, crashes>>

NotCached == {0}        \* no entry; sequence numbers start at 1
Data(n) == [kind |-> "data", message |-> n]
Ack(n) == [kind |-> "ack", message |-> n]
Request(last, missing) == [kind |-> "request", last |-> last, missing |-> missing]

Messages == 1 .. MAX_MESSAGES
Numbers == 1 .. MAX_MESSAGES
HighestOf(S) == Max(S \cup {0})

-----------------------------------------------------------------------------
(* The sender's log.                                                       *)

\* highest_seq_value: the file if there is one, else all records are read
HighestSent == IF last_sent > 0 THEN last_sent ELSE HighestOf({sent[n] : n \in DOMAIN sent})

\* get_outgoing, is_acked_one: of several messages with a number, the latest
Latest(seq) == HighestOf({n \in DOMAIN sent : sent[n] = seq})

UnackedFromZero == {seq \in 0 .. HighestSent : Latest(seq) \notin acked}     \* mutant
Unacked == {seq \in 1 .. HighestSent : Latest(seq) \notin acked}

\* the lists of numbers are read from the highest down
Newest(S, max) == {s \in S : Cardinality({t \in S : t > s}) < max}

\* resend_message, for each of the numbers; "flying" is what is in flight
Resend(numbers, flying) ==
    LET again == {Latest(seq) : seq \in numbers \ recent} \ {0}
    IN  /\ net' = flying \cup {Data(n) : n \in again}
        /\ out' = out \cup again
        /\ recent' = recent \cup {sent[n] : n \in again}

-----------------------------------------------------------------------------
(* The thread of the user interface: send_data_message.                    *)

Idle == [at |-> "idle", found |-> {}]

\* get_counter, and the record that save_record appends to the log
SaveUnrecorded ==                           \* mutant: last_sent is left alone
    /\ gui = Idle /\ Len(sent) < MAX_MESSAGES
    /\ last_sent' = HighestSent
    /\ sent' = Append(sent, HighestSent + 1)
    /\ gui' = [Idle EXCEPT !.at = "recorded"]
    /\ UNCHANGED <<acked, unacked_cache, recent, reader, receiver, net, out, crashes>>
Save ==
    /\ gui = Idle /\ Len(sent) < MAX_MESSAGES
    /\ last_sent' = HighestSent
    /\ sent' = Append(sent, HighestSent + 1)
    /\ gui' = [Idle EXCEPT !.at = "saved"]
    /\ UNCHANGED <<acked, unacked_cache, recent, reader, receiver, net, out, crashes>>

\* the rest of save_record
Record ==
    /\ gui.at = "saved"
    /\ last_sent' = Max({last_sent, sent[Len(sent)]})
    /\ gui' = [Idle EXCEPT !.at = "recorded"]
    /\ UNCHANGED <<sent, acked, unacked_cache, recent, reader, receiver, net, out, crashes>>

\* local_send; reload_unacked_cache disables the entry
Transmit ==
    /\ gui.at = "recorded"
    /\ net' = net \cup {Data(Len(sent))}
    /\ out' = out \cup {Len(sent)}
    /\ unacked_cache' = NotCached
    /\ gui' = [Idle EXCEPT !.at = "load"]
    /\ UNCHANGED <<senderStore, recent, reader, receiver, crashes>>

\* reload_unacked_cache calls get_unacked, which reads the log unless the
\* other thread made an entry meanwhile
Reload ==
    /\ gui.at = "load"
    /\ gui' = IF unacked_cache = NotCached THEN [at |-> "add", found |-> Unacked] ELSE Idle
    /\ last_sent' = HighestSent
    /\ UNCHANGED <<sent, acked, unacked_cache, recent, reader, receiver, net, out, crashes>>

\* add_to_unacked_cache
Add ==
    /\ gui.at = "add"
    /\ unacked_cache' = gui.found
    /\ gui' = Idle
    /\ UNCHANGED <<senderStore, recent, reader, receiver, net, out, crashes>>

-----------------------------------------------------------------------------
(* The thread that handles packets on the sender.  get_unacked is called   *)
(* to push, or by reload_unacked_cache for a new ack, before an eager call.*)

Waiting == [at |-> "idle", push |-> TRUE, found |-> {}]

\* request_and_resend at the start of handle_packet
Poll ==
    /\ reader = Waiting
    /\ reader' = [Waiting EXCEPT !.at = "load"]
    /\ UNCHANGED <<senderStore, unacked_cache, recent, gui, receiver, net, out, crashes>>

\* handle_ack: the ack is saved and the cache reloaded, if the ack is new
HandleAck(n) ==
    /\ reader = Waiting /\ Ack(n) \in net
    /\ net' = net \ {Ack(n)}
    /\ IF n \in acked
       THEN UNCHANGED <<acked, unacked_cache, reader>>
       ELSE /\ acked' = acked \cup {n}
            /\ unacked_cache' = NotCached
            /\ reader' = [Waiting EXCEPT !.at = "load", !.push = FALSE]
    /\ UNCHANGED <<sent, last_sent, recent, gui, receiver, out, crashes>>

\* resend_messages: what is above the last received, then what is missing
HandleRequest(r) ==
    /\ reader = Waiting /\ r \in net /\ r.kind = "request"
    /\ Resend(Newest((r.last + 1 .. HighestSent) \cup r.missing, MAX_RESEND), net \ {r})
    /\ last_sent' = HighestSent
    /\ reader' = [Waiting EXCEPT !.at = "eager"]
    /\ UNCHANGED <<sent, acked, unacked_cache, gui, receiver, crashes>>

\* request_and_resend, eagerly, unless it is too soon
Eager ==
    /\ reader.at = "eager"
    /\ reader' \in {Waiting, [Waiting EXCEPT !.at = "load"]}
    /\ UNCHANGED <<senderStore, unacked_cache, recent, gui, receiver, net, out, crashes>>

\* what is done with the numbers that get_unacked returns: resend_unacked
Push(found) ==
    IF reader.push
    THEN /\ Resend(Newest(found, MAX_SEND), net)
         /\ reader' = Waiting
    ELSE /\ reader' = [Waiting EXCEPT !.at = "eager"]
         /\ UNCHANGED <<net, out, recent>>

\* get_unacked: the cache, or else the log
GetUnacked ==
    /\ reader.at = "load"
    /\ last_sent' = HighestSent
    /\ IF unacked_cache = NotCached /\ HighestSent > 0
       THEN /\ reader' = [reader EXCEPT !.at = "add", !.found = Unacked]
            /\ UNCHANGED <<net, out, recent>>
       ELSE Push(unacked_cache \ NotCached)
    /\ UNCHANGED <<sent, acked, unacked_cache, gui, receiver, crashes>>

AddUnacked ==
    /\ reader.at = "add"
    /\ unacked_cache' = reader.found
    /\ Push(reader.found)
    /\ UNCHANGED <<senderStore, gui, receiver, crashes>>

-----------------------------------------------------------------------------
(* The receiver's log.                                                     *)

StoredNumbers == {sent[stored[i]] : i \in DOMAIN stored}

\* highest_seq_value
HighestReceived == IF last_received > 0 THEN last_received ELSE HighestOf(StoredNumbers)

\* was_received: the cache of is_in_cache "is authoritative" if it is for this
\* contact, whatever it says; otherwise it is loaded from the log.
WasReceivedAsCached(seq, cache) ==          \* mutant: believes an old cache
    IF cache # NotCached THEN seq \in cache ELSE seq \in StoredNumbers
WasReceived(seq, cache) == IF cache # NotCached THEN TRUE ELSE seq \in StoredNumbers

\* the cache after was_received; nothing is loaded from an empty log
Loaded == IF rcvd_cache = NotCached /\ stored # <<>> THEN StoredNumbers ELSE rcvd_cache

\* get_missing calls was_received for each number below the last, from above
Missing ==
    LET last == HighestReceived
    IN  {seq \in 1 .. last - 1 :
            ~WasReceived(seq, IF seq = last - 1 THEN rcvd_cache ELSE Loaded)}

-----------------------------------------------------------------------------
(* The thread that handles packets on the receiver.                        *)

Resting == [at |-> "idle", message |-> 0, new |-> FALSE]

\* send_retransmit_request; if nothing is missing one request in twenty is sent
SendRequest ==
    /\ \E sends \in BOOLEAN :
          /\ sends => HighestReceived > 0
          /\ Missing # {} => sends
          /\ net' = IF sends /\ Cardinality({p \in net : p.kind = "request"}) < MAX_REQUESTS
                    THEN net \cup {Request(HighestReceived, Missing)}
                    ELSE net
    /\ last_received' = HighestReceived
    /\ rcvd_cache' = IF HighestReceived > 1 THEN Loaded ELSE rcvd_cache

\* request_and_resend at the start of handle_packet; nothing is pushed here
PollReceiver ==
    /\ app = Resting
    /\ SendRequest
    /\ UNCHANGED <<senderStore, senderMemory, stored, ids, app, out, crashes>>

\* a message from another contact: the cache is loaded for that one
ReceiveOther ==
    /\ app = Resting /\ rcvd_cache # NotCached
    /\ rcvd_cache' = NotCached
    /\ UNCHANGED <<senderStore, senderMemory, stored, last_received, ids, app, net, out,
                   crashes>>

\* handle_data: a message whose id is known is acked again, and nothing else
ReceiveAgainSilently(n) ==                  \* mutant: only the first is acked
    /\ app = Resting /\ Data(n) \in net /\ n \in ids
    /\ net' = net \ {Data(n)}
    /\ UNCHANGED <<senderStore, senderMemory, receiver, out, crashes>>
ReceiveAgain(n) ==
    /\ app = Resting /\ Data(n) \in net /\ n \in ids
    /\ net' = (net \ {Data(n)}) \cup {Ack(n)}
    /\ UNCHANGED <<senderStore, senderMemory, receiver, out, crashes>>

\* handle_data, to the record that save_record appends
ReceiveUnchecked(n) ==                      \* mutant: only the ids are looked at
    /\ app = Resting /\ Data(n) \in net /\ n \notin ids
    /\ net' = net \ {Data(n)}
    /\ ids' = ids \cup {n}
    /\ stored' = Append(stored, n)
    /\ rcvd_cache' = Loaded
    /\ app' = [at |-> "ack", message |-> n, new |-> TRUE]
    /\ UNCHANGED <<senderStore, senderMemory, last_received, out, crashes>>
Receive(n) ==
    LET saved == ~WasReceived(sent[n], rcvd_cache) /\ \A i \in DOMAIN stored : stored[i] # n
    IN  /\ app = Resting /\ Data(n) \in net /\ n \notin ids
        /\ net' = net \ {Data(n)}
        /\ ids' = ids \cup {n}
        /\ stored' = IF saved THEN Append(stored, n) ELSE stored
        /\ rcvd_cache' = Loaded
        /\ app' = [at |-> "ack", message |-> n, new |-> saved]
        /\ UNCHANGED <<senderStore, senderMemory, last_received, out, crashes>>

\* the rest of save_record, and send_ack
Acknowledge ==
    /\ app.at = "ack"
    /\ last_received' = IF app.new THEN Max({last_received, sent[app.message]})
                        ELSE last_received
    /\ net' = net \cup {Ack(app.message)}
    /\ app' = [Resting EXCEPT !.at = "eager"]
    /\ UNCHANGED <<senderStore, senderMemory, stored, rcvd_cache, ids, out, crashes>>

\* request_and_resend, eagerly, in send_ack and handle_data
EagerRequest ==
    /\ app.at = "eager"
    /\ SendRequest \/ UNCHANGED <<net, last_received, rcvd_cache>>
    /\ app' = Resting
    /\ UNCHANGED <<senderStore, senderMemory, stored, ids, out, crashes>>

-----------------------------------------------------------------------------
(* Time, losses and crashes.                                               *)

\* TIME_BEFORE_RESEND
HalfMinute ==
    /\ recent # {}
    /\ recent' = {}
    /\ UNCHANGED <<senderStore, unacked_cache, gui, reader, receiver, net, out, crashes>>

\* A packet may be lost.  That this happens between two packets is no restriction:
\* a packet lost earlier might as well have been lost then.
Lose(packet) ==
    /\ reader = Waiting /\ app = Resting
    /\ net' = net \ {packet}
    /\ UNCHANGED <<senderStore, senderMemory, receiver, out, crashes>>

CrashSender ==
    /\ crashes < MAX_CRASHES /\ crashes' = crashes + 1
    /\ unacked_cache' = NotCached /\ recent' = {}
    /\ gui' = Idle /\ reader' = Waiting
    /\ UNCHANGED <<senderStore, receiver, net, out>>

CrashReceiver ==
    /\ crashes < MAX_CRASHES /\ crashes' = crashes + 1
    /\ rcvd_cache' = NotCached /\ ids' = {}
    /\ app' = Resting
    /\ UNCHANGED <<senderStore, senderMemory, stored, last_received, net, out>>

Init ==
    /\ sent = [n \in 1 .. EXCHANGED |-> n] /\ acked = 1 .. EXCHANGED /\ last_sent = EXCHANGED
    /\ unacked_cache = NotCached /\ recent = {} /\ gui = Idle /\ reader = Waiting
    /\ stored = sent /\ last_received = EXCHANGED /\ rcvd_cache = NotCached /\ ids = {}
    /\ app = Resting
    /\ net = {} /\ out = 1 .. EXCHANGED /\ crashes = 0

Gui == Save \/ Record \/ Transmit \/ Reload \/ Add
Reader == Eager \/ GetUnacked \/ AddUnacked
App == Acknowledge \/ EagerRequest

Next ==
    \/ Gui \/ Reader \/ App
    \/ Poll
    \/ \E n \in Messages : HandleAck(n)
    \/ \E packet \in net : HandleRequest(packet)
    \/ PollReceiver
    \/ ReceiveOther
    \/ \E n \in Messages : ReceiveAgain(n) \/ Receive(n)
    \/ HalfMinute
    \/ \E packet \in net : Lose(packet)
    \/ CrashSender \/ CrashReceiver

Spec == Init /\ [][Next]_vars

\* The threads go on; packets keep coming to both sides, some of what is sent
\* again and again arrives, and time passes.
FairSpec ==
    /\ Spec
    /\ WF_vars(Record \/ Transmit \/ Reload \/ Add)
    /\ WF_vars(Reader) /\ WF_vars(App)
    /\ SF_vars(Poll)
    /\ WF_vars(HalfMinute)
    /\ \A n \in Messages :
          /\ SF_vars(Receive(n) \/ ReceiveAgain(n))
          /\ SF_vars(HandleAck(n))

-----------------------------------------------------------------------------
(* Properties.                                                             *)

\* Every variable has its type, and the two logs are what the code can read.
TypeOK ==
    /\ sent \in Seq(Numbers) /\ Len(sent) <= MAX_MESSAGES
    /\ acked \subseteq out /\ out \subseteq DOMAIN sent
    /\ last_sent \in Numbers \cup {0} /\ last_received \in Numbers \cup {0}
    /\ unacked_cache = NotCached \/ unacked_cache \subseteq Numbers
    /\ rcvd_cache = NotCached \/ rcvd_cache \subseteq Numbers
    /\ recent \subseteq Numbers
    /\ gui.at \in {"idle", "saved", "recorded", "load", "add"} /\ gui.found \subseteq Numbers
    /\ reader.at \in {"idle", "load", "add", "eager"} /\ reader.push \in BOOLEAN
    /\ reader.found \subseteq Numbers
    /\ stored \in Seq(out) /\ ids \subseteq out
    /\ app.at \in {"idle", "ack", "eager"} /\ app.new \in BOOLEAN /\ app.message \in out \cup {0}
    /\ \A packet \in net :
          \/ packet.kind \in {"data", "ack"} /\ packet.message \in out
          \/ packet.kind = "request" /\ packet.last \in Numbers /\ packet.missing \subseteq Numbers
    /\ crashes \in 0 .. MAX_CRASHES

\* A sequence number identifies a message for the contact, who ignores another
\* one with the same number as a duplicate (xcommon.c:833): no two messages are
\* transmitted with one number, wherever the sender was killed between logging
\* a message, recording its number and sending it (store.c:1149-1193).
OneSentPerNumber == \A m, n \in out : m # n => sent[m] # sent[n]

\* However often a message arrives, and whatever the caches have forgotten, the
\* contact's log has one message for each number.
OneStoredPerNumber ==
    \A i, j \in DOMAIN stored : i # j => sent[stored[i]] # sent[stored[j]]

\* A request never asks for what is in the log (get_missing, "that we never
\* received", message.c:274), and reports as received what was.
AsksForMissing ==
    [][\A r \in net' \ net :
          r.kind = "request" =>
              r.missing \cap StoredNumbers = {} /\ r.last \in StoredNumbers]_vars

\* What is acked was saved: "if it is a data message, it is saved in the xchat
\* log" (xcommon.c:1388).  was_received takes every number for received once
\* its cache is loaded for the contact (message.c:763).
AckedIsStored == \A n \in acked : \E i \in DOMAIN stored : stored[i] = n

\* Only what is in the cache is pushed, and it may not be what is unacked.
Stale == unacked_cache # NotCached /\ unacked_cache # Unacked

\* "a sender with unacked message will retransmit them" (retransmit.c:238): a
\* message that was transmitted is acked in the end, unless two threads that
\* reload the cache at the same time leave it out of date for good.
PushedUntilAcked == (\A n \in Messages : n \in out ~> n \in acked) \/ <>[]Stale
=============================================================================
