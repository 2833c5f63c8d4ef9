------------------------------- MODULE PCache -------------------------------
(***************************************************************************)
(* The packet cache of the AllNet daemon, lib/pcache.c: the table of       *)
(* cached messages, the table of acks, the list of tokens of the peers we  *)
(* exchange data with, and our own token.                                  *)
(*                                                                         *)
(* Every message and ack carries a bitmap: bit i is set when the item was  *)
(* already sent to token_list[i].  A garbage collection (do_gc) drops the  *)
(* oldest quarter of the tokens when the list is full, shifts every bitmap *)
(* by the same amount, drops acks and low-priority messages, remembers     *)
(* what it dropped in the Bloom filters, and picks a new local token.      *)
(*                                                                         *)
(* An ack and the message it acknowledges have the same name here: the     *)
(* message id is the hash of the ack, a bijection for our purposes.        *)
(*                                                                         *)
(* A Bloom filter is, for every id that was added to it, the number of     *)
(* rotations (pid_advance_bloom) before the id was last added; after       *)
(* NUM_FILTERS more the id is lost.  The filters rotate at the end of a    *)
(* garbage collection and whenever an id fills the newest generation of    *)
(* one of them, be it an id of a trace; how full a generation is, is left  *)
(* open here and is the matter of PidBloom.                                *)
(***************************************************************************)
EXTENDS Integers, Sequences, FiniteSets

CONSTANTS
    Messages,               \* message ids; each also names the message's ack
    Garbled,                \* what pcache_request reads in the middle of a message
    Tokens,                 \* tokens of other systems (16 random bytes each)
    ZeroToken,              \* the token of a request for messages sent before, too
    Priorities,             \* forwarding priorities given to pcache_save_packet
    Hops,                   \* values of max_hops given to pcache_save_acks
    NoEntry,                \* the entry number -1
    Entries, EntryOf,       \* message_table entries; readb64 (id) % num_entries
    Slots, SlotOf,          \* slots of the ack table; the slot an id hashes to
    Size,                   \* the length of each message
    MESSAGE_HEADER_SIZE,
    MESSAGE_STORAGE_SIZE,   \* bytes of one message_table entry
    ACKS_PER_SLOT,
    MAX_TOKENS,
    NUM_FILTERS,            \* generations of the Bloom filters
    GC_FILLS,               \* how many generations the ids that one gc drops may fill
    BYTE_BITS,              \* bits per byte of a sent_to_tokens bitmap (8)
    BIG_ENDIAN_HOST,        \* does the host store a uint64_t like readb64 reads?
    MAX_GCS,                \* bound on the garbage collections of a behaviour
    MAX_ROTATIONS           \* bound on the rotations of the Bloom filters

ASSUME TokenAssumption ==
    /\ MAX_TOKENS \in Nat \ {0} /\ MAX_TOKENS % 4 = 0
    /\ BYTE_BITS \in Nat \ {0} /\ MAX_TOKENS % BYTE_BITS = 0
    /\ BIG_ENDIAN_HOST \in BOOLEAN
    /\ Tokens \cap Nat = {}

ASSUME TableAssumption ==
    /\ IsFiniteSet(Messages) /\ Garbled \notin Messages /\ NoEntry \notin Entries
    /\ EntryOf \in [Messages -> Entries] /\ SlotOf \in [Messages -> Slots]
    /\ Size \in [Messages -> Nat] /\ MESSAGE_HEADER_SIZE \in Nat
    /\ MESSAGE_STORAGE_SIZE \in Nat
    /\ \A m \in Messages : Size[m] + MESSAGE_HEADER_SIZE <= MESSAGE_STORAGE_SIZE
    /\ ACKS_PER_SLOT \in Nat \ {0}
    /\ Priorities \subseteq Nat /\ Hops \subseteq Nat
    /\ MAX_GCS \in Nat

(* The tables hold at most 64 Ki acks and 4 MiB of messages of 56 bytes or  *)
(* more with their headers: a gc adds less than 2^17 ids, which fill        *)
(* filters of load 2^14 less than ten times, and there are 16 generations.  *)
ASSUME FilterAssumption ==
    /\ NUM_FILTERS \in Nat /\ GC_FILLS \in Nat /\ GC_FILLS + 1 < NUM_FILTERS
    /\ MAX_ROTATIONS \in Nat

VARIABLES
    message_table,   \* cached id -> [priority, sent_to_tokens]
    ack_table,       \* id of a used entry -> [max_hops, sent_to_tokens]
    token_list,      \* the num_external_tokens tokens in use, oldest first
    local_token,     \* our own token: the number of times it was re-drawn
    bloom,           \* filter -> (id -> the rotations before it was last added)
    rotations,       \* how many times the Bloom filters were rotated
    expired,         \* messages whose expiration time is past
    gc_recent,       \* did token_to_send_to gc within the last minute?
    halted           \* exit (1), debug_crash or a failed assert was reached

vars == <<message_table, ack_table, token_list, local_token, bloom, rotations,
          expired, gc_recent, halted>>
filters == <<bloom, rotations>>

Bits == 0 .. MAX_TOKENS - 1
\* a local token is a number, drawn afresh by random_bytes; it may also come
\* back to us as the token of an ack (ad.c, process_acks)
AnyToken == Tokens \cup 0 .. MAX_GCS
\* do the bits of the bitmaps still name the tokens they named before the step?
TokensKept ==
    \/ BIG_ENDIAN_HOST
    \/ \A i \in DOMAIN token_list : i \in DOMAIN token_list' /\ token_list'[i] = token_list[i]
Filters == {"message", "ack"}

-----------------------------------------------------------------------------
(* Functions with a changing domain, and the Bloom filters.                *)

Put(f, x, v) == [y \in DOMAIN f \cup {x} |-> IF y = x THEN v ELSE f[y]]
Keep(f, S) == [x \in DOMAIN f \cap S |-> f[x]]

\* pid_is_in_bloom: is a copy of the id in one of the generations?
InBloom(f, m) == m \in DOMAIN bloom[f]

\* the ids in the domain of added are added after added[m] rotations
Remember(b, f, added) ==
    [b EXCEPT ![f] = [m \in DOMAIN b[f] \cup DOMAIN added |->
                         IF m \in DOMAIN added THEN added[m] ELSE b[f][m]]]

\* what is left after the n-th pid_advance_bloom: NUM_FILTERS generations
TooFewGenerations(b, n) ==      \* mutant: one generation is lost
    [f \in Filters |-> Keep(b[f], {m \in DOMAIN b[f] : n + 1 < b[f][m] + NUM_FILTERS})]
TooManyGenerations(b, n) ==     \* mutant: the oldest generation is not lost
    [f \in Filters |-> Keep(b[f], {m \in DOMAIN b[f] : n <= b[f][m] + NUM_FILTERS})]
Generations(b, n) ==
    [f \in Filters |-> Keep(b[f], {m \in DOMAIN b[f] : n < b[f][m] + NUM_FILTERS})]
RotateFilters(b, full) ==
    /\ rotations + full <= MAX_ROTATIONS
    /\ rotations' = rotations + full
    /\ bloom' = Generations(b, rotations + full)

(* pid_add_to_bloom.  An id that the newest generation has sets no bit; any *)
(* other may be the one that fills the generation.                          *)
Newest(f, m) == InBloom(f, m) /\ bloom[f][m] = rotations
AddToBloom(f, m) ==
    \E full \in (IF Newest(f, m) THEN {0} ELSE {0, 1}) :
        RotateFilters(Remember(bloom, f, [x \in {m} |-> rotations]), full)

\* a hit of pid_is_in_bloom copies the id to the newest generation
RefreshIfInBloom(f, m) ==
    IF InBloom(f, m) THEN AddToBloom(f, m) ELSE UNCHANGED filters

-----------------------------------------------------------------------------
(* shift_token reads the bitmap as a big-endian number, shifts that number *)
(* right and writes it back big-endian; the rest of the code uses the      *)
(* bitmap as a uint64_t of the host.                                       *)

BytesPerBitmap == MAX_TOKENS \div BYTE_BITS
BigEndianPosition(bit) ==
    IF BIG_ENDIAN_HOST
    THEN bit
    ELSE ((BytesPerBitmap - 1 - bit \div BYTE_BITS) * BYTE_BITS) + (bit % BYTE_BITS)

ShiftTokenByLess(bitmap, token_shift) ==            \* mutant: off by one
    IF token_shift <= 0
    THEN bitmap
    ELSE {bit \in Bits : bit + token_shift - 1 \in bitmap}
ShiftToken(bitmap, token_shift) ==
    IF token_shift <= 0
    THEN bitmap
    ELSE {bit \in Bits : \E old \in bitmap :
             BigEndianPosition(bit) = BigEndianPosition(old) - token_shift}

\* gc_tokens: how many tokens are dropped from the front of the list
TokenShift ==
    IF Len(token_list) < MAX_TOKENS
    THEN 0
    ELSE Len(token_list) - (3 * MAX_TOKENS) \div 4

Shifted(entry) ==
    [entry EXCEPT !.sent_to_tokens = ShiftToken(entry.sent_to_tokens, TokenShift)]

-----------------------------------------------------------------------------
(* gc_messages_entry.  Expired messages go first, then the lowest          *)
(* priorities until half of the entry, plus room for msize, is free.       *)
(* Which of several messages of one priority goes first is left open.      *)

\* the bytes of the messages in S and of their headers
Bytes(S) == UNION {{m} \X (1 .. (Size[m] + MESSAGE_HEADER_SIZE)) : m \in S}
Used(S) == Cardinality(Bytes(S))
InEntry(e) == {m \in DOMAIN message_table : EntryOf[m] = e}

WantedSpace(msize) == MESSAGE_STORAGE_SIZE \div 2 + msize + MESSAGE_HEADER_SIZE
FreesEverything(msize) == WantedSpace(msize) >= MESSAGE_STORAGE_SIZE
\* a message header is less than half an entry (ALLNET_MTU bytes and a header)
ASSUME EntryAssumption == ~ FreesEverything(0)
HasWantedSpace(S, msize) == Used(S) + WantedSpace(msize) <= MESSAGE_STORAGE_SIZE

KeptMessages(e, msize) ==
    LET live == InEntry(e) \ expired
        priority(m) == message_table[m].priority
        Deleted(K) == live \ K
    IN  IF FreesEverything(msize)
        THEN {{}}
        ELSE {K \in SUBSET live :
                /\ HasWantedSpace(K, msize)
                /\ \A k \in K, d \in Deleted(K) : priority(d) <= priority(k)
                /\ Deleted(K) # {} =>
                     \E last \in Deleted(K) :
                        /\ \A d \in Deleted(K) : priority(d) <= priority(last)
                        /\ ~ HasWantedSpace(K \cup {last}, msize)}

\* gc_ack_slot: random acks are freed until at most half of the slot is used
AllAcksKept == {DOMAIN ack_table}       \* mutant: nothing is freed
KeptAcks ==
    LET used(s) == {a \in DOMAIN ack_table : SlotOf[a] = s}
        Half == ACKS_PER_SLOT \div 2
    IN  {K \in SUBSET DOMAIN ack_table : \A s \in Slots :
            IF Cardinality(used(s)) <= Half
            THEN used(s) \subseteq K
            ELSE Cardinality(used(s) \cap K) = Half}

(* The ids that gc_ack_slot and gc_messages_entry hand to the Bloom filters, *)
(* each at one of the rotations that these ids themselves cause.             *)
Fills(dropped) ==
    {full \in 0 .. GC_FILLS : /\ dropped = {} => full = 0
                              /\ rotations + full < MAX_ROTATIONS}
Added(dropped, full) == [dropped -> rotations .. rotations + full]
ForgetAcks(b, acks, messages) ==        \* mutant: an ack's own id is forgotten
    Remember(b, "message", messages)
ForgetAcked(b, acks, messages) ==       \* mutant: its message's id is forgotten
    Remember(Remember(b, "ack", acks), "message",
             [m \in DOMAIN messages \ DOMAIN acks |-> messages[m]])
RememberDropped(b, acks, messages) ==
    Remember(Remember(b, "ack", acks), "message", messages)

(* do_gc: the tables it may leave behind.  eindex is the entry that must    *)
(* have room for msize more bytes, NoEntry when any will do.  An entry that *)
(* has to be freed as a whole is forgotten: its ids are not remembered.     *)
Wanted(e, eindex, msize) == IF e = eindex THEN msize ELSE 0
Forgotten(eindex, msize) ==
    UNION {InEntry(e) : e \in {x \in Entries : FreesEverything(Wanted(x, eindex, msize))}}

Dropped(KM, KA, forgotten) ==
    (DOMAIN ack_table \ KA) \cup ((DOMAIN message_table \ KM) \ forgotten)

Collected(KM, KA, full, acks, messages) ==
    [messages  |-> [m \in KM |-> Shifted(message_table[m])],
     acks      |-> [a \in KA |-> Shifted(ack_table[a])],
     tokens    |-> SubSeq(token_list, TokenShift + 1, Len(token_list)),
     bloom     |-> Generations(RememberDropped(bloom, acks, messages), rotations + full + 1),
     rotations |-> rotations + full + 1]                \* pid_advance_bloom

GcResults(eindex, msize) ==
    UNION {UNION {{Collected(KM, KA, full, acks, messages) :
                      acks \in Added(DOMAIN ack_table \ KA, full),
                      messages \in Added(Dropped(KM, KA, Forgotten(eindex, msize)), full)} :
                     full \in Fills(Dropped(KM, KA, Forgotten(eindex, msize)))} :
           KM \in {S \in SUBSET DOMAIN message_table : \A e \in Entries :
                      S \cap InEntry(e) \in KeptMessages(e, Wanted(e, eindex, msize))},
           KA \in KeptAcks}

\* reinit_local_token draws a token nobody has seen
SameLocalToken ==           \* mutant: do_gc does not call reinit_local_token
    /\ local_token < MAX_GCS
    /\ UNCHANGED local_token
ReinitLocalToken ==
    /\ local_token < MAX_GCS
    /\ local_token' = local_token + 1

Halt ==
    /\ halted' = TRUE
    /\ UNCHANGED <<message_table, ack_table, token_list, local_token, filters,
                   expired, gc_recent>>

-----------------------------------------------------------------------------
(* pcache_save_packet                                                      *)

NewMessage(priority) == [priority |-> priority, sent_to_tokens |-> {}]
FitsWithoutHeader(S, m) ==      \* mutant: the header is not counted
    Used(S) + Size[m] <= MESSAGE_STORAGE_SIZE
Fits(S, m) == Used(S) + Size[m] + MESSAGE_HEADER_SIZE <= MESSAGE_STORAGE_SIZE

\* pcache_id_found
Seen(m) == InBloom("message", m) \/ m \in DOMAIN message_table

SavePacket(m, priority) ==
    \/ /\ Seen(m)                                         \* nothing to do
       /\ RefreshIfInBloom("message", m)
       /\ UNCHANGED <<message_table, ack_table, token_list, local_token,
                      expired, gc_recent, halted>>
    \/ /\ ~ Seen(m) /\ Fits(InEntry(EntryOf[m]), m)
       /\ message_table' = Put(message_table, m, NewMessage(priority))
       /\ UNCHANGED <<ack_table, token_list, local_token, filters, expired,
                      gc_recent, halted>>
    \/ /\ ~ Seen(m) /\ ~ Fits(InEntry(EntryOf[m]), m)
       /\ \E gc \in GcResults(EntryOf[m], Size[m]) :
            LET left == {x \in DOMAIN gc.messages : EntryOf[x] = EntryOf[m]}
            IN  IF Fits(left, m)
                THEN /\ ReinitLocalToken
                     /\ message_table' = Put(gc.messages, m, NewMessage(priority))
                     /\ ack_table' = gc.acks
                     /\ token_list' = gc.tokens
                     /\ bloom' = gc.bloom /\ rotations' = gc.rotations
                     /\ UNCHANGED <<expired, gc_recent, halted>>
                ELSE Halt                                 \* "gc error", exit (1)

\* pcache_record_packet: only the Bloom filter learns of the message
RecordPacket(m) ==
    /\ AddToBloom("message", m)
    /\ UNCHANGED <<message_table, ack_table, token_list, local_token, expired,
                   gc_recent, halted>>

-----------------------------------------------------------------------------
(* save_one_ack, one turn of the loop of pcache_save_acks.                 *)

NewAck(hops) == [max_hops |-> hops, sent_to_tokens |-> {}]
SlotUse(table, s) == Cardinality({x \in DOMAIN table : SlotOf[x] = s})
HasFreeAck(table, a) == SlotUse(table, SlotOf[a]) < ACKS_PER_SLOT

SaveAck(a, hops) ==
    \/ /\ InBloom("ack", a)
       /\ AddToBloom("ack", a)
       /\ UNCHANGED <<message_table, ack_table, token_list, local_token,
                      expired, gc_recent, halted>>
    \/ /\ ~ InBloom("ack", a) /\ a \in DOMAIN ack_table
       /\ ack_table' = [ack_table EXCEPT ![a].max_hops = IF @ < hops THEN hops ELSE @]
       /\ UNCHANGED <<message_table, token_list, local_token, filters, expired,
                      gc_recent, halted>>
    \/ /\ ~ InBloom("ack", a) /\ a \notin DOMAIN ack_table
       /\ HasFreeAck(ack_table, a)
       /\ ack_table' = Put(ack_table, a, NewAck(hops))
       /\ message_table' = Keep(message_table, Messages \ {a})
       /\ UNCHANGED <<token_list, local_token, filters, expired, gc_recent, halted>>
    \/ /\ ~ InBloom("ack", a) /\ a \notin DOMAIN ack_table
       /\ ~ HasFreeAck(ack_table, a)
       /\ \E gc \in GcResults(NoEntry, 0) :
            IF HasFreeAck(gc.acks, a)
            THEN /\ ReinitLocalToken
                 /\ ack_table' = Put(gc.acks, a, NewAck(hops))
                 /\ message_table' = Keep(gc.messages, Messages \ {a})
                 /\ token_list' = gc.tokens
                 /\ bloom' = gc.bloom /\ rotations' = gc.rotations
                 /\ UNCHANGED <<expired, gc_recent, halted>>
            ELSE Halt                 \* "no room for ack after gc", debug_crash

-----------------------------------------------------------------------------
(* token_to_send_to: the index of a token, which is added to the list when *)
(* it is new.  Each outcome holds the tables afterwards and the index, -1  *)
(* for "already sent".                                                     *)

IndexOf(t) == (CHOOSE i \in DOMAIN token_list : token_list[i] = t) - 1
ListedBeforeLast(t) ==          \* mutant: the loop ends one token early
    \E i \in 1 .. Len(token_list) - 1 : token_list[i] = t
Listed(t) == \E i \in DOMAIN token_list : token_list[i] = t

Tables == [messages |-> message_table, acks |-> ack_table,
           tokens |-> token_list, bloom |-> bloom, rotations |-> rotations]

TokenToSendTo(t, bitmap) ==
    IF Listed(t)
    THEN {[now |-> Tables, gc |-> FALSE,
           index |-> IF IndexOf(t) \in bitmap THEN -1 ELSE IndexOf(t)]}
    ELSE IF Len(token_list) < MAX_TOKENS
    THEN {[now |-> [Tables EXCEPT !.tokens = Append(@, t)], gc |-> FALSE,
           index |-> Len(token_list)]}
    ELSE IF gc_recent                          \* pretend it was already sent
    THEN {[now |-> Tables, gc |-> FALSE, index |-> -1]}
    ELSE {[now |-> [g EXCEPT !.tokens = Append(@, t)], gc |-> TRUE,
           index |-> Len(g.tokens)] : g \in GcResults(NoEntry, 0)}

Install(r, messages, acks) ==
    /\ message_table' = messages
    /\ ack_table' = acks
    /\ token_list' = r.now.tokens
    /\ bloom' = r.now.bloom /\ rotations' = r.now.rotations
    /\ gc_recent' = (gc_recent \/ r.gc)
    /\ IF r.gc THEN ReinitLocalToken ELSE UNCHANGED local_token
    /\ UNCHANGED expired
    /\ halted' = (Len(r.now.tokens) > MAX_TOKENS)   \* "no room for tokens"

UnmarkedIn(table, x, index) == table        \* mutant: the bit is not set
MarkNextIn(table, x, index) ==              \* mutant: the next bit is set
    IF x \in DOMAIN table
    THEN [table EXCEPT ![x].sent_to_tokens = @ \cup {index + 1}]
    ELSE table
MarkIn(table, x, index) ==
    IF x \in DOMAIN table
    THEN [table EXCEPT ![x].sent_to_tokens = @ \cup {index}]
    ELSE table

(* pcache_ack_for_token, new being its result.  For an ack that is in no    *)
(* table the C code reads the bitmap at ack_table [-1], which can be        *)
(* anything.                                                               *)
AckForToken(t, a, new) ==
    \/ /\ InBloom("ack", a) /\ ~ new
       /\ AddToBloom("ack", a)
       /\ UNCHANGED <<message_table, ack_table, token_list, local_token,
                      expired, gc_recent, halted>>
    \/ /\ ~ InBloom("ack", a)
       /\ \E bitmap \in IF a \in DOMAIN ack_table
                        THEN {ack_table[a].sent_to_tokens} ELSE {{}, Bits} :
          \E r \in TokenToSendTo(t, bitmap) :
            /\ new = (r.index # -1)
            /\ Install(r, r.now.messages,
                       IF new THEN MarkIn(r.now.acks, a, r.index) ELSE r.now.acks)

\* pcache_mark_token_sent
MarkTokenSent(t, m) ==
    \E r \in TokenToSendTo(t, {}) :
        Install(r, IF r.index = -1 THEN r.now.messages ELSE MarkIn(r.now.messages, m, r.index),
                r.now.acks)

(* The messages pcache_request returns: all of S, or the max of highest     *)
(* priority if max is not 0.                                                *)
TopPriority(S, max) ==
    IF max = 0 \/ Cardinality(S) <= max
    THEN {S}
    ELSE {K \in SUBSET S :
            /\ Cardinality(K) = max
            /\ \A k \in K, d \in S \ K :
                  message_table[d].priority <= message_table[k].priority}

(* pcache_request.  Without a token (all zero) every match is returned.      *)
(* The token of any other request is looked up, and listed, at the first     *)
(* cached message that matches and has not expired; the lookups at the other *)
(* matches find it listed.  A gc in that first lookup moves the table under  *)
(* the loop, which goes on at the old offset: it reads messages that are     *)
(* left, what is still there of those that are not, and garbled ones; the    *)
(* first match may be overwritten, too.                                      *)
Request(t, matching, max, results) ==
    LET candidates == (DOMAIN message_table \cap matching) \ expired
        sent(m) == message_table[m].sent_to_tokens
    IN  \/ /\ candidates = {} /\ results = {}
           /\ UNCHANGED vars
        \/ /\ candidates # {} /\ t = ZeroToken
           /\ results \in TopPriority(candidates, max)
           /\ UNCHANGED vars
        \/ /\ t # ZeroToken
           /\ \E first \in candidates : \E r \in TokenToSendTo(t, sent(first)) :
              /\ Install(r, r.now.messages, r.now.acks)
              /\ LET index == (CHOOSE i \in DOMAIN r.now.tokens : r.now.tokens[i] = t) - 1
                     unsent == {m \in candidates : index \notin sent(m)}
                 IN  CASE r.gc ->
                            /\ results \subseteq DOMAIN message_table \cup {Garbled}
                            /\ max # 0 => Cardinality(results) <= max
                       [] ~ r.gc /\ ~ Listed(t) /\ r.index = -1 ->
                            results = {}
                       [] ~ r.gc /\ (Listed(t) \/ r.index # -1) ->
                            results \in TopPriority(
                                IF r.index = -1 THEN unsent ELSE unsent \cup {first}, max)

(* pcache_trace_request and pcache_trace_reply.  The ids of traces have      *)
(* filters of their own, which are not modelled; they rotate with the others. *)
RecordTrace ==
    /\ \E full \in {0, 1} : RotateFilters(bloom, full)
    /\ UNCHANGED <<message_table, ack_table, token_list, local_token, expired,
                   gc_recent, halted>>

-----------------------------------------------------------------------------
(* Time: a message passes its expiration, a minute passes since the gc.    *)
Expire(m) ==
    /\ m \notin expired
    /\ expired' = expired \cup {m}
    /\ UNCHANGED <<message_table, ack_table, token_list, local_token, filters,
                   gc_recent, halted>>

MinutePasses ==
    /\ gc_recent
    /\ gc_recent' = FALSE
    /\ UNCHANGED <<message_table, ack_table, token_list, local_token, filters,
                   expired, halted>>

Init ==                                     \* initialize_from_scratch
    /\ message_table = [m \in {} |-> NewMessage(0)]
    /\ ack_table = [a \in {} |-> NewAck(0)]
    /\ token_list = <<>>
    /\ local_token = 0
    /\ bloom = [f \in Filters |-> [m \in {} |-> 0]]
    /\ rotations = 0
    /\ expired = {}
    /\ gc_recent = FALSE
    /\ halted = FALSE

Next ==
    /\ ~ halted
    /\ \/ \E m \in Messages, p \in Priorities : SavePacket(m, p)
       \/ \E m \in Messages : RecordPacket(m)
       \/ \E a \in Messages, h \in Hops : SaveAck(a, h)
       \/ \E t \in Tokens \cup {local_token}, a \in Messages, new \in BOOLEAN :
             AckForToken(t, a, new)
       \/ \E t \in Tokens, m \in Messages : MarkTokenSent(t, m)
       \/ \E t \in Tokens, results \in SUBSET (Messages \cup {Garbled}) :
             Request(t, Messages, 0, results)
       \/ RecordTrace
       \/ \E m \in Messages : Expire(m)
       \/ MinutePasses

Spec == Init /\ [][Next]_vars

-----------------------------------------------------------------------------
(* Properties.                                                             *)

\* Every variable has its type.
TypeOK ==
    /\ DOMAIN message_table \subseteq Messages
    /\ \A m \in DOMAIN message_table :
          message_table[m] \in [priority : Priorities, sent_to_tokens : SUBSET Bits]
    /\ DOMAIN ack_table \subseteq Messages
    /\ \A a \in DOMAIN ack_table :
          ack_table[a] \in [max_hops : Hops, sent_to_tokens : SUBSET Bits]
    /\ token_list \in Seq(AnyToken)
    /\ local_token \in 0 .. MAX_GCS
    /\ DOMAIN bloom = Filters
    /\ \A f \in Filters : /\ DOMAIN bloom[f] \subseteq Messages
                          /\ \A m \in DOMAIN bloom[f] :
                                /\ bloom[f][m] \in 0 .. rotations
                                /\ rotations < bloom[f][m] + NUM_FILTERS
    /\ rotations \in 0 .. MAX_ROTATIONS
    /\ expired \subseteq Messages
    /\ gc_recent \in BOOLEAN
    /\ halted \in BOOLEAN

\* A garbage collection always leaves room for the message, the ack or the
\* token it was started for: the cache never calls exit or debug_crash
\* (pcache_save_packet, save_one_ack, token_to_send_to).
NeverHalts == ~ halted

\* No entry of the message table and no slot of the ack table holds more than
\* it has room for, whatever sequence of messages and gcs filled it.
WithinCapacity ==
    /\ \A e \in Entries : Used(InEntry(e)) <= MESSAGE_STORAGE_SIZE
    /\ \A s \in Slots : SlotUse(ack_table, s) <= ACKS_PER_SLOT

\* A token is listed once.  Were it listed twice, token_to_send_to would look
\* at one of its bits only.
TokensDistinct ==
    \A i, j \in DOMAIN token_list : token_list[i] = token_list[j] => i = j

\* A set bit names a token that is listed.  A bit beyond num_external_tokens
\* would pass, by mistake, to the next token that is added at that place.
MarksNameListedTokens ==
    /\ \A m \in DOMAIN message_table :
          message_table[m].sent_to_tokens \subseteq 0 .. Len(token_list) - 1
    /\ \A a \in DOMAIN ack_table :
          ack_table[a].sent_to_tokens \subseteq 0 .. Len(token_list) - 1

\* The tokens for which the bitmap of an entry of table says "sent".
Reached(table, x) ==
    IF x \in DOMAIN table
    THEN {token_list[i] : i \in {j \in DOMAIN token_list :
                                    j - 1 \in table[x].sent_to_tokens}}
    ELSE {}
KnownTokens == {token_list[i] : i \in DOMAIN token_list}

\* The messages' bitmaps keep the promise of SentMemory: pcache_mark_token_sent
\* marks "that this message need never again be sent to this token" and no
\* other token, across the gcs that move the tokens in the list.
MessageMarks == INSTANCE SentMemory WITH
    Items <- Messages, held <- DOMAIN message_table, known <- KnownTokens,
    reached <- [m \in Messages |-> Reached(message_table, m)]
MessageMarksKept == MessageMarks!Spec

\* The same for the acks: pcache_ack_for_token returns 1 "if the ack has not
\* yet been sent to this token".
AckMarks == INSTANCE SentMemory WITH
    Items <- Messages, held <- DOMAIN ack_table, known <- KnownTokens,
    reached <- [a \in Messages |-> Reached(ack_table, a)]
AckMarksKept == AckMarks!Spec

\* A system that asked us for data before is told, by a new local token, that
\* we no longer hold all of what it sent us: a message that leaves the cache
\* without having been acked changes the local token.
LossChangesLocalToken ==
    [][\A m \in DOMAIN message_table \ DOMAIN message_table' :
          m \in DOMAIN ack_table' \/ local_token' # local_token]_vars

\* the messages that were lost with a whole entry, to let in a message of half
\* an entry or more (gc_messages_entry)
LostForBig ==
    {m \in DOMAIN message_table \ DOMAIN message_table' :
        \E big \in DOMAIN message_table' \ DOMAIN message_table :
            FreesEverything(Size[big]) /\ EntryOf[big] = EntryOf[m]}

\* What is dropped is remembered, however often the dropped ids themselves make
\* the Bloom filters rotate: a message that leaves the cache, or an ack, is
\* found in the filters, or the message's ack is held instead.  Only a message
\* of half an entry or more is let in at the price of forgetting.
DroppedIsRemembered ==
    [][/\ \A m \in DOMAIN message_table \ DOMAIN message_table' :
             \/ m \in DOMAIN ack_table'
             \/ InBloom("message", m)'
             \/ m \in LostForBig
       /\ \A a \in DOMAIN ack_table \ DOMAIN ack_table' :
             InBloom("ack", a)' /\ InBloom("message", a)']_vars
=============================================================================
