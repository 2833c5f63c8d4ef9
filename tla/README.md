# A TLA+ specification of AllNet for Android

AllNet is an overlay and ad-hoc network whose nodes keep, forward and
acknowledge encrypted messages for each other. The app in this repository runs
an AllNet daemon and the chat program `xchat` as threads of one native library,
written in C (`app/src/main/cfiles`), below a small Kotlin user interface. This
directory holds TLA+ models of the C code, the TLC runs that check them and
TLAPS proofs about them. File names below are relative to
`app/src/main/cfiles`.

## The system

| part | state it keeps | operations | talks to |
|---|---|---|---|
| packet cache, `lib/pcache.c` | hash table of messages, hash table of acks, list of up to 64 tokens, own token; all three saved to `~/.allnet/acache` | save or record a packet, save acks, look up an id or an ack, answer a data request, mark as sent, garbage collect | Bloom filters; called by the daemon only |
| Bloom filters, `lib/pid_bloom.c` | 4 selectors of 16 generations of 8 x 65536 bits, a load per selector | add, look up (a hit is copied to the newest generation), advance, save | packet cache |
| daemon, `ad.c` | the socket set, the virtual clock, routing of replies | one loop: read a packet, handle acks, messages, data requests or management packets, forward | packet cache, routing, sockets, DHT |
| sockets, `lib/sockets.c` | sockets, and per address: time limit, send and receive limits | read, send to all, add and delete addresses, keepalives | daemon, keepalive thread |
| routing and DHT, `lib/routing.c`, `lib/adht.c` | ranked peers, ping list, own address (file) | look up, add, expire, ping | daemon, ping thread, timers |
| pipes and queues, `lib/pipemsg.c`, `lib/allnet_queue.c`, `lib/pqueue.c` | bounded rings of packets, receive buffers, priority queue | enqueue, dequeue, wait, split and reassemble | nobody in this app |
| duplicate and rate records, `record.c`, `track.c`, `social.c`, `lib/priority.c` | two hash tables of packet hashes, a ring of 128 rates | look up and insert, rate of a source, priority | daemon |
| chat, `xchat/*.c` | per contact: message files, sequence numbers, missing sets, ack files, retransmission state | send, receive, ack, request and resend what is missing, exchange keys | daemon through a socket, user interface |
| contacts and keys, `lib/keys.c`, `mgmt/keyd.c` | contacts, key sets, groups, incomplete exchanges | create, complete, delete | chat, key daemon |
| stream encryption, `lib/stream.c` | counter, block offset, keys | encrypt, decrypt with the counter of the packet | `xchat/cutil.c` |
| decrypted packet cache, `lib/dcache.c` | LRU list under a mutex | add, get, match, remove with a release callback | `xchat/xcommon.c` |
| trace, `mgmt/trace.c`, `lib/trace_util.c` | ids seen (in the packet cache) | answer and forward trace requests | daemon |

What is hard in it, and is what the properties are about:

* An item that is cached carries a bitmap that refers to positions in the token
  list, and any call that adds a message, an ack or a token may collect
  garbage: it moves the list, the bitmaps, the entries of the tables, the
  Bloom filters and the own token under its caller.
* "Seen before" is spread over four places (table, ack table, two filters) of
  different life times.
* Handlers of the daemon copy the own token and use it after calls that change
  it; requests iterate over a table that a call in the loop compacts.
* Data requests carry a token that each hop replaces, while the identity of a
  request without explicit id is the hash of its contents.
* Bounded structures (caches, address lists, filters) decide what is lost when
  they are full.
* The daemon holds a pointer into an array of addresses while it sends, which
  compacts that array.
* Threads write the three files of the cache independently of each other; a
  crash leaves them from different moments.
* Chat messages are lost, duplicated and reordered; sequence numbers, acks and
  requests for what is missing must eventually bring them across.
* Two programs exchange keys over a network that loses and repeats them, with
  rate limits on both sides, and each user ends the exchange when he likes.

The correctness of each part, in a sentence. The packet cache never withholds a
packet from a system it was not sent to, never sends one twice to a system it
knows, never caches what is acked, remembers what it drops, tells its peers (by
a new token) when it has lost messages, and always makes room. The daemon
forwards each packet once. The filters keep what they are given for a known
number of rotations. The sockets neither flood who is silent nor forget who
talks. A contact gets the key of somebody who knows its secret, once, and both
sides get one. The chat delivers every message once, and retransmits until it
is acked.

## The modules

### SentMemory

The abstract specification of one table of the packet cache: the items it
holds, the tokens it knows, and for each item the tokens it need not be sent
to. Items and tokens come and go freely; a mark is made for one token at a time
and lasts as long as its item is held and its token is known.

### PCache

`lib/pcache.c` with one action for each operation of `pcache.h` that changes
its state:

| action | code |
|---|---|
| `SavePacket`, `RecordPacket` | `pcache_save_packet`, `pcache_record_packet` |
| `SaveAck` | `save_one_ack`, one turn of the loop of `pcache_save_acks` |
| `AckForToken` | `pcache_ack_for_token`, one turn of `pcache_acks_for_token` |
| `MarkTokenSent` | `pcache_mark_token_sent` |
| `Request` | `pcache_request` |
| `RecordTrace` | `pcache_trace_request`, `pcache_trace_reply` |
| `Expire`, `MinutePasses` | time: `is_expired_message`, the last gc of `token_to_send_to` |

`do_gc` is not an action: it happens inside the operations that call it, as the
set `GcResults` of the tables it may leave behind. `message_table` and
`ack_table` are functions from the ids they hold; the entry and slot an id
hashes to are the constants `EntryOf` and `SlotOf`, and the offsets within an
entry are abstracted to the sum of the sizes in it. `token_list` is the
sequence of the tokens in use, so `num_external_tokens` is its length, and a
bitmap is the set of its one bits. `ShiftToken` keeps the byte order: the C
code reads the bitmap, a `uint64_t` of the host, as eight big-endian bytes.
`local_token` counts how often the 16 random bytes were drawn. `halted` is set
where the code calls `exit` or `debug_crash`.

A Bloom filter is, for each id that was added, the number of rotations before it
was last added (`bloom`, `rotations`); after `NUM_FILTERS` more it is forgotten.
The filters of all selectors rotate together, at the end of `do_gc` and whenever
an id fills the newest generation of one (`lib/pid_bloom.c:175`), which an id of
a trace, a recorded packet or a refreshed hit may do as well as a dropped one.
How full a generation is depends on the bits of all ids and is left open: any id
that is not in the newest generation may be the one that fills it
(`AddToBloom`), and the ids that one collection drops may fill up to `GC_FILLS`
generations. That constant is below `NUM_FILTERS` - 1 (`FilterAssumption`): with
`ALLNET_RESOURCE_CONSTRAINED` (`lib/util.h:348`) the tables have 64 Ki places for
acks, of which a collection frees about half, and 4 MiB for messages of at least 56
bytes with their header. That is less than 2^17 ids, and the newest filter takes
2^14, so that fewer than ten generations of 16 are filled. False positives are
left out.

`Request` has the two cases of `pcache_request`: without a token (all zero,
`lib/pcache.c:1650`) every match is returned; with one, the token is looked up,
and listed, at the first match. If that collects garbage, the loop goes on at its old
offset in a table that was compacted: what it returns is any set of messages
that were cached, and `Garbled` packets, read from the middle of a message.

### AllNetDaemon

The handlers of `ad.c` on top of PCache. The daemon is single threaded; a
handler that calls the cache several times is several steps, and `busy` holds
what it has yet to do: the token it copied, the acks it has yet to save or
check, the answers it has yet to send, the request or trace it has yet to save.

| actions | code |
|---|---|
| `ReceiveAcks`, `SaveNextAck`, `CheckNextAck` | `process_acks`: the token is copied, all acks are saved, then each is looked up for that token |
| `ReceiveKnown`, `ReceiveNew` | `process_message` for a packet that is neither an ack nor a data request: dropped if known, else saved or recorded, and forwarded |
| `ReceiveRequest`, `AnswerRequest`, `SendAnswer`, `FinishRequest` | the same for a data request: its own id is looked up, the cached messages are looked for and sent one by one, our token replaces that of the request, and the request is saved or recorded (under another id if it has no explicit one), and forwarded |
| `ReceiveTrace`, `SaveTrace` | `process_mgmt`: the id of a trace is remembered, the reply and the request are saved |
| `Time` | between two packets |

Three history variables record what was forwarded and answered, for as long as
the code can know of it: `forwarded_acks` and `answered` forget what was for a
token that is not listed any more (`answered` also messages that are not
cached any more), and everything when bits have lost their names (`TokensKept`, on a little-endian host when a collection
drops tokens); `forwarded_at` forgets after `NUM_FILTERS` rotations.

### Flooding

A network of daemons that run the rules of `ad.c` about what was seen before
and about hops (`process_message`, `process_mgmt` for traces, `send_out`).
`flying` holds the packets under way, each with the token and hop count it left
with; `seen` the identities each daemon has recorded; `Neighbors` and
`DhtPeers` are what `socket_send_out` and `routing_top_dht_matches` send to,
constant here.

| action | code |
|---|---|
| `SendLocal` | a packet that a program of the system sends to its daemon |
| `Receive` | a packet from outside: dropped if seen, else recorded and sent on |
| `NewToken` | a garbage collection in the packet cache of a node |
| `Lose` | the network |

### Chat

One direction of a conversation: `xchat/cutil.c`, `message.c`, `retransmit.c`,
the sequence numbers of `store.c`, and `handle_data`, `handle_ack` and
`request_and_resend` of `xcommon.c`. A message is named by its place in the
sender's log, which stands for its random ack, so that two messages that got
the same sequence number remain two.

What survives a crash are the logs and the two files of the highest numbers
(`sent`, `acked`, `last_sent`, `stored`, `last_received`); the caches do not.
`gui` and `reader` are the two threads of the sender, the one that sends and
the one that handles packets. `unacked_cache` is shared by them, and each reads
it, reads the log and writes it back in separate steps, because `message.c`
takes its lock for each of these and not for the whole.

| actions | code |
|---|---|
| `Save`, `Record`, `Transmit`, `Reload`, `Add` | `send_data_message`: append to the log, write `last_sent`, send, empty and reload the cache of what is unacked |
| `Poll`, `GetUnacked`, `AddUnacked` | `request_and_resend`: `get_unacked` and `resend_unacked` |
| `HandleAck` | `handle_ack`, with `reload_unacked_cache` |
| `HandleRequest`, `Eager` | `do_chat_control`, `resend_messages`, and the call of `request_and_resend` after it |
| `Receive`, `ReceiveAgain`, `Acknowledge` | `handle_data`: `was_received`, `save_record`, `send_ack`; a message whose id is in the table of recent ids |
| `PollReceiver`, `EagerRequest` | `send_retransmit_request` with `get_missing` |
| `ReceiveOther` | a message of another contact replaces the cache of `is_in_cache` |
| `HalfMinute` | what was resent half a minute ago may be resent |
| `Lose`, `CrashSender`, `CrashReceiver` | the network; either program is killed and started again |

The several rate limits of `request_and_resend` are abstracted to: any call may
be refused. That a packet is lost between two packets and not during the
handling of one is no restriction, since a lost packet cannot be told from one
that waits.

### IdMemory and PidBloom

IdMemory is what a caller may expect of the Bloom filters, an age for each id:
what was added or found is found again until the memory was advanced
`NUM_FILTERS` times. PidBloom is `lib/pid_bloom.c` bit by bit: an id is a
function from the levels of a filter to positions, a generation the set of the
positions set at each level. `age` and `saved_age` are history variables, and
`Remembers` says that PidBloom implements IdMemory.

| action | code |
|---|---|
| `Add`, `IsIn` | `pid_add_to_bloom`, and `pid_is_in_bloom`, which copies an older hit to the newest generation |
| `Advance` | `pid_advance_bloom` and `pid_save_bloom`, at the end of `do_gc` |
| `Save` | `pid_save_bloom`, from `pcache_write` |
| `Restart` | the program is killed; `bloom_init` with `init_filter_load` |

The file is written in place. A write that fails or is cut off leaves a file
that `bloom_init` deletes, here `NoFile`; if the file cannot be opened the old
one stays.

### Sockets

The addresses the daemon sends to (`lib/sockets.c`) and what one turn of
`allnet_daemon_loop` does to them. There is one list for the local sockets and
one for the others; a time limit is what is left of it on the virtual clock.
`packet` is the result of `socket_read`, with the pointer `r.sav` as a place in
a list (`slot`) and what is at that place now (`addr`); `todo` are the calls the
handler has yet to make.

| action | code |
|---|---|
| `Receive` | `socket_read` with `update_read`, and `add_received_address` |
| `SendLocal`, `SendOut` | `socket_send_local`; `send_out`; each deletes the addresses whose limit is used up, and any number of others to which sending fails |
| `DhtProcess`, `UpdateDht` | what DHT packets and the expiry of the routing table do to the lists |
| `Answer` | the keepalive at the end of the loop, to what `r.sav` is by then |
| `Clock` | `update_virtual_clock`, which ticks at most once for each valid packet |

### KeyExchange

The exchange of keys between contacts: `create_contact_send_key`,
`resend_pending_keys`, `send_key` and `handle_key` of `xchat/xcommon.c` with the
contacts and exchange files of `lib/keys.c`. An exchange is one keyset, one
user's contact for another; any number of them, with one or two secrets each,
belong to any number of systems. `Befriended` are the systems that have another
contact, a visible one. On disk are the contact, its exchange file and
the key of the peer; in memory the contact and secret `send_key` sent last
(`most_recent`) and the exchanges that were resent lately (`resent`). `net` is
the set of packets that exist; one stays there when it is received, and may
come again, also to its sender.

| action | code |
|---|---|
| `CreateContact`, `WriteAndSend` | `create_contact_send_key` for a new contact, which may be interrupted between the contact and the file |
| `SendAgain` | the same for a contact that exists, and `resend_contact_key` |
| `ResendPending` | `resend_pending_keys`, from `request_and_resend`, which `do_request_and_resend` calls only if there is a visible contact (`HasVisibleContact`) |
| `ReceiveKey` | `handle_key`, with the answer |
| `Complete` | `incomplete_exchange_file` deletes the file, when the user or the app wants it |
| `MinutePasses`, `DelayPasses` | time |
| `Lose`, `Crash` | the network; a program is killed and started again |

### Modules for the model checker

`MCPCacheTokens`, `MCPCacheGc`, `MCAllNetDaemon`, `MCFlooding`, `MCPidBloom` and
`MCKeyExchange` give the function-valued constants (which entry or slot an id
hashes to, sizes, the graph, the secrets) and the symmetry sets. Chat and
Sockets have only numbers and sets as parameters and are run as they are.

## The runs

Each property has a comment in its module that says which behaviour of the code
it is about.

| run | configuration | shows |
|---|---|---|
| `pcache_tokens` | `MCPCacheTokens.cfg` | marks in the bitmaps survive garbage collections and stay with their systems, and both tables implement SentMemory, on a big-endian host |
| `pcache_tokens_little` | `MCPCacheTokensLittle.cfg` | not so on a little-endian host (finding 1) |
| `pcache_gc` | `MCPCacheGc.cfg` | a garbage collection always makes the room it was called for, peers learn of every loss, what is dropped is remembered, also when the dropped ids fill a generation of the filters |
| `daemon_acks` | `MCDaemonAcks.cfg` | acks and their messages in any order, under garbage collections in the middle of a packet and rotations of the filters at any call, on a little-endian host |
| `daemon_requests` | `MCDaemonRequests.cfg` | no message is marked and sent twice in answer to a token the cache knows, and no ack is forwarded twice, with messages of both kinds of ids and requests with and without a token, on a little-endian host |
| `flooding` | `MCFlooding.cfg` | floods end, forward each message once and reach everyone |
| `chat` | `MCChat.cfg` | numbers, requests and the log across losses, reordering and a crash at any step |
| `chat_push` | `MCChatPush.cfg` | what is pushed gets acked in the end |
| `chat_unstored` | `MCChatUnstored.cfg` | a message can be acked without being stored (finding 2) |
| `pid_bloom` | `MCPidBloom.cfg` | the filters implement IdMemory, whatever collides, through rotations, saving and loading; their loads are right |
| `sockets` | `MCSockets.cfg` | send limits, keepalives and time-outs hold while lists are compacted under the daemon |
| `key_exchange` | `MCKeyExchange.cfg` | contacts get one key, of somebody with the secret, and both sides get one if the side whose secret it is has a visible contact already, across losses, repetitions and a crash at any step |

Four more configurations belong to no run. Each reproduces an observation made
below, by the violation of a property the code does not have:

| configuration | module | property |
|---|---|---|
| `MCDaemonAckAged.cfg` | `MCAllNetDaemon` | `SavedAckNotCached` |
| `MCDaemonUnmarked.cfg` | `MCAllNetDaemon` | `SentIsMarked`, with messages named by their hash |
| `MCFloodLoops.cfg` | `MCFlooding` | `RequestsFloodedOnce` |
| `MCKeyExchangeSuccess.cfg` | `MCKeyExchange` | `SuccessIsMutual` |


### Bounds, and why they are enough

*Packet cache.* The code has tables of thousands of entries; what matters is
when an entry, a slot or the token list is full, so all of them are made tiny.
`MAX_TOKENS` is 4 instead of 64, the least multiple of four: a garbage
collection drops one token, a quarter. `BYTE_BITS` is 1, so that four tokens
are several bytes, which is what the byte order is about. Five tokens of
others, in `daemon_requests` three and our own tokens that come back to us with
acks, fill the list and need its garbage collection. `MAX_GCS` limits the
collections of a behaviour, and with them the values of `local_token`: one
suffices to shift every bitmap, two are needed to drop a message twice.
`MAX_ROTATIONS` limits the rotations of the filters. With two generations, the
three of the daemon runs forget an id, add it again and forget that, in
collections and without; in `pcache_gc` the ids that a collection drops may fill
one generation (`GC_FILLS` = 1) of three. `pcache_gc` has two sizes so that one
message makes `gc_messages_entry` free the whole entry, and two priorities.
One entry and one slot are enough since entries interact only through the
collection, which treats each alike.

*Daemon.* Packets of one or two acks, with slots of one ack, make the second
ack of a packet evict the first. `daemon_requests` has a message with an
explicit id and one that is named by its hash, and the zero token.

*Flooding.* A triangle has the least cycle, where copies overtake each other;
the fourth node behind it is reached by a path of two hops. Two sends, the same
packet or two, one loss, one change of token. The limit of hops is three for
the message, so that it cannot stop it, and two for the others, so that it can.

*Chat.* Two messages after one of an earlier session. The earlier one matters:
only when the file `last_sent` exists can the number of a message be given
again after a crash. `MAX_SEND` is 1 so that the limit of what is pushed at
once is felt with two messages, `MAX_RESEND` is 2. One crash of either program
at any step; one request under way, another one is lost. `chat_push` is about
liveness, whose check costs more: two messages, no crash, and no request,
because a request would help, and pushing alone is to suffice.

*Bloom filters.* Two levels of two bits, two generations, and a load of at
most two, so that three ids that each set a bit of their own rotate all. One selector has
three ids of which the third collides with the other two, the other selector
one id, whose rotations the first feels. Saving, its failure and restarts are unbounded.

*Sockets.* Three outside addresses are the least for which an entry is removed
before, at and behind the place `r.sav` points to; one of them may be in the
routing table. `SEND_LIMIT` is 2 (of 99) and `RECV_LIMIT` 1 (of 20), so that
both limits are met in the handling of one packet.

*Key exchange.* Two systems, one exchange each, and two secrets: Alice's, which
Bob typed, and the one made for Bob. Alice has a visible contact already; for
Bob it is the first exchange. Carol's packets have Alice's secret.
One crash of either program. Packets are a set, so that they repeat without a
bound.

`CHECK_DEADLOCK FALSE` stands in the configurations of the cache, the daemon,
the flooding and the sockets because their bounds can be used up: nothing can be done once
a table is full and `MAX_GCS` collections are spent, or once all packets were
sent and have arrived; with the sockets the daemon waits when nobody sends. The
others never stop, and are checked for deadlock.

Permutations of messages and of tokens are symmetries of the cache and the
daemon. No liveness property is checked with symmetry.

### Fairness

*Flooding*: weak fairness of `ReceiveAny`, that some packet under way is
received, or lost: `allnet_daemon_loop` reads one packet after the other. It
does not say which.

*Chat*: weak fairness of the steps of each thread in the middle of a call,
since nothing in them blocks, and of `HalfMinute`, since time passes. Strong
fairness of `Poll`: `handle_packet` begins with `request_and_resend` for every
packet, packets (keepalives of the daemon among them) come for ever, and a call
refused by a rate limit is made again with the next one. Strong fairness of the receipt of each data
message and of its ack, per message: a packet that is sent again and again
arrives at some time. This is what a lossy network must give for any
retransmission to be of use. Nothing is assumed of the user, of requests, and
of losses.

*Sockets*: weak fairness of `Handle`, the calls made for a packet that was
read: none blocks. Nothing makes packets come; `SilentForgotten` is about
behaviours in which the clock goes on, and the clock needs valid packets.

*Key exchange*: weak fairness of `WriteAndSend`, which is the rest of a call, of
time, and of `ResendPending`: packets come for ever, keepalives of the daemon
among them, each makes `handle_packet` poke the next visible contact, and that
leads to `resend_pending_keys`. Without a visible contact
(`HasVisibleContact`) the action is disabled and nothing is assumed: contacts
are hidden until their exchange is complete (`lib/keys.c:1046`, `CHelper.c:188`),
`all_contacts` lists the visible ones only (`lib/keys.c:661`), and
`do_request_and_resend` returns when there is none (`xchat/xcommon.c:456`). Strong fairness of the
receipt of each key packet, as in the chat. Nothing is assumed of the user.

## What is proved

All theorems hold for every value of the constants that satisfies the named
assumptions. A condition that a theorem has in addition is part of its
statement, and is given here.

| module | theorem | says |
|---|---|---|
| `PCacheProofs` | `TypeCorrect` | `TypeOK` |
| | `CacheNeverHalts` | `exit`, `debug_crash` and asserts are unreachable: a garbage collection makes the room it was called for |
| | `CacheWithinCapacity` | no entry and no slot is ever overfull |
| | `CacheTokensDistinct` | no token is listed twice |
| | `LossIsVisible` | a message that leaves without having been acked changes the local token |
| | `DropsRemembered` | what is dropped is in the Bloom filters |
| `PCacheMarkProofs` | `MarksListed` | if each step has `TokensKept`, no bitmap has a bit beyond the tokens in use, so that a new token inherits nothing |
| | `MessageMarksImplemented`, `AckMarksImplemented` | under the same condition each of the two tables implements SentMemory |
| `AllNetDaemonProofs` | `DaemonTypeCorrect` | `DaemonTypeOK` |
| | `AckedStayOut` | a message whose ack is held is not cached |
| | `DaemonKeepsMarks` | used by the daemon, too, both tables implement SentMemory, under the same condition |
| | `AnswersNew` | no message is marked and sent twice in answer to a token that the cache knows, as long as it holds the message; on a little-endian host, as long as no token is dropped |
| | `CheckedAcksKnown` | every ack of a packet is known when it is checked, unless the filters have rotated `NUM_FILTERS` times since the packet came |
| | `AcksForwardedOnce` | within such a time an ack is forwarded once for each local token that stays in the list; on a little-endian host, as long as no token is dropped |
| | `SeenDropped` | a packet is forwarded again only after `NUM_FILTERS` rotations, unless it was lost to a message of half an entry or more |
| `FloodingProofs` | `TypeCorrect` | `TypeOK` |
| | `EachFloodedOnce` | in any network a message or trace request is forwarded at most once by each daemon, and never by its origin |
| `ChatProofs` | `TypeCorrect` | `TypeOK` |
| | `NumbersIdentify` | no two messages are transmitted with one number |
| | `NumbersStoredOnce` | no number is stored twice |
| | `MissingIsAskedFor` | requests ask for what is missing and report what is there |
| `PidBloomProofs` | `TypeCorrect` | `TypeOK` |
| | `BloomRemembers` | the Bloom filters implement IdMemory, whatever ids collide |
| | `LoadsHonest` | the load of a filter is between the number of its bits and that of its newest ids, whatever ids collide, also after a restart |
| `SocketsProofs` | `TypeCorrect` | `TypeOK`: no address is listed twice, on the wrong socket or without a limit |
| | `SendsLimited` | nobody is sent more than the send limit before being heard, but for one keepalive gone astray; the limit of a listed address is exactly what is left |
| | `KeepalivesSent` | who is heard `RECV_LIMIT` times is sent a keepalive, unless handling the packet deleted its address or one listed before it |
| `KeyExchangeProofs` | `ExchangeTypeCorrect` | `TypeOK` |
| | `KeyIsOfASharer` | the key of a contact came with one of its secrets, and is not its own |
| | `KeyIsKept` | the key of a contact is never replaced |

### The arguments

*PCacheProofs.* The type invariant is not inductive alone, nor is that the
cache never halts: a collection makes room for one message only if the entry
was within its capacity before, and the tokens stay distinct only if there are
at most `MAX_TOKENS` of them. `IInv` is the conjunction `Good` of the parts
(tables well typed, entries and slots within capacity, tokens distinct, filters
well typed) and `~halted`. One group of lemmas shows that every element of
`GcResults` is `Good` again and has the room wanted (`GcGood`), one that every
outcome of `TokenToSendTo` is, and then there is one lemma per operation. That
what is dropped is seen and remembered follows from `IInv` operation by operation; it
needs that a message of no size frees no whole entry (`EntryAssumption`: a
header is less than half of `MESSAGE_STORAGE_SIZE`), for the collections that
make room for an ack.
Assumptions: `TokenAssumption` and `TableAssumption` (sizes are natural numbers,
a message with its header fits into an entry, `MAX_TOKENS` is a positive
multiple of 4 and of `BYTE_BITS`, and there are finitely many messages) and
`EntryAssumption`, and `FilterAssumption`, from which it follows that what a
collection drops is still in the filters after it (`DropsRemembered`), although
these ids may rotate the filters themselves. A filter is well typed if no
id in it is older than `NUM_FILTERS` rotations or from the future (`Stamped`), and
`Follows` says that an operation only renews and forgets ids. The space used in an entry is the number of its bytes
(`Used`), so that what the proofs need of it follows from the library's theorems about
cardinality (`UsedIs`), without induction.

*PCacheMarkProofs.* `MInv` adds to `IInv` that every bit is below the number of
tokens. Collecting tokens shifts bitmaps and list by the same distance; on a
little-endian host the lemma `ShiftTokenBelow` is false for a distance other than
0, which is finding 1. So the condition of the theorems is a box of
`TokensKept`: the host is big-endian, or the list keeps what it has at its place.
A daemon on Android is of the second kind until the first collection that finds
a full list, of `MAX_TOKENS` = 64 tokens of others and of its own; the collections
before that, which are called for messages and acks, leave the list as it is.
`KeptByAligned` derives from it that the shift of a collection is 0
(`Aligned`). From `MInv` each operation is shown to be a step of
SentMemory or none, for each of the two tables: what is listed for a token after
a collection was listed before.

*AllNetDaemonProofs.* Each step of the daemon is one operation of the cache at
most (`DaemonStepIsCacheStep`), so that the lemmas of the other two modules
apply. `OutInv` makes `AckedNotCached` inductive: only packets with an explicit
id are acked, and a request that is yet to be saved is not acked. The
others need more:

* `AnswersNew`: `AnsweredMarked`, that whatever is in `answered` still has the
  mark of that token. A mark lasts as long as the token list keeps its tokens
  (`Lasts`, which needs `TokensKept` and, unlike `MInv`, nothing about bits that
  name no token); when it does not, `answered` is empty. What `pcache_request`
  returns is unmarked for the token, also the messages that a collection has moved
  under its loop, since that only happens if the token was not listed before.
* `CheckedAcksKnown`: while the acks of a packet are saved, garbage collections
  may evict those saved first, and rotate the filters in which they are then
  remembered. `Batch` says of each ack of the packet that it is yet to be
  saved, or held, or in the filter since the packet came, or that
  `NUM_FILTERS` rotations have passed since (`Held`, `Known`). In the last case
  `pcache_ack_for_token` may read `ack_table [-1]`; nothing in the code excludes
  that, but it takes 16 rotations, each by a collection or 2^14 ids, in one packet.
* `AcksForwardedOnce`: `Forwarded`. An ack forwarded for a token of ours has the
  mark of it (`Sent`), or was evicted, and then that token was replaced by the
  same collection and only the handler that copied it earlier may ask for it
  again, which finds the ack in the filter (`Outdated`).
* `SeenDropped`: `AllRecalled`. A packet forwarded after k rotations is cached, or
  its ack is held, or it is in the filter since k rotations or later. Each
  operation drops nothing without adding it to the filter (`DropStep`), but for
  the entry that `gc_messages_entry` frees as a whole for a message of half of
  `MESSAGE_STORAGE_SIZE` or more (`LostForBig`).

*FloodingProofs.* `Recorded` says that whoever passed a packet on, and the
origin of a packet that was ever sent, has its identity recorded, and `Shape`
that what flies comes from a node and is going to one. The recorded identity is
the received one because messages and traces have an identity that does not
depend on a token (`OneIdentity`); for data requests it is false, see below.
`TypeOK` is inductive: that hops stay within their limit is the guard of
`SendOut`.

*ChatProofs.* That numbers identify messages is not inductive: it depends on
which message is found for a number that the log has twice. `OutInv` says that
what was transmitted is recorded (its number is at most `HighestSent`) and is
the last message of the log with its number, which is the one `get_outgoing`
finds. `Save` preserves it because its new number is above `HighestSent`,
`Transmit` because of `GuiInv` (the message sent is the last of the log),
resending because only numbers up to `HighestSent` are asked for
(`NumbersInv`, `NetInv`: in the cache, in both threads, in requests under way).
`HasMax` of the sets of numbers is part of the invariant. `TypeOK` needs
`Fits`, that the nth message of the log has a number of at most n: else the
numbers, of which some are used twice, would not be known to stay within the
number of messages.

*PidBloomProofs.* The invariant: an id of age n has its bits in generation n + 1, of
the filters in memory (`InMemory`) and, with its saved age, of those in the file
(`InFile`). Advancing shifts ages and generations alike (`AdvancedHeld`), adding
only sets bits (`AddedHeld`). How ids are counted plays no part in that: it decides when
the filters advance, not what they hold. For the loads `LoadInv` adds the
converse (`Bits`): what is set in the newest generation comes from ids of age 0,
in memory and in the file. So the load that a start counts from the file is at
most the number of ids saved with age 0 (`RecountedIsHonest`), and an id that
has a new bit is not of age 0, so that the load and the number of newest ids grow together
(`AddedIsHonest`). That there are finitely many ids, and that the depths have a
fullest one, is proved (`FiniteIds`, `GreatestNumber`), from the theorem of the
library that the natural numbers are well founded.

*SocketsProofs.* The lists are compacted while `r.sav` points into one of them.
`CompactedIs` says what `socket_addr_loop` does to a list, by counting the slots
that are kept: no address is new or there twice, and as long as none of the
first p entries has gone, they have not moved (`Thinned`, which is transitive:
`send_out` compacts twice). So `SavKept` is inductive: r.sav is the entry of the
sender until an address listed before it, or its own, is deleted, and some
address of the same socket ever after. `IInv` adds to it

* `CountedIn`: for a listed address, the packets counted since the limit was set
  and the limit make up `SEND_LIMIT`, and those heard and the receive limit are
  at most `RECV_LIMIT` (less if invalid packets were counted);
* `SentAtMost`: only between the answer and the clock, which forgets deleted
  addresses, can the send limit be exceeded, and by one: that is where a
  keepalive that goes astray is counted;
* `HeardAtMost`: what was heard reaches `RECV_LIMIT` only for the sender of the
  packet under way, and only if `recv_limit_reached` is set;
* `Pending`: while r.sav is set the answer is still to come, followed by the
  clock and the DHT. So the clock and `update_dht`, which compact lists without
  following r.sav, only run when it is not used any more (`SavUnused`).

The only assumption is `SocketsAssumption` (limits are positive, the send limit
is at least 2, and local and outside addresses differ).

*KeyExchangeProofs.* `TypeOK` is inductive; its last part, that a contact which
is not ready has neither file nor key, is what makes `handle_key` and a crash in
the middle of `create_contact_send_key` exclude each other. `KeyStep` says which
steps change a key, and to what; the other two theorems follow from it.

Only model-checked: liveness (`EveryoneReached`, `FloodEnds`, `PushedUntilAcked`,
`SilentForgotten`, `LearnsKey`), which the prover does not cover.

## What the models showed

Two disagreements of the code with its own comments that lose messages, each the
counterexample of a run:

1. `shift_token` (`lib/pcache.c:725`) treats a bitmap of the host as big-endian
   bytes. On the little-endian machines the app is built for, a garbage
   collection of the tokens moves marks to tokens they were not made for, and a
   message is withheld from a system it was never sent to.
2. `was_received` (`xchat/message.c:764`) takes for received every number of a
   contact once the cache is loaded for that contact: a message that arrives
   after one with a higher number, and after a request was made, is acked and
   not stored.

Observations that no run is spent on. About the packet cache and the daemon:

* `save_one_ack` (`lib/pcache.c:1129`) does not look for the message of an ack
  that its Bloom filter knows. If the message was cached again after its id
  had left the other filter, it stays (`MCDaemonAckAged.cfg`).
* The wrong marks of finding 1 also break what the daemon promises: on a
  little-endian host, after a collection that drops tokens, an ack may be
  forwarded twice for one local token and a message sent twice to one system.
  `AckForwardedOncePerToken` and `AnswersAreNew` say nothing of what was
  sent before such a collection.
* `send_message_to_one` (`ad.c:421`) appends the priority before it marks the
  packet: the id of a message that is named by its hash is then another one,
  nothing is marked, and a local program gets it again with every request
  (`SentIsMarked` in `MCDaemonUnmarked.cfg`).
* `process_message` (`ad.c:670`) looks up a data request with the token it came
  with and records it with its own: one that loops is forwarded again until
  its hops are used up (`MCFloodLoops.cfg`).
* `do_gc` draws a new local token in every collection, also one that loses no
  message because it was called for an ack (`lib/pcache.c:961`, 1148), against
  the comment at lines 16-17. After that acks are forwarded again, since they
  are new for the new token (`ad.c:505`).
* A rotation of the Bloom filters needs no garbage collection: adding an id to a
  full filter rotates those of all selectors (`lib/pid_bloom.c:175`). How long a
  packet is remembered is therefore bounded by rotations only, and a flood of
  trace requests shortens it for messages and acks.
* A Bloom filter with a load of exactly `MAX_FILTER_LOAD` is accepted while ids
  are added (`lib/pid_bloom.c:177`) and rejected when it is loaded (line 59),
  and with it all filters of all selectors: `Loaded`.

About the sockets:

* Sending for a packet may compact the list that `r.sav` points into
  (`lib/sockets.c:598`, `ad.c:745`). The keepalive at the end of the loop then goes
  to another address and is counted for it: `KeepaliveEvery` excuses the case
  (`gone`), and `SendLimited` allows one packet more.
* `sockets.h:90` says of `recv_limit_reached` that the limit is set again by the
  caller in every case; for an invalid packet nobody does, and the keepalive is
  sent after the next valid one. `KeepaliveEvery` holds nevertheless, since a
  limit that is 0 stays 0.
* The virtual clock ticks only when a valid packet was handled. In a silent
  network nobody is forgotten.

About the chat and the keys:

* Two threads that reload `unacked_cache` at the same time may leave it out of
  date for good: both compute a list, one of them before a message was sent or
  acked, and the older list is added last. The message is then not pushed until
  another one is sent or acked. `PushedUntilAcked` has the exception `Stale`
  for this; without it, it is violated. A number that was acked but is still in
  the cache also takes one of the places of what is pushed.
* The eager calls of `request_and_resend` are mostly refused, because
  `handle_packet` has called it in the same second (`xcommon.c:1651`, against
  the comment at 1641-1644).
* A program killed between the append to the log and the write of `last_sent`
  leaves a message in its log that is never sent, and gives its number to the
  next one. The proofs show that the contact cannot notice.
* If `was_received` returned what `is_in_cache` says, requests would ask for
  messages that are stored, since `save_incoming` does not update the cache:
  both have to change together.
* The Android app completes an exchange as soon as it has the key and says "Key
  was exchanged with SUCCESS!!!" (`strings.xml:44`, `KeyExchangeActivity.kt:110`).
  If the peer has not got its key by then, it never will, since no answer is
  sent any more; `xchats.c` waits until its user confirms that the contact has
  also received the key (`MCKeyExchangeSuccess.cfg`).
* When both first packets of a user's first exchange are lost, nothing is sent
  again by itself. Pending keys are resent from `do_request_and_resend`, which
  returns when no contact is visible (`xchat/xcommon.c:456`), and a contact is
  hidden until its exchange is complete (`lib/keys.c:661`, 1046). Only the user
  can resend (`resend_contact_key`), or the peer, if he has a visible contact.
* A program killed between `create_contact` and the write of the exchange file
  (`xcommon.c:1764`, 1779) leaves a contact that sends nothing by itself and takes
  no key. The comment of `create_contact` (`lib/keys.c`, "returns as if it were a
  newly created contact") promises a way out, which the caller never takes
  because it looks at `num_keysets` first (`xcommon.c:1759`).
* `send_key` remembers one contact and secret (`xcommon.c:913`): the limit of one
  packet in a minute does not hold for two contacts that take turns. It is
  remembered also when sending fails.
* With two secrets, only the first is sent unasked: `secret2` is sent inside an
  `#ifdef DEBUG_PRINT` (`xcommon.c:1799`). Two users who share nothing but their
  second secrets never learn each other's key; `Expect` leaves that out.
* `key_received_before`, the only reader of the cache of keys, has no caller.

## What is not modelled, and the plan

Not modelled by intent: cryptography (long arithmetic, used here as a
bijection from acks to ids), conversions, start-up, logging, the user
interface; `lib/dcache.c`, on which nothing but speed depends; the queues, which
nothing in this app creates; priorities and rates, which are arithmetic.

Of the parts that are modelled:

* *The files of the packet cache.* The tables of tokens, messages and acks are
  written by calls that are skipped when a table is being written, or was a
  moment ago, and a torn file makes the next start drop all three. After a crash
  the bits of the file of messages and the names in the file of tokens are from
  different moments, and no useful statement about them holds.
* *The copies of the logs in memory* (`xchat/store.c`), several keys and groups,
  deleted conversations, messages older than a week, and the second direction of
  a conversation.
* *Sockets that broadcast*, sockets that come and go with the interfaces, and the
  lock held in `select`.
* *The routing table* beyond its effect on the lists of addresses: the ranked
  peers, the list to ping and its file. In the Android build nothing is pinged.
* *Contacts* that are deleted, renamed, made again with an old secret, or created
  from a symmetric key; two threads in `send_key` at once.
* *Simplifications of Chat.* `sanity_check` of a retransmit request
  (`xchat/retransmit.c:458`) is left out, since only well-formed requests are
  sent. `highest_seq_value` (`xchat/store.c:854`-916) reads the file, scans the
  log and writes the file; it is one step here.
* *Composition.* `PCache` below `AllNetDaemon` is composed. PidBloom is not put
  below PCache, because the filters bit by bit would multiply the states of every
  run of the cache. PCache repeats its own view of the filters, rotations since
  an id was added, with rotations at any addition that may fill a generation.
  That this allows whatever PidBloom does, except for collisions and restarts, is an argument, not
  a checked refinement; IdMemory, which is checked, states the same promise.

