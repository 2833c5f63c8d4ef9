----------------------------- MODULE KeyExchange -----------------------------
(***************************************************************************)
(* The exchange of public keys between contacts (xchat/xcommon.c, and the  *)
(* exchange files of lib/keys.c).  Two users agree on a secret outside of  *)
(* the program; each system sends the key it made for the contact with its *)
(* HMAC under the secret, and takes the key it receives if the HMAC is of  *)
(* a secret in its own exchange file, which is kept until the user says    *)
(* that the exchange is complete.                                          *)
(*                                                                         *)
(* An exchange is one keyset: one system's contact for one peer.  It       *)
(* stands for its own key too.  The network loses, repeats and delays      *)
(* packets, and may bring a system its own.  The program may be killed:    *)
(* contacts, keys and exchange files survive, the static variables do not. *)
(*                                                                         *)
(* Of time, only this is told apart: whether a minute has passed since a   *)
(* system sent a key, and whether the delay of an exchange, a minute and   *)
(* 1% of the age of its file, has passed since it was resent.  Contacts    *)
(* are not deleted, and shown or hidden only by the exchange, not by hand. *)
(* The variables of send_key are shared by two threads without a lock; a   *)
(* call of it is one step here.  save_key_in_cache has no effect:          *)
(* key_received_before, which would use the keys in the cache, is not      *)
(* called.                                                                 *)
(***************************************************************************)
EXTENDS Integers

CONSTANTS
    Systems,
    Exchange,       \* the keysets of all systems
    Position,       \* the order in which incomplete_key_exchanges lists them
    Owner,          \* the system of each exchange
    Secret1,        \* what its user gives as the first secret
    Secret2,        \* and as the second one, or NoSecret
    NoSecret, NoKey,
    Befriended,     \* the systems that have another contact, a visible one
    Strangers,      \* key packets that others send with the same secrets
    MAX_CRASHES     \* bound on the times one of the programs is killed

SecretsOf(e) == {Secret1[e], Secret2[e]} \ {NoSecret}
Secrets == UNION {SecretsOf(e) : e \in Exchange}

Keys == Exchange \cup {m.key : m \in Strangers}
Packets == {m \in [key : Exchange, mac : Secrets] : m.mac \in SecretsOf(m.key)}
               \cup Strangers

ASSUME KeyExchangeAssumption ==
    /\ Position \in [Exchange -> Nat]
    /\ \A e, f \in Exchange : Position[e] = Position[f] => e = f
    /\ Owner \in [Exchange -> Systems]
    /\ Befriended \subseteq Systems
    /\ NoKey \notin Keys
    /\ \A e \in Exchange : Secret1[e] # NoSecret
    /\ \A m \in Strangers : m = [key |-> m.key, mac |-> m.mac]
    /\ MAX_CRASHES \in Nat

VARIABLES
    (* on disk *)
    contact,            \* "none", "created" without its exchange file, "ready"
    exchange_file,      \* "none", "torn" when it cannot be parsed, "good"
    contact_pubkey,     \* the key of the peer, or NoKey
    (* in memory *)
    most_recent,        \* of each system: what send_key sent in the last minute
    resent,             \* the exchanges whose delay has not passed, of the
                        \* info of time_to_resend_key
    (* the network *)
    net,                \* the packets that somebody has
    crashes

disk == <<contact, exchange_file, contact_pubkey>>
vars == <<disk, most_recent, resent, net, crashes>>

Of(s) == {e \in Exchange : Owner[e] = s}

HasKey(e) == contact_pubkey[e] # NoKey

Unsent == [kset |-> NoKey, secret |-> NoSecret]

Init ==
    /\ contact = [e \in Exchange |-> "none"]
    /\ exchange_file = [e \in Exchange |-> "none"]
    /\ contact_pubkey = [e \in Exchange |-> NoKey]
    /\ most_recent = [s \in Systems |-> Unsent]
    /\ resent = {}
    /\ net = Strangers
    /\ crashes = 0

-----------------------------------------------------------------------------
(* Sending a key.  A transmission is the value of the variables send_key   *)
(* changes: the most recent send of its system, and the packets.           *)

\* mutant: the secret is not compared
SentToContact(recent, e, secret) == recent.kset = e

SentInTheLastMinute(recent, e, secret) ==
    recent = [kset |-> e, secret |-> secret]

SendKey(x, e, secret) ==
    IF SentInTheLastMinute(x.recent, e, secret) THEN x
    ELSE [recent |-> [kset |-> e, secret |-> secret],
          packets |-> x.packets \cup {[key |-> e, mac |-> secret]}]

Transmission(s) == [recent |-> most_recent[s], packets |-> net]

Transmitted(s, x) ==
    /\ most_recent' = [most_recent EXCEPT ![s] = x.recent]
    /\ net' = x.packets

\* mutant: the exchange file comes first
FileFirst(e) ==
    /\ contact[e] = "none"
    /\ contact' = [contact EXCEPT ![e] = "created"]
    /\ exchange_file' = [exchange_file EXCEPT ![e] = "good"]
    /\ UNCHANGED <<contact_pubkey, most_recent, resent, net, crashes>>

(* create_contact_send_key for a new contact.  Keys take seconds to make,   *)
(* on a thread of its own: packets are handled, and the program may be      *)
(* killed, between saving the contact and writing the exchange file.        *)
CreateContact(e) ==
    /\ contact[e] = "none"
    /\ contact' = [contact EXCEPT ![e] = "created"]
    /\ UNCHANGED <<exchange_file, contact_pubkey, most_recent,
                   resent, net, crashes>>

WriteAndSend(e) ==
    /\ contact[e] = "created"
    /\ contact' = [contact EXCEPT ![e] = "ready"]
    /\ exchange_file' = [exchange_file EXCEPT ![e] = "good"]
    /\ Transmitted(Owner[e], SendKey(Transmission(Owner[e]), e, Secret1[e]))
    /\ UNCHANGED <<contact_pubkey, resent, crashes>>

\* The user resends the key, or asks for a contact that exists already: with
\* or without an exchange file, none is written.
SendAgain(e) ==
    /\ contact[e] = "ready"
    /\ Transmitted(Owner[e], SendKey(Transmission(Owner[e]), e, Secret1[e]))
    /\ UNCHANGED <<disk, resent, crashes>>

(* Pending keys are looked for when a contact is poked, and only visible    *)
(* contacts are.  A contact is hidden from its creation until its exchange  *)
(* is complete: in a first exchange, nothing is looked for.                 *)
Completed(e) ==
    /\ contact[e] = "ready"
    /\ exchange_file[e] = "none"
    /\ HasKey(e)

HasVisibleContact(s) ==
    \/ s \in Befriended
    \/ \E e \in Of(s) : Completed(e)

\* resend_pending_keys: what has an exchange file is sent with the first
\* secret, whether or not the key of the peer is known.
TimeToResend(s) ==
    {e \in Of(s) : exchange_file[e] # "none" /\ e \notin resent}

Readable(s) == {e \in TimeToResend(s) : exchange_file[e] = "good"}

\* They are sent in order: since send_key remembers one, only the first can
\* have been sent in the last minute, and the last is remembered.
SendReadable(s, first, last) ==
    LET x == SendKey(Transmission(s), first, Secret1[first]) IN
    [recent |-> [kset |-> last, secret |-> Secret1[last]],
     packets |-> x.packets \cup
         {[key |-> e, mac |-> Secret1[e]] : e \in Readable(s) \ {first}}]

ResendPending(s) ==
    /\ HasVisibleContact(s)
    /\ TimeToResend(s) # {}
    /\ resent' = resent \cup TimeToResend(s)
    /\ \/ Readable(s) = {} /\ UNCHANGED <<most_recent, net>>
       \/ \E first, last \in Readable(s) :
            /\ \A e \in Readable(s) :
                 Position[first] <= Position[e] /\ Position[e] <= Position[last]
            /\ Transmitted(s, SendReadable(s, first, last))
    /\ UNCHANGED <<disk, crashes>>

-----------------------------------------------------------------------------
(* Receiving a key: handle_key.  The first contact with an exchange file    *)
(* that has the secret of the HMAC takes it, unless it is its own key.      *)

\* mutant: no received_my_pubkey
MatchesMine(e, m) == exchange_file[e] = "good" /\ m.mac \in SecretsOf(e)

Matches(e, m) ==
    /\ exchange_file[e] = "good"
    /\ m.key # e
    /\ m.mac \in SecretsOf(e)

FirstMatch(s, m) ==
    LET matching == {e \in Of(s) : Matches(e, m)}
    IN  {e \in matching : \A f \in matching : Position[e] <= Position[f]}

\* mutant: new as long as the exchange is not complete
KeyIsNewUntilComplete(e) == exchange_file[e] = "good"

KeyIsNew(e) == contact_pubkey[e] = NoKey

\* A key that is known already is answered again.
ReceiveKey(s, m) ==
    /\ m \in net
    /\ \E e \in FirstMatch(s, m) :
       /\ contact_pubkey' = IF KeyIsNew(e)
                            THEN [contact_pubkey EXCEPT ![e] = m.key]
                            ELSE contact_pubkey
       /\ Transmitted(s, SendKey(Transmission(s), e, m.mac))
    /\ UNCHANGED <<contact, exchange_file, resent, crashes>>

\* The user, or the activity that hears of the new key, completes the
\* exchange: the file is deleted, and the contact shown.
Complete(e) ==
    /\ exchange_file[e] # "none"
    /\ contact_pubkey[e] # NoKey
    /\ exchange_file' = [exchange_file EXCEPT ![e] = "none"]
    /\ UNCHANGED <<contact, contact_pubkey, most_recent, resent,
                   net, crashes>>

-----------------------------------------------------------------------------
Lose(m) ==
    /\ m \in net
    /\ net' = net \ {m}
    /\ UNCHANGED <<disk, most_recent, resent, crashes>>

MinutePasses(s) ==
    /\ most_recent' = [most_recent EXCEPT ![s] = Unsent]
    /\ UNCHANGED <<disk, resent, net, crashes>>

DelayPasses(e) ==
    /\ resent' = resent \ {e}
    /\ UNCHANGED <<disk, most_recent, net, crashes>>

\* The program is killed.  An exchange file that was being written is missing
\* or torn, and the contact exists.
Crash(s) ==
    /\ crashes < MAX_CRASHES
    /\ crashes' = crashes + 1
    /\ \E left \in {"none", "torn"} :
         exchange_file' = [e \in Exchange |->
             IF Owner[e] = s /\ contact[e] = "created" THEN left
                                                       ELSE exchange_file[e]]
    /\ contact' = [e \in Exchange |->
           IF Owner[e] = s /\ contact[e] = "created" THEN "ready"
                                                     ELSE contact[e]]
    /\ most_recent' = [most_recent EXCEPT ![s] = Unsent]
    /\ resent' = resent \ Of(s)
    /\ UNCHANGED <<contact_pubkey, net>>

Next ==
    \/ \E e \in Exchange :
         \/ CreateContact(e) \/ WriteAndSend(e) \/ SendAgain(e)
         \/ Complete(e) \/ DelayPasses(e)
    \/ \E s \in Systems :
         \/ ResendPending(s) \/ MinutePasses(s) \/ Crash(s)
         \/ \E m \in Packets : ReceiveKey(s, m)
    \/ \E m \in Packets : Lose(m)

Spec == Init /\ [][Next]_vars

(* A running program finishes what it does.  The daemon's keepalives make   *)
(* it poke its visible contacts, if it has any, and then look for pending   *)
(* keys.  A packet that is sent again and again arrives at some time.       *)
Fairness ==
    /\ \A e \in Exchange : WF_vars(WriteAndSend(e)) /\ WF_vars(DelayPasses(e))
    /\ \A s \in Systems :
         /\ WF_vars(ResendPending(s)) /\ WF_vars(MinutePasses(s))
         /\ \A m \in Packets : SF_vars(ReceiveKey(s, m))

FairSpec == Spec /\ Fairness

-----------------------------------------------------------------------------
\* The types.  A contact without its exchange file cannot have the key of its
\* peer (create_contact_send_key, handle_key).
TypeOK ==
    /\ contact \in [Exchange -> {"none", "created", "ready"}]
    /\ exchange_file \in [Exchange -> {"none", "torn", "good"}]
    /\ contact_pubkey \in [Exchange -> Keys \cup {NoKey}]
    /\ most_recent \in [Systems -> [kset : Exchange, secret : Secrets]
                                      \cup {Unsent}]
    /\ resent \subseteq Exchange
    /\ net \subseteq Packets
    /\ crashes \in 0 .. MAX_CRASHES
    /\ \A e \in Exchange :
         contact[e] # "ready" => exchange_file[e] = "none" /\ ~ HasKey(e)

\* Whose key a contact holds has one of the secrets of that contact, and is
\* not the contact itself, whatever arrives in whatever order (handle_key).
Shares(e, k) ==
    \E secret \in SecretsOf(e) : [key |-> k, mac |-> secret] \in Packets

PeerSharesSecret ==
    \A e \in Exchange :
        HasKey(e) => contact_pubkey[e] # e /\ Shares(e, contact_pubkey[e])

\* The first key is kept: the program does not replace it for a later packet
\* with the same secret, for an answer, or after a restart.
FirstKeyKept ==
    [][\A e \in Exchange :
           HasKey(e) => contact_pubkey'[e] = contact_pubkey[e]]_vars

\* Two contacts expect each other if each can match what the other sends:
\* the one who sends first with his first secret, the other in the answer.
Expect(e, f) ==
    /\ Owner[e] # Owner[f]
    /\ {Secret1[e], Secret1[f]} \cap SecretsOf(e) \cap SecretsOf(f) # {}

\* If the first secret of one contact is also one of the other, and both keep
\* their exchange files, both get a key, however much is lost and whenever a
\* program is restarted, as long as the one with that first secret is on a
\* system with a visible contact, which sends its key again and again; the
\* answers do the rest, and the other system may have no contact yet
\* (do_request_and_resend, resend_pending_keys, handle_key, send_key).
Reaches(e, f) ==
    /\ Owner[e] # Owner[f]
    /\ Secret1[e] \in SecretsOf(f)

BothKeepFiles(e, f) == exchange_file[e] = "good" /\ exchange_file[f] = "good"

LearnsKey ==
    \A e, f \in Exchange :
        Reaches(e, f) =>
            /\ HasVisibleContact(Owner[e]) /\ BothKeepFiles(e, f)
                 ~> HasKey(e) \/ exchange_file[f] # "good"
            /\ HasVisibleContact(Owner[e]) /\ BothKeepFiles(e, f)
                 ~> HasKey(f) \/ exchange_file[e] # "good"

\* "Key was exchanged with SUCCESS!!!" (strings.xml:44): who completed has a
\* peer that gets a key as well.  Not so: the app completes as soon as it has
\* the key (KeyExchangeActivity.kt:110), and then answers no more, even if its
\* last answer was lost.
SuccessIsMutual ==
    \A e, f \in Exchange :
        Expect(e, f) => (HasKey(e) /\ exchange_file[e] = "none" ~> HasKey(f))
=============================================================================
