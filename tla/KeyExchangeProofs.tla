-------------------------- MODULE KeyExchangeProofs --------------------------
(***************************************************************************)
(* Proofs about the exchange of keys, for any number of systems, contacts, *)
(* secrets and strangers: the types, that the key of a contact is one that *)
(* somebody with a secret of the contact has sent, and that it is kept.    *)
(***************************************************************************)
EXTENDS KeyExchange, TLAPS

\* What send_key makes of a transmission: what it remembers has its type, and
\* what it adds to the network is the key of e with one of its secrets.
LEMMA SendKeyType ==
    ASSUME TypeOK, NEW s \in Systems, NEW e \in Exchange, NEW secret \in SecretsOf(e)
    PROVE  /\ SendKey(Transmission(s), e, secret).recent
                \in [kset : Exchange, secret : Secrets] \cup {Unsent}
           /\ SendKey(Transmission(s), e, secret).packets \subseteq Packets
<1>1. secret \in Secrets
  BY DEF Secrets
<1>2. [key |-> e, mac |-> secret] \in Packets
  BY <1>1 DEF Packets
<1>3. /\ Transmission(s).recent \in [kset : Exchange, secret : Secrets] \cup {Unsent}
      /\ Transmission(s).packets \subseteq Packets
  BY DEF TypeOK, Transmission
<1>4. CASE SentInTheLastMinute(Transmission(s).recent, e, secret)
  BY <1>3, <1>4 DEF SendKey
<1>5. CASE ~SentInTheLastMinute(Transmission(s).recent, e, secret)
  BY <1>1, <1>2, <1>3, <1>5 DEF SendKey
<1> QED
  BY <1>4, <1>5

\* The first secret of a contact is one of its secrets.
LEMMA FirstSecret ==
    ASSUME NEW e \in Exchange
    PROVE  Secret1[e] \in SecretsOf(e)
BY KeyExchangeAssumption DEF SecretsOf

\* A transmission of these types keeps those of the variables it changes.
LEMMA TransmittedType ==
    ASSUME TypeOK, NEW s \in Systems, NEW x, Transmitted(s, x),
           x.recent \in [kset : Exchange, secret : Secrets] \cup {Unsent},
           x.packets \subseteq Packets
    PROVE  /\ most_recent' \in [Systems -> [kset : Exchange, secret : Secrets]
                                              \cup {Unsent}]
           /\ net' \subseteq Packets
BY DEF TypeOK, Transmitted

\* Every step keeps the types, ...
LEMMA TypeStep ==
    ASSUME TypeOK, [Next]_vars
    PROVE  TypeOK'
<1> USE DEF disk
<1>1. ASSUME NEW e \in Exchange, CreateContact(e)
      PROVE  TypeOK'
  BY <1>1 DEF TypeOK, CreateContact, HasKey
<1>2. ASSUME NEW e \in Exchange, WriteAndSend(e)
      PROVE  TypeOK'
  <2>1. Owner[e] \in Systems
    BY KeyExchangeAssumption
  <2>2. /\ most_recent' \in [Systems -> [kset : Exchange, secret : Secrets]
                                            \cup {Unsent}]
        /\ net' \subseteq Packets
    BY <1>2, <2>1, FirstSecret, SendKeyType, TransmittedType DEF WriteAndSend
  <2> QED
    BY <1>2, <2>2 DEF TypeOK, WriteAndSend, HasKey
<1>3. ASSUME NEW e \in Exchange, SendAgain(e)
      PROVE  TypeOK'
  <2>1. Owner[e] \in Systems
    BY KeyExchangeAssumption
  <2>2. /\ most_recent' \in [Systems -> [kset : Exchange, secret : Secrets]
                                            \cup {Unsent}]
        /\ net' \subseteq Packets
    BY <1>3, <2>1, FirstSecret, SendKeyType, TransmittedType DEF SendAgain
  <2> QED
    BY <1>3, <2>2 DEF TypeOK, SendAgain, HasKey
<1>4. ASSUME NEW e \in Exchange, Complete(e)
      PROVE  TypeOK'
  BY <1>4 DEF TypeOK, Complete, HasKey
<1>5. ASSUME NEW e \in Exchange, DelayPasses(e)
      PROVE  TypeOK'
  BY <1>5 DEF TypeOK, DelayPasses, HasKey
<1>6. ASSUME NEW s \in Systems, ResendPending(s)
      PROVE  TypeOK'
  <2>1. /\ most_recent' \in [Systems -> [kset : Exchange, secret : Secrets]
                                            \cup {Unsent}]
        /\ net' \subseteq Packets
    <3>1. CASE UNCHANGED <<most_recent, net>>
      BY <3>1 DEF TypeOK
    <3>2. ASSUME NEW first \in Readable(s), NEW last \in Readable(s),
                 Transmitted(s, SendReadable(s, first, last))
          PROVE  <2>1!1 /\ <2>1!2
      <4>1. Readable(s) \subseteq Exchange
        BY DEF Readable, TimeToResend, Of
      <4>2. SendKey(Transmission(s), first, Secret1[first]).packets \subseteq Packets
        BY <4>1, FirstSecret, SendKeyType
      <4>3. \A e \in Exchange : Secret1[e] \in Secrets
        BY FirstSecret DEF Secrets
      <4>4. \A e \in Readable(s) : [key |-> e, mac |-> Secret1[e]] \in Packets
        BY <4>1, <4>3, FirstSecret DEF Packets
      <4>5. SendReadable(s, first, last).packets \subseteq Packets
        BY <4>2, <4>4 DEF SendReadable
      <4>6. SendReadable(s, first, last).recent \in [kset : Exchange, secret : Secrets]
        BY <4>1, <4>3 DEF SendReadable
      <4> QED
        BY <3>2, <4>5, <4>6, TransmittedType
    <3> QED
      BY <1>6, <3>1, <3>2 DEF ResendPending
  <2>2. TimeToResend(s) \subseteq Exchange
    BY DEF TimeToResend, Of
  <2> QED
    BY <1>6, <2>1, <2>2 DEF TypeOK, ResendPending, HasKey
<1>7. ASSUME NEW s \in Systems, MinutePasses(s)
      PROVE  TypeOK'
  BY <1>7 DEF TypeOK, MinutePasses, HasKey
<1>8. ASSUME NEW s \in Systems, Crash(s)
      PROVE  TypeOK'
  <2>1. /\ crashes' \in 0 .. MAX_CRASHES
        /\ most_recent' \in [Systems -> [kset : Exchange, secret : Secrets]
                                            \cup {Unsent}]
        /\ resent' \subseteq Exchange
    BY <1>8, KeyExchangeAssumption DEF TypeOK, Crash
  <2>2. /\ contact' \in [Exchange -> {"none", "created", "ready"}]
        /\ exchange_file' \in [Exchange -> {"none", "torn", "good"}]
    BY <1>8 DEF TypeOK, Crash
  <2>3. ASSUME NEW e \in Exchange, contact'[e] # "ready"
        PROVE  exchange_file'[e] = "none" /\ ~HasKey(e)'
    BY <1>8, <2>3 DEF TypeOK, Crash, HasKey
  <2> QED
    BY <1>8, <2>1, <2>2, <2>3 DEF TypeOK, Crash
<1>9. ASSUME NEW s \in Systems, NEW m \in Packets, ReceiveKey(s, m)
      PROVE  TypeOK'
  <2>1. PICK e \in FirstMatch(s, m) :
            /\ contact_pubkey' = IF KeyIsNew(e)
                                 THEN [contact_pubkey EXCEPT ![e] = m.key]
                                 ELSE contact_pubkey
            /\ Transmitted(s, SendKey(Transmission(s), e, m.mac))
    BY <1>9 DEF ReceiveKey
  <2>2. e \in Exchange /\ exchange_file[e] = "good" /\ m.mac \in SecretsOf(e)
    BY DEF FirstMatch, Matches, Of
  <2>3. m.key \in Keys
    BY DEF Packets, Keys
  <2>4. /\ most_recent' \in [Systems -> [kset : Exchange, secret : Secrets]
                                            \cup {Unsent}]
        /\ net' \subseteq Packets
    BY <2>1, <2>2, SendKeyType, TransmittedType
  <2>5. contact[e] = "ready"
    BY <2>2 DEF TypeOK
  <2>6. contact_pubkey' \in [Exchange -> Keys \cup {NoKey}]
    BY <2>1, <2>3 DEF TypeOK
  <2>7. \A f \in Exchange : f # e => contact_pubkey'[f] = contact_pubkey[f]
    BY <2>1 DEF TypeOK
  <2> QED
    BY <1>9, <2>4, <2>5, <2>6, <2>7 DEF TypeOK, ReceiveKey, HasKey
<1>10. ASSUME NEW m \in Packets, Lose(m)
       PROVE  TypeOK'
  BY <1>10 DEF TypeOK, Lose, HasKey
<1>11. CASE UNCHANGED vars
  BY <1>11 DEF TypeOK, vars, HasKey
<1> QED
  BY <1>1, <1>2, <1>3, <1>4, <1>5, <1>6, <1>7, <1>8, <1>9, <1>10, <1>11 DEF Next

\* ... and changes the key of a contact only from none to one that came with a
\* secret of the contact, and is not its own.
LEMMA KeyStep ==
    ASSUME TypeOK, [Next]_vars, NEW e \in Exchange,
           contact_pubkey'[e] # contact_pubkey[e]
    PROVE  /\ ~HasKey(e)
           /\ contact_pubkey'[e] # e
           /\ Shares(e, contact_pubkey'[e])
<1>1. PICK s \in Systems, m \in Packets : ReceiveKey(s, m)
  <2>1. contact_pubkey' # contact_pubkey
    OBVIOUS
  <2> QED
    BY <2>1 DEF Next, vars, disk, CreateContact, WriteAndSend, SendAgain, Complete,
                DelayPasses, ResendPending, MinutePasses, Crash, Lose
<1>2. PICK f \in FirstMatch(s, m) :
          contact_pubkey' = IF KeyIsNew(f)
                            THEN [contact_pubkey EXCEPT ![f] = m.key]
                            ELSE contact_pubkey
  BY <1>1 DEF ReceiveKey
<1>3. f = e /\ KeyIsNew(e) /\ contact_pubkey'[e] = m.key
  BY <1>2 DEF TypeOK
<1>4. m.key # e /\ m.mac \in SecretsOf(e)
  BY <1>2, <1>3 DEF FirstMatch, Matches
<1>5. m = [key |-> m.key, mac |-> m.mac]
  BY KeyExchangeAssumption DEF Packets
<1>6. Shares(e, m.key)
  BY <1>4, <1>5 DEF Shares
<1> QED
  BY <1>3, <1>4, <1>6 DEF HasKey, KeyIsNew

\* Every variable has its type, and a contact without exchange file has no key
\* (create_contact_send_key, handle_key).
THEOREM ExchangeTypeCorrect == Spec => []TypeOK
<1>1. Init => TypeOK
  BY KeyExchangeAssumption DEF Init, TypeOK, HasKey, Packets
<1>2. TypeOK /\ [Next]_vars => TypeOK'
  BY TypeStep
<1> QED
  BY <1>1, <1>2, PTL DEF Spec

\* The key of a contact was sent by somebody who has a secret of the contact,
\* and is not the own key that came back (handle_key).
THEOREM KeyIsOfASharer == Spec => []PeerSharesSecret
<1>1. Init => PeerSharesSecret
  BY DEF Init, PeerSharesSecret, HasKey
<1>2. TypeOK /\ PeerSharesSecret /\ [Next]_vars => PeerSharesSecret'
  <2> SUFFICES ASSUME TypeOK, PeerSharesSecret, [Next]_vars,
                      NEW e \in Exchange, HasKey(e)'
               PROVE  contact_pubkey'[e] # e /\ Shares(e, contact_pubkey'[e])
    BY DEF PeerSharesSecret, Shares
  <2>1. CASE contact_pubkey'[e] = contact_pubkey[e]
    BY <2>1 DEF PeerSharesSecret, HasKey
  <2>2. CASE contact_pubkey'[e] # contact_pubkey[e]
    BY <2>2, KeyStep
  <2> QED
    BY <2>1, <2>2
<1> QED
  BY <1>1, <1>2, ExchangeTypeCorrect, PTL DEF Spec

\* No packet, answer or restart replaces the key of a contact (handle_key,
\* set_contact_pubkey).
THEOREM KeyIsKept == Spec => FirstKeyKept
<1>1. TypeOK /\ [Next]_vars
        => [\A e \in Exchange :
                HasKey(e) => contact_pubkey'[e] = contact_pubkey[e]]_vars
  BY KeyStep
<1> QED
  BY <1>1, ExchangeTypeCorrect, PTL DEF Spec, FirstKeyKept
=============================================================================
