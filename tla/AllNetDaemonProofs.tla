------------------------- MODULE AllNetDaemonProofs -------------------------
(***************************************************************************)
(* Proofs about the daemon and its cache, for any number of messages,      *)
(* tokens and acks in a packet.  Every step of the daemon is at most one   *)
(* operation of the cache, so what PCacheProofs and PCacheMarkProofs show  *)
(* of the operations holds here; to that come the handlers, which call the *)
(* cache several times.                                                    *)
(***************************************************************************)
EXTENDS AllNetDaemon, PCacheMarkProofs

-----------------------------------------------------------------------------
(* The operations of the cache that a step of the daemon may be, and the   *)
(* few ways in which they change the tables.                               *)

CacheStep ==
    \/ \E m \in Messages, p \in Priorities : SavePacket(m, p)
    \/ \E m \in Messages : RecordPacket(m)
    \/ \E m \in Messages : /\ RefreshIfInBloom("message", m)
                           /\ UNCHANGED <<message_table, ack_table, token_list, local_token,
                                          expired, gc_recent, halted>>
    \/ \E a \in Messages, h \in Hops : SaveAck(a, h)
    \/ \E t \in AnyToken, a \in Messages, new \in BOOLEAN : AckForToken(t, a, new)
    \/ \E t \in AnyToken, m \in Messages : MarkTokenSent(t, m)
    \/ \E t \in AnyToken : \E r \in TokenToSendTo(t, {}) :
          Install(r, r.now.messages, r.now.acks)
    \/ \E t \in AnyToken : \E matching, max, results : Request(t, matching, max, results)
    \/ RecordTrace
    \/ \E m \in Messages : Expire(m)
    \/ MinutePasses
    \/ UNCHANGED vars

LEMMA CacheStepIInv ==
    ASSUME IInv, CacheStep
    PROVE  IInv' /\ Follows(bloom', rotations')
<1>0. Follows(bloom, rotations)
  BY FollowsUnchanged DEF IInv, Good
<1>1. CASE \E m \in Messages, p \in Priorities : SavePacket(m, p)
  BY <1>1, SavePacketStep
<1>2. CASE \E m \in Messages : RecordPacket(m)
  BY <1>2, RecordPacketStep
<1>3. CASE \E m \in Messages : /\ RefreshIfInBloom("message", m)
                               /\ UNCHANGED <<message_table, ack_table, token_list, local_token,
                                              expired, gc_recent, halted>>
  BY <1>3, RefreshStep
<1>4. CASE \E a \in Messages, h \in Hops : SaveAck(a, h)
  BY <1>4, SaveAckStep
<1>5. CASE \E t \in AnyToken, a \in Messages, new \in BOOLEAN : AckForToken(t, a, new)
  BY <1>5, AckForTokenStep
<1>6. CASE \E t \in AnyToken, m \in Messages : MarkTokenSent(t, m)
  BY <1>6, MarkTokenSentStep
<1>7. ASSUME NEW t \in AnyToken, NEW r \in TokenToSendTo(t, {}),
             Install(r, r.now.messages, r.now.acks)
      PROVE  IInv' /\ Follows(bloom', rotations')
  <2>1. /\ Good(r.now.messages, r.now.acks, r.now.tokens, r.now.bloom, r.now.rotations)
        /\ r.gc \in BOOLEAN /\ Follows(r.now.bloom, r.now.rotations)
    BY TokenToSendToGood
  <2>2. MessageTable(r.now.messages) /\ AckTable(r.now.acks)
    BY <2>1 DEF Good
  <2> QED BY <1>7, <2>1, <2>2, InstallGood
<1>8. CASE \E t \in AnyToken : \E matching, max, results : Request(t, matching, max, results)
  BY <1>8, RequestStep
<1>9. CASE RecordTrace
  BY <1>9, RecordTraceStep
<1>10. CASE \E m \in Messages : Expire(m)
  BY <1>0, <1>10 DEF Expire, IInv, filters
<1>11. CASE MinutePasses
  BY <1>0, <1>11 DEF MinutePasses, IInv, filters
<1>12. CASE UNCHANGED vars
  BY <1>0, <1>12 DEF vars, IInv
<1> QED
  BY <1>1, <1>2, <1>3, <1>4, <1>5, <1>6, <1>7, <1>8, <1>9, <1>10, <1>11, <1>12 DEF CacheStep

Remarked(table, table2) ==
    table2 = table \/ \E x, index : index \in Bits /\ table2 = MarkIn(table, x, index)

\* The tables that token_to_send_to leaves, with some bits set.
Installs ==
    \E t \in AnyToken : \E bitmap : \E r \in TokenToSendTo(t, bitmap) :
        /\ Install(r, message_table', ack_table')
        /\ Remarked(r.now.messages, message_table')
        /\ Remarked(r.now.acks, ack_table')

LEMMA InstallsBy ==
    ASSUME NEW t \in AnyToken, NEW bitmap, NEW r \in TokenToSendTo(t, bitmap),
           NEW messages, NEW acks, Install(r, messages, acks),
           Remarked(r.now.messages, messages), Remarked(r.now.acks, acks)
    PROVE  Installs
<1>1. message_table' = messages /\ ack_table' = acks
  BY DEF Install
<1>2. Install(r, message_table', ack_table')
  BY <1>1
<1> QED BY <1>1, <1>2 DEF Installs

Quiet == UNCHANGED <<message_table, ack_table, token_list, local_token>>

LEMMA AckForTokenInstalls ==
    ASSUME IInv, NEW t \in AnyToken, NEW a, NEW new \in BOOLEAN, AckForToken(t, a, new)
    PROVE  Quiet \/ Installs
<1>1. CASE UNCHANGED <<message_table, ack_table, token_list, local_token>>
  BY <1>1 DEF Quiet
<1>2. ASSUME NEW bitmap, NEW r \in TokenToSendTo(t, bitmap), new = (r.index # -1),
             Install(r, r.now.messages,
                     IF new THEN MarkIn(r.now.acks, a, r.index) ELSE r.now.acks)
      PROVE  Installs
  <2> DEFINE acks == IF new THEN MarkIn(r.now.acks, a, r.index) ELSE r.now.acks
  <2>1. r.index \in Bits \cup {-1}
    BY TokenToSendToGood
  <2>2. Remarked(r.now.acks, acks)
    BY <1>2, <2>1 DEF Remarked
  <2>3. Install(r, r.now.messages, acks) /\ Remarked(r.now.messages, r.now.messages)
    BY <1>2 DEF Remarked
  <2> HIDE DEF acks
  <2> QED BY <2>2, <2>3, InstallsBy
<1> QED BY <1>1, <1>2 DEF AckForToken

LEMMA MarkTokenSentInstalls ==
    ASSUME IInv, NEW t \in AnyToken, NEW m, MarkTokenSent(t, m)
    PROVE  Installs
<1>1. PICK r \in TokenToSendTo(t, {}) :
         Install(r, IF r.index = -1 THEN r.now.messages ELSE MarkIn(r.now.messages, m, r.index),
                 r.now.acks)
  BY DEF MarkTokenSent
<1> DEFINE messages == IF r.index = -1 THEN r.now.messages
                       ELSE MarkIn(r.now.messages, m, r.index)
<1>2. r.index \in Bits \cup {-1}
  BY TokenToSendToGood
<1>3. Remarked(r.now.messages, messages)
  BY <1>2 DEF Remarked
<1>4. Install(r, messages, r.now.acks) /\ Remarked(r.now.acks, r.now.acks)
  BY <1>1 DEF Remarked
<1> HIDE DEF messages
<1> QED BY <1>3, <1>4, InstallsBy

\* A token is looked up and nothing marked.
LEMMA LookUpInstalls ==
    ASSUME NEW t \in AnyToken, NEW bitmap, NEW r \in TokenToSendTo(t, bitmap),
           Install(r, r.now.messages, r.now.acks)
    PROVE  Installs
<1>1. Remarked(r.now.messages, r.now.messages) /\ Remarked(r.now.acks, r.now.acks)
  BY DEF Remarked
<1> QED BY <1>1, InstallsBy

LEMMA RequestInstalls ==
    ASSUME NEW t \in AnyToken, NEW matching, NEW max, NEW results,
           Request(t, matching, max, results)
    PROVE  Quiet \/ Installs
<1>1. CASE UNCHANGED vars
  BY <1>1 DEF vars, Quiet
<1> QED BY <1>1, LookUpInstalls DEF Request

\* The four ways in which a step may change the tables.
LEMMA CacheStepShape ==
    ASSUME IInv, CacheStep
    PROVE  \/ Quiet
           \/ Installs
           \/ \E m \in Messages, p \in Priorities : SavePacket(m, p)
           \/ \E a \in Messages, h \in Hops : SaveAck(a, h)
<1>1. CASE Quiet
  BY <1>1
<1>2. CASE \E t \in AnyToken, a \in Messages, new \in BOOLEAN : AckForToken(t, a, new)
  BY <1>2, AckForTokenInstalls
<1>3. CASE \E t \in AnyToken, m \in Messages : MarkTokenSent(t, m)
  BY <1>3, MarkTokenSentInstalls
<1>4. CASE \E t \in AnyToken : \E r \in TokenToSendTo(t, {}) :
              Install(r, r.now.messages, r.now.acks)
  BY <1>4, LookUpInstalls
<1>5. CASE \E t \in AnyToken : \E matching, max, results : Request(t, matching, max, results)
  BY <1>5, RequestInstalls
<1> QED
  BY <1>1, <1>2, <1>3, <1>4, <1>5
     DEF CacheStep, Quiet, RecordPacket, RecordTrace, Expire, MinutePasses, vars

\* What is dropped is remembered.
LEMMA CacheStepDrops ==
    ASSUME IInv, CacheStep
    PROVE  DropStep
<1>1. CASE Quiet
  BY <1>1, NothingDropped DEF Quiet
<1>2. CASE Installs
  <2>1. PICK t \in AnyToken : \E bitmap : \E r \in TokenToSendTo(t, bitmap) :
           /\ Install(r, message_table', ack_table')
           /\ Remarked(r.now.messages, message_table')
           /\ Remarked(r.now.acks, ack_table')
    BY <1>2 DEF Installs
  <2>0. PICK bitmap : \E r \in TokenToSendTo(t, bitmap) :
           /\ Install(r, message_table', ack_table')
           /\ Remarked(r.now.messages, message_table')
           /\ Remarked(r.now.acks, ack_table')
    BY <2>1
  <2>2. PICK r \in TokenToSendTo(t, bitmap) :
           /\ Install(r, message_table', ack_table')
           /\ Remarked(r.now.messages, message_table')
           /\ Remarked(r.now.acks, ack_table')
    BY <2>0
  <2>3. /\ DOMAIN message_table' = DOMAIN r.now.messages
        /\ DOMAIN ack_table' = DOMAIN r.now.acks
    BY <2>2, MarkInDomain DEF Remarked
  <2> QED BY <2>2, <2>3, InstallDrops
<1>3. CASE \E m \in Messages, p \in Priorities : SavePacket(m, p)
  BY <1>3, SavePacketDrops
<1>4. CASE \E a \in Messages, h \in Hops : SaveAck(a, h)
  BY <1>4, SaveAckDrops
<1> QED BY <1>1, <1>2, <1>3, <1>4, CacheStepShape

\* An ack leaves the table only in a gc, which draws a new local token.
AcksStay ==
    \/ local_token' = local_token /\ DOMAIN ack_table \subseteq DOMAIN ack_table'
    \/ local_token' = local_token + 1

\* Only a gc changes the tables and their tokens, but for a token at the end.
LEMMA TokenToSendToTables ==
    ASSUME NEW t, NEW bitmap, NEW r \in TokenToSendTo(t, bitmap)
    PROVE  \/ /\ r.gc = FALSE
              /\ r.now.messages = message_table /\ r.now.acks = ack_table
              /\ \/ r.now.tokens = token_list
                 \/ ~ Listed(t) /\ r.now.tokens = Append(token_list, t)
           \/ /\ r.gc = TRUE /\ ~ Listed(t)
              /\ \E g \in GcResults(NoEntry, 0) :
                    /\ r.now.messages = g.messages /\ r.now.acks = g.acks
                    /\ r.now.tokens = Append(g.tokens, t)
<1>1. CASE Listed(t)
  BY <1>1 DEF TokenToSendTo, Tables
<1>2. CASE ~ Listed(t) /\ Len(token_list) < MAX_TOKENS
  BY <1>2 DEF TokenToSendTo, Tables
<1>3. CASE ~ Listed(t) /\ ~ Len(token_list) < MAX_TOKENS /\ gc_recent
  BY <1>3 DEF TokenToSendTo, Tables
<1>4. CASE ~ Listed(t) /\ ~ Len(token_list) < MAX_TOKENS /\ ~ gc_recent
  <2>1. PICK g \in GcResults(NoEntry, 0) :
           r = [now |-> [g EXCEPT !.tokens = Append(@, t)], gc |-> TRUE,
                index |-> Len(g.tokens)]
    BY <1>4 DEF TokenToSendTo
  <2>2. Leaves(g)
    BY GcTables
  <2>3. g = [messages |-> g.messages, acks |-> g.acks, tokens |-> g.tokens,
             bloom |-> g.bloom, rotations |-> g.rotations]
    BY <2>2 DEF Leaves
  <2>4. /\ r.now.messages = g.messages /\ r.now.acks = g.acks /\ r.gc = TRUE
        /\ r.now.tokens = Append(g.tokens, t)
    BY <2>1, <2>3
  <2> QED BY <1>4, <2>4
<1> QED BY <1>1, <1>2, <1>3, <1>4

LEMMA CacheStepAcksStay ==
    ASSUME IInv, CacheStep
    PROVE  AcksStay
<1>1. CASE Quiet
  BY <1>1 DEF Quiet, AcksStay
<1>2. CASE Installs
  <2>1. PICK t \in AnyToken : \E bitmap : \E r \in TokenToSendTo(t, bitmap) :
           /\ Install(r, message_table', ack_table')
           /\ Remarked(r.now.messages, message_table')
           /\ Remarked(r.now.acks, ack_table')
    BY <1>2 DEF Installs
  <2>0. PICK bitmap : \E r \in TokenToSendTo(t, bitmap) :
           /\ Install(r, message_table', ack_table')
           /\ Remarked(r.now.messages, message_table')
           /\ Remarked(r.now.acks, ack_table')
    BY <2>1
  <2>2. PICK r \in TokenToSendTo(t, bitmap) :
           /\ Install(r, message_table', ack_table')
           /\ Remarked(r.now.messages, message_table')
           /\ Remarked(r.now.acks, ack_table')
    BY <2>0
  <2>3. DOMAIN ack_table' = DOMAIN r.now.acks
    BY <2>2, MarkInDomain DEF Remarked
  <2>4. CASE r.gc = FALSE /\ r.now.acks = ack_table
    BY <2>2, <2>3, <2>4 DEF Install, AcksStay
  <2>5. CASE r.gc = TRUE
    BY <2>2, <2>5 DEF Install, ReinitLocalToken, AcksStay
  <2> QED BY <2>4, <2>5, TokenToSendToTables
<1>3. CASE \E m \in Messages, p \in Priorities : SavePacket(m, p)
  BY <1>3 DEF SavePacket, Halt, ReinitLocalToken, AcksStay
<1>4. ASSUME NEW a, NEW hops, SaveAck(a, hops)
      PROVE  AcksStay
  <2>1. DOMAIN [ack_table EXCEPT ![a].max_hops = IF @ < hops THEN hops ELSE @] = DOMAIN ack_table
    OBVIOUS
  <2>2. DOMAIN ack_table \subseteq DOMAIN Put(ack_table, a, NewAck(hops))
    BY DEF Put
  <2> QED BY <1>4, <2>1, <2>2 DEF SaveAck, Halt, ReinitLocalToken, AcksStay
<1> QED BY <1>1, <1>2, <1>3, <1>4, CacheStepShape

-----------------------------------------------------------------------------
(* The handlers, and the types of the daemon's variables.                  *)

BusyAcks == [handler : {"acks"}, token : 0 .. MAX_GCS, hops : Hops,
             save : Seq(ACK_REQ), check : Seq(ACK_REQ) \ {<<>>}, began : 0 .. rotations]
BusyRequest == [handler : {"request"}, is_local : BOOLEAN, keep : SUBSET Messages]
BusyAnswer == [handler : {"answer"}, token : Tokens, is_local : BOOLEAN,
               send : SUBSET (Messages \cup {Garbled}), keep : SUBSET Messages]
BusyTrace == [handler : {"trace"}, packets : 1 .. 2]

BusyOK ==
    \/ busy = Idle
    \/ busy \in BusyAcks
    \/ busy \in BusyRequest
    \/ busy \in BusyAnswer
    \/ busy \in BusyTrace

DInv ==
    /\ IInv
    /\ BusyOK
    /\ forwarded_acks \subseteq Messages \X (0 .. MAX_GCS)
    /\ forwarded_at \in [Messages -> -1 .. rotations]
    /\ answered \subseteq Messages \X Tokens

\* Which handler it is tells the fields that busy has.
LEMMA BusyIs ==
    ASSUME BusyOK
    PROVE  /\ busy.handler = "acks" => busy \in BusyAcks
           /\ busy.handler = "request" => busy \in BusyRequest
           /\ busy.handler = "answer" => busy \in BusyAnswer
           /\ busy.handler = "trace" => busy \in BusyTrace
BY DEF BusyOK, Idle, BusyAcks, BusyRequest, BusyAnswer, BusyTrace

\* The next ack to save, and the next one to check.
LEMMA HeadOfSave ==
    ASSUME busy \in BusyAcks, busy.save # <<>>
    PROVE  /\ Head(busy.save) \in ACK_REQ /\ Head(busy.save) \in Messages
           /\ Tail(busy.save) \in Seq(ACK_REQ)
<1>1. busy.save \in Seq(ACK_REQ)
  BY DEF BusyAcks
<1> QED BY <1>1, HeadTailProperties, DaemonAssumption

LEMMA HeadOfCheck ==
    ASSUME busy \in BusyAcks
    PROVE  /\ Head(busy.check) \in ACK_REQ /\ Head(busy.check) \in Messages
           /\ Head(busy.check) = busy.check[1] /\ 1 \in DOMAIN busy.check
           /\ Tail(busy.check) \in Seq(ACK_REQ)
           /\ Len(busy.check) # 1 => Tail(busy.check) # <<>>
<1>1. busy.check \in Seq(ACK_REQ) /\ busy.check # <<>>
  BY DEF BusyAcks
<1>2. /\ Head(busy.check) \in ACK_REQ /\ Tail(busy.check) \in Seq(ACK_REQ)
      /\ Len(Tail(busy.check)) = Len(busy.check) - 1
      /\ Len(busy.check) \in Nat /\ Len(busy.check) # 0
      /\ DOMAIN busy.check = 1 .. Len(busy.check)
  BY <1>1, HeadTailProperties, LenProperties, EmptySeq
<1>3. Len(busy.check) # 1 => Tail(busy.check) # <<>>
  <2>1. Len(busy.check) \in Nat /\ Len(Tail(busy.check)) = Len(busy.check) - 1
        /\ Len(busy.check) # 0
    BY <1>2
  <2>2. Tail(busy.check) = <<>> => Len(Tail(busy.check)) = 0
    BY EmptySeq
  <2> QED BY <2>1, <2>2
<1>4. Head(busy.check) = busy.check[1] /\ 1 \in DOMAIN busy.check
  BY <1>1, <1>2
<1> QED BY <1>2, <1>3, <1>4, DaemonAssumption

LEMMA LookUpStep ==
    ASSUME NEW m \in Messages, LookUp(m)
    PROVE  CacheStep
<1>1. CASE Acked(m)
  BY <1>1 DEF LookUp, CacheStep, vars, filters
<1>2. CASE ~ Acked(m)
  BY <1>2 DEF LookUp, CacheStep
<1> QED BY <1>1, <1>2

\* Every step of the daemon calls at most one operation of the cache.
LEMMA DaemonStepIsCacheStep ==
    ASSUME IInv, BusyOK, [DaemonNext]_all_vars
    PROVE  CacheStep
<1>1. Tokens \subseteq AnyToken /\ 0 .. MAX_GCS \subseteq AnyToken
  BY DEF AnyToken
<1>2. CASE UNCHANGED vars
  BY <1>2 DEF CacheStep
<1>3. CASE SaveNextAck
  <2>1. busy \in BusyAcks /\ busy.save # <<>> /\ SaveAck(Head(busy.save), busy.hops)
    BY <1>3, BusyIs DEF SaveNextAck
  <2>2. busy.hops \in Hops
    BY <2>1 DEF BusyAcks
  <2> QED BY <2>1, <2>2, HeadOfSave DEF CacheStep
<1>4. ASSUME NEW new \in BOOLEAN, CheckNextAck(new)
      PROVE  CacheStep
  <2>1. busy \in BusyAcks /\ AckForToken(busy.token, Head(busy.check), new)
    BY <1>4, BusyIs DEF CheckNextAck
  <2>2. busy.token \in AnyToken
    BY <1>1, <2>1 DEF BusyAcks
  <2> QED BY <2>1, <2>2, HeadOfCheck DEF CacheStep
<1>5. CASE \E m \in Messages : ReceiveKnown(m)
  BY <1>5, LookUpStep DEF ReceiveKnown
<1>6. ASSUME NEW m \in Messages, NEW p \in Priorities, SaveOrRecord(m, p)
      PROVE  CacheStep
  BY <1>6 DEF SaveOrRecord, CacheStep
<1>7. CASE \E m \in Messages, p \in Priorities, is_local \in BOOLEAN : ReceiveNew(m, p, is_local)
  BY <1>6, <1>7 DEF ReceiveNew
<1>8. CASE \E m \in Messages, is_local \in BOOLEAN : ReceiveRequest(m, is_local)
  BY <1>8, LookUpStep DEF ReceiveRequest
<1>9. CASE \E t \in Tokens, matching \in SUBSET Messages,
              results \in SUBSET (Messages \cup {Garbled}) :
              AnswerRequest(t, matching, results)
  <2>1. \E t \in AnyToken : \E matching, max, results : Request(t, matching, max, results)
    BY <1>1, <1>9 DEF AnswerRequest
  <2> QED BY <2>1 DEF CacheStep
<1>10. ASSUME NEW m \in Messages \cup {Garbled}, SendAnswer(m)
       PROVE  CacheStep
  <2>1. busy \in BusyAnswer
    BY <1>10, BusyIs DEF SendAnswer
  <2>2. busy.token \in AnyToken
    BY <1>1, <2>1 DEF BusyAnswer
  <2>3. \/ m \in Messages /\ MarkTokenSent(busy.token, m)
        \/ \E r \in TokenToSendTo(busy.token, {}) : Install(r, r.now.messages, r.now.acks)
        \/ UNCHANGED vars
    BY <1>10 DEF SendAnswer, MarkNext
  <2> QED BY <2>2, <2>3 DEF CacheStep
<1>11. ASSUME NEW n \in Messages, NEW p \in Priorities, FinishRequest(n, p)
       PROVE  CacheStep
  BY <1>2, <1>6, <1>11 DEF FinishRequest
<1>12. CASE \E packets \in 0 .. 2 : ReceiveTrace(packets)
  BY <1>12 DEF ReceiveTrace, CacheStep
<1>13. CASE \E m \in Messages, p \in Priorities : SaveTrace(m, p)
  BY <1>13 DEF SaveTrace, CacheStep
<1>14. CASE Time
  BY <1>14 DEF Time, CacheStep
<1>15. CASE \E acks \in AckBatches, h \in Hops : ReceiveAcks(acks, h)
  BY <1>2, <1>15 DEF ReceiveAcks
<1> QED
  BY <1>2, <1>3, <1>4, <1>5, <1>7, <1>8, <1>9, <1>10, <1>11, <1>12, <1>13, <1>14, <1>15
     DEF DaemonNext, all_vars

\* What a step of the daemon does to its cache.
LEMMA StepFacts ==
    ASSUME IInv, BusyOK, [DaemonNext]_all_vars
    PROVE  /\ IInv' /\ Follows(bloom', rotations')
           /\ rotations \in Nat /\ rotations' \in Nat /\ rotations <= rotations'
           /\ DropStep /\ AcksStay
<1>1. CacheStep
  BY DaemonStepIsCacheStep
<1>2. IInv' /\ Follows(bloom', rotations')
  BY <1>1, CacheStepIInv
<1>3. rotations \in Nat /\ rotations' \in Nat /\ rotations <= rotations'
  BY <1>2, FilterAssumption DEF IInv, Good, Filter, Follows
<1> QED BY <1>1, <1>2, <1>3, CacheStepDrops, CacheStepAcksStay

-----------------------------------------------------------------------------
(* Types.                                                                  *)

\* What the history keeps is part of what it had and of what is added.
LEMMA NoteSubset ==
    ASSUME NEW sent, NEW acks, Note(sent, acks)
    PROVE  /\ answered' \subseteq answered \cup sent
           /\ \A x \in answered' : x[1] \in DOMAIN message_table'
           /\ forwarded_acks' \subseteq forwarded_acks \cup acks
BY DEF Note

\* The history that every step writes.
LEMMA HistoryStep ==
    ASSUME [DaemonNext]_all_vars
    PROVE  \/ UNCHANGED <<message_table, ack_table, token_list, bloom, rotations,
                          forwarded_acks, forwarded_at, answered>>
           \/ \E S : Forward(S)
<1>1. CASE \E acks \in AckBatches, h \in Hops : ReceiveAcks(acks, h)
  BY <1>1 DEF ReceiveAcks, vars
<1>2. CASE Time
  BY <1>2 DEF Time, Expire, MinutePasses, filters
<1>3. CASE UNCHANGED all_vars
  BY <1>3 DEF all_vars, vars
<1>4. CASE \E S : Forward(S)
  BY <1>4
<1> QED
  BY <1>1, <1>2, <1>3, <1>4
     DEF DaemonNext, SaveNextAck, CheckNextAck, ReceiveKnown, LookUp, ReceiveNew,
         ReceiveRequest, AnswerRequest, SendAnswer, FinishRequest, ReceiveTrace, SaveTrace

\* Only pcache_request and the marking of its answers concern a request.
LEMMA NextBusyOK ==
    ASSUME DInv, IInv', rotations \in Nat, rotations' \in Nat, rotations <= rotations',
           [DaemonNext]_all_vars
    PROVE  BusyOK'
<1>1. BusyOK /\ local_token \in 0 .. MAX_GCS
  BY DEF DInv, IInv
<1>2. \A k \in 0 .. rotations : k \in 0 .. rotations'
  OBVIOUS
<1>3. CASE UNCHANGED busy
  <2>1. CASE busy \in BusyAcks
    <3>1. busy' \in BusyAcks'
      BY <1>2, <1>3, <2>1 DEF BusyAcks
    <3> QED BY <3>1 DEF BusyOK
  <2> QED BY <1>1, <1>3, <2>1 DEF BusyOK, Idle, BusyRequest, BusyAnswer, BusyTrace
<1>4. CASE busy' = Idle
  BY <1>4 DEF BusyOK, Idle
<1>5. ASSUME NEW acks \in AckBatches, NEW h \in Hops, ReceiveAcks(acks, h)
      PROVE  BusyOK'
  <2>1. acks \in Seq(ACK_REQ) /\ acks # <<>>
    BY DaemonAssumption
  <2>2. busy' = Acks(local_token, h, acks, acks) /\ rotations \in 0 .. rotations'
    BY <1>5 DEF ReceiveAcks
  <2>3. busy' \in BusyAcks'
    BY <1>1, <2>1, <2>2 DEF Acks, BusyAcks
  <2> QED BY <2>3 DEF BusyOK
<1>6. CASE SaveNextAck
  <2>1. /\ busy \in BusyAcks /\ busy.save # <<>>
        /\ busy' = [busy EXCEPT !.save = Tail(busy.save)]
    BY <1>1, <1>6, BusyIs DEF SaveNextAck
  <2>2. busy' \in BusyAcks'
    BY <1>2, <2>1, HeadOfSave DEF BusyAcks
  <2> QED BY <2>2 DEF BusyOK
<1>7. ASSUME NEW new \in BOOLEAN, CheckNextAck(new)
      PROVE  BusyOK'
  <2>1. CASE Len(busy.check) = 1
    BY <1>4, <1>7, <2>1 DEF CheckNextAck
  <2>2. CASE Len(busy.check) # 1
    <3>1. busy \in BusyAcks /\ busy' = [busy EXCEPT !.check = Tail(busy.check)]
      BY <1>1, <1>7, <2>2, BusyIs DEF CheckNextAck
    <3>2. busy' \in BusyAcks'
      BY <1>2, <2>2, <3>1, HeadOfCheck DEF BusyAcks
    <3> QED BY <3>2 DEF BusyOK
  <2> QED BY <2>1, <2>2
<1>8. ASSUME NEW m \in Messages, NEW is_local \in BOOLEAN, ReceiveRequest(m, is_local)
      PROVE  BusyOK'
  <2>1. busy' = Asking(is_local, IF Acked(m) \/ Seen(m) THEN {} ELSE {m})
    BY <1>8 DEF ReceiveRequest
  <2>2. busy' \in BusyRequest
    BY <2>1 DEF Asking, BusyRequest
  <2> QED BY <2>2 DEF BusyOK, BusyRequest
<1>9. ASSUME NEW t \in Tokens, NEW matching, NEW results \in SUBSET (Messages \cup {Garbled}),
             AnswerRequest(t, matching, results)
      PROVE  BusyOK'
  <2>1. busy \in BusyRequest /\ busy' = Answers(t, busy.is_local, results, busy.keep)
    BY <1>1, <1>9, BusyIs DEF AnswerRequest
  <2>2. busy' \in BusyAnswer
    BY <2>1 DEF Answers, BusyRequest, BusyAnswer
  <2> QED BY <2>2 DEF BusyOK, BusyAnswer
<1>10. ASSUME NEW m \in Messages \cup {Garbled}, SendAnswer(m)
       PROVE  BusyOK'
  <2>1. busy \in BusyAnswer /\ busy' = [busy EXCEPT !.send = busy.send \ {m}]
    BY <1>1, <1>10, BusyIs DEF SendAnswer
  <2>2. busy' \in BusyAnswer
    BY <2>1 DEF BusyAnswer
  <2> QED BY <2>2 DEF BusyOK, BusyAnswer
<1>11. ASSUME NEW packets \in 0 .. 2, ReceiveTrace(packets)
       PROVE  BusyOK'
  <2>1. CASE packets = 0
    BY <1>4, <1>11, <2>1 DEF ReceiveTrace
  <2>2. CASE packets # 0
    <3>1. busy' = Tracing(packets)
      BY <1>11, <2>2 DEF ReceiveTrace
    <3>2. busy' \in BusyTrace
      BY <2>2, <3>1 DEF Tracing, BusyTrace
    <3> QED BY <3>2 DEF BusyOK, BusyTrace
  <2> QED BY <2>1, <2>2
<1>12. ASSUME NEW m \in Messages, NEW p \in Priorities, SaveTrace(m, p)
       PROVE  BusyOK'
  <2>1. CASE busy.packets = 1
    BY <1>4, <1>12, <2>1 DEF SaveTrace
  <2>2. CASE busy.packets # 1
    <3>1. busy \in BusyTrace /\ busy' = [busy EXCEPT !.packets = busy.packets - 1]
      BY <1>1, <1>12, <2>2, BusyIs DEF SaveTrace
    <3>2. busy' \in BusyTrace
      BY <2>2, <3>1 DEF BusyTrace
    <3> QED BY <3>2 DEF BusyOK, BusyTrace
  <2> QED BY <2>1, <2>2
<1>13. CASE \E m \in Messages : ReceiveKnown(m)
  BY <1>3, <1>13 DEF ReceiveKnown
<1>14. CASE \E m \in Messages, p \in Priorities, is_local \in BOOLEAN : ReceiveNew(m, p, is_local)
  BY <1>3, <1>14 DEF ReceiveNew
<1>15. CASE \E n \in Messages, p \in Priorities : FinishRequest(n, p)
  BY <1>4, <1>15 DEF FinishRequest
<1>16. CASE Time
  BY <1>3, <1>16 DEF Time
<1>17. CASE UNCHANGED all_vars
  BY <1>3, <1>17 DEF all_vars
<1> QED
  BY <1>5, <1>6, <1>7, <1>8, <1>9, <1>10, <1>11, <1>12, <1>13, <1>14, <1>15, <1>16, <1>17
     DEF DaemonNext

\* What a step may add to the history of acks and of answers.
LEMMA NextNoted ==
    ASSUME DInv, IInv', [DaemonNext]_all_vars
    PROVE  /\ forwarded_acks' \subseteq Messages \X (0 .. MAX_GCS)
           /\ answered' \subseteq Messages \X Tokens
<1>1. /\ forwarded_acks \subseteq Messages \X (0 .. MAX_GCS)
      /\ answered \subseteq Messages \X Tokens /\ BusyOK
      /\ DOMAIN message_table' \subseteq Messages
  BY DEF DInv, IInv, Good, MessageTable
<1>2. CASE UNCHANGED <<forwarded_acks, answered>>
  BY <1>1, <1>2
<1>3. CASE Note({}, {})
  BY <1>1, <1>3, NoteSubset
<1>4. ASSUME NEW new \in BOOLEAN, CheckNextAck(new)
      PROVE  /\ forwarded_acks' \subseteq Messages \X (0 .. MAX_GCS)
             /\ answered' \subseteq Messages \X Tokens
  <2>1. busy \in BusyAcks
    BY <1>1, <1>4, BusyIs DEF CheckNextAck
  <2>2. <<Head(busy.check), busy.token>> \in Messages \X (0 .. MAX_GCS)
    BY <2>1, HeadOfCheck DEF BusyAcks
  <2> DEFINE acks == IF new /\ InTime THEN {<<Head(busy.check), busy.token>>} ELSE {}
  <2>3. Note({}, acks) /\ acks \subseteq Messages \X (0 .. MAX_GCS)
    BY <1>4, <2>2 DEF CheckNextAck
  <2> HIDE DEF acks
  <2> QED BY <1>1, <2>3, NoteSubset
<1>5. ASSUME NEW m \in Messages \cup {Garbled}, SendAnswer(m)
      PROVE  /\ forwarded_acks' \subseteq Messages \X (0 .. MAX_GCS)
             /\ answered' \subseteq Messages \X Tokens
  <2>1. busy \in BusyAnswer
    BY <1>1, <1>5, BusyIs DEF SendAnswer
  <2>2. busy.token \in Tokens
    BY <2>1 DEF BusyAnswer
  <2> DEFINE sent == IF busy.token # ZeroToken /\ IsMarked(m) THEN {<<m, busy.token>>} ELSE {}
  <2>3. Note(sent, {}) /\ sent \subseteq {<<m, busy.token>>}
    BY <1>5 DEF SendAnswer
  <2> HIDE DEF sent
  <2>4. ASSUME NEW x \in answered', x = <<m, busy.token>>
        PROVE  x \in Messages \X Tokens
    <3>1. x[1] = m /\ x[1] \in DOMAIN message_table'
      BY <2>3, <2>4, NoteSubset
    <3> QED BY <1>1, <2>2, <2>4, <3>1
  <2> QED BY <1>1, <2>3, <2>4, NoteSubset
<1> QED
  BY <1>2, <1>3, <1>4, <1>5
     DEF DaemonNext, ReceiveAcks, SaveNextAck, ReceiveKnown, LookUp, ReceiveNew,
         ReceiveRequest, AnswerRequest, FinishRequest, ReceiveTrace, SaveTrace, Time, all_vars

LEMMA NextDInv ==
    ASSUME DInv, [DaemonNext]_all_vars
    PROVE  DInv'
<1>1. /\ IInv' /\ rotations \in Nat /\ rotations' \in Nat /\ rotations <= rotations'
      /\ forwarded_at \in [Messages -> -1 .. rotations]
  BY StepFacts DEF DInv
<1>2. forwarded_at' \in [Messages -> -1 .. rotations']
  <2>1. \A k \in -1 .. rotations : k \in -1 .. rotations'
    BY <1>1
  <2>2. CASE UNCHANGED <<forwarded_at, rotations>>
    BY <1>1, <2>2
  <2>3. ASSUME NEW S, Forward(S)
        PROVE  forwarded_at' \in [Messages -> -1 .. rotations']
    <3>1. rotations \in -1 .. rotations' /\ -1 \in -1 .. rotations'
      BY <1>1
    <3>2. \A m \in Messages : forwarded_at[m] \in -1 .. rotations'
      BY <1>1, <2>1
    <3> QED BY <2>3, <3>1, <3>2 DEF Forward
  <2> QED BY <2>2, <2>3, HistoryStep
<1> QED BY <1>1, <1>2, NextBusyOK, NextNoted DEF DInv

LEMMA InitDInv == DaemonInit => DInv
<1> SUFFICES ASSUME DaemonInit PROVE DInv
  OBVIOUS
<1>1. IInv /\ rotations = 0
  BY InitIInv DEF DaemonInit, Init
<1> QED BY <1>1 DEF DaemonInit, DInv, BusyOK

LEMMA DaemonSpecDInv == DaemonSpec => []DInv
BY InitDInv, NextDInv, PTL DEF DaemonSpec

\* The variables of the daemon and of its cache keep their types: the handler
\* in progress is one of process_acks, process_message for a data request, with
\* its answers, and process_mgmt.
THEOREM DaemonTypeCorrect == DaemonSpec => []DaemonTypeOK
<1>1. DInv => DaemonTypeOK
  BY IInvImplies
     DEF DInv, DaemonTypeOK, BusyOK, BusyAcks, BusyRequest, BusyAnswer, BusyTrace
<1> QED BY <1>1, DaemonSpecDInv, PTL


-----------------------------------------------------------------------------
(* An acked message stays out of the cache.                                *)

Shrinks ==
    /\ DOMAIN message_table' \subseteq DOMAIN message_table
    /\ DOMAIN ack_table' \subseteq DOMAIN ack_table
TakesMessage(m) ==
    /\ DOMAIN message_table' \subseteq DOMAIN message_table \cup {m}
    /\ DOMAIN ack_table' \subseteq DOMAIN ack_table
TakesAck(a) ==
    /\ DOMAIN message_table' \subseteq DOMAIN message_table
    /\ DOMAIN ack_table' \subseteq DOMAIN ack_table \cup {a}
    /\ a \in DOMAIN ack_table' => a \in DOMAIN ack_table \/ a \notin DOMAIN message_table'

LEMMA QuietShrinks ==
    ASSUME Quiet
    PROVE  Shrinks
BY DEF Quiet, Shrinks

LEMMA InstallsShrinks ==
    ASSUME IInv, Installs
    PROVE  Shrinks
<1>1. PICK t \in AnyToken : \E bitmap : \E r \in TokenToSendTo(t, bitmap) :
         /\ Install(r, message_table', ack_table')
         /\ Remarked(r.now.messages, message_table')
         /\ Remarked(r.now.acks, ack_table')
  BY DEF Installs
<1>2. PICK bitmap : \E r \in TokenToSendTo(t, bitmap) :
         /\ Install(r, message_table', ack_table')
         /\ Remarked(r.now.messages, message_table')
         /\ Remarked(r.now.acks, ack_table')
  BY <1>1
<1>3. PICK r \in TokenToSendTo(t, bitmap) :
         /\ Install(r, message_table', ack_table')
         /\ Remarked(r.now.messages, message_table')
         /\ Remarked(r.now.acks, ack_table')
  BY <1>2
<1>4. /\ DOMAIN message_table' = DOMAIN r.now.messages
      /\ DOMAIN ack_table' = DOMAIN r.now.acks
  BY <1>3, MarkInDomain DEF Remarked
<1>5. /\ DOMAIN r.now.messages \subseteq DOMAIN message_table
      /\ DOMAIN r.now.acks \subseteq DOMAIN ack_table
  BY TokenToSendToGood
<1> QED BY <1>4, <1>5 DEF Shrinks

LEMMA SavePacketTakes ==
    ASSUME NEW m \in Messages, NEW priority, SavePacket(m, priority)
    PROVE  TakesMessage(m)
<1>1. CASE UNCHANGED <<message_table, ack_table>>
  BY <1>1 DEF TakesMessage
<1>2. CASE /\ message_table' = Put(message_table, m, NewMessage(priority))
           /\ UNCHANGED ack_table
  BY <1>2, PutDomain DEF TakesMessage
<1>3. ASSUME NEW gc \in GcResults(EntryOf[m], Size[m]),
             message_table' = Put(gc.messages, m, NewMessage(priority)),
             ack_table' = gc.acks
      PROVE  TakesMessage(m)
  <2>1. Leaves(gc)
    BY GcTables
  <2>2. /\ DOMAIN gc.messages \subseteq DOMAIN message_table
        /\ DOMAIN gc.acks \subseteq DOMAIN ack_table
    BY <2>1 DEF Leaves
  <2>3. DOMAIN message_table' = DOMAIN gc.messages \cup {m}
    BY <1>3, PutDomain
  <2> QED BY <1>3, <2>2, <2>3 DEF TakesMessage
<1> QED BY <1>1, <1>2, <1>3 DEF SavePacket, Halt

LEMMA SaveAckTakes ==
    ASSUME NEW a \in Messages, NEW hops, SaveAck(a, hops)
    PROVE  TakesAck(a)
<1>1. CASE UNCHANGED <<message_table, ack_table>>
  BY <1>1 DEF TakesAck
<1>2. CASE /\ ack_table' = [ack_table EXCEPT ![a].max_hops = IF @ < hops THEN hops ELSE @]
           /\ UNCHANGED message_table
  <2>1. DOMAIN ack_table' = DOMAIN ack_table
    BY <1>2
  <2> QED BY <1>2, <2>1 DEF TakesAck
<1>3. CASE /\ ack_table' = Put(ack_table, a, NewAck(hops))
           /\ message_table' = Keep(message_table, Messages \ {a})
  <2>1. /\ DOMAIN ack_table' = DOMAIN ack_table \cup {a}
        /\ DOMAIN message_table' = DOMAIN message_table \cap (Messages \ {a})
    BY <1>3, PutDomain, KeepDomain
  <2> QED BY <2>1 DEF TakesAck
<1>4. ASSUME NEW gc \in GcResults(NoEntry, 0),
             ack_table' = Put(gc.acks, a, NewAck(hops)),
             message_table' = Keep(gc.messages, Messages \ {a})
      PROVE  TakesAck(a)
  <2>1. Leaves(gc)
    BY GcTables
  <2>2. /\ DOMAIN gc.messages \subseteq DOMAIN message_table
        /\ DOMAIN gc.acks \subseteq DOMAIN ack_table
    BY <2>1 DEF Leaves
  <2>3. /\ DOMAIN ack_table' = DOMAIN gc.acks \cup {a}
        /\ DOMAIN message_table' = DOMAIN gc.messages \cap (Messages \ {a})
    BY <1>4, PutDomain, KeepDomain
  <2> QED BY <2>2, <2>3 DEF TakesAck
<1> QED BY <1>1, <1>2, <1>3, <1>4 DEF SaveAck, Halt

\* No ack of the request in progress is held, and no ack of a packet without an
\* explicit message id.
OutInv ==
    /\ AckedNotCached
    /\ DOMAIN ack_table \subseteq ACK_REQ
    /\ busy.handler \in {"request", "answer"} => busy.keep \cap DOMAIN ack_table = {}

\* A message is saved only if its ack is not held.
LEMMA StepTakes ==
    ASSUME IInv, BusyOK, OutInv, [DaemonNext]_all_vars
    PROVE  \/ Shrinks
           \/ \E m \in Messages \ DOMAIN ack_table : TakesMessage(m) /\ busy' \in {busy, Idle}
           \/ SaveNextAck /\ \E a \in ACK_REQ : TakesAck(a)
           \/ \E m \in Messages \ ACK_REQ, p \in Priorities : SaveTrace(m, p) /\ TakesMessage(m)
<1>1. Tokens \subseteq AnyToken /\ 0 .. MAX_GCS \subseteq AnyToken
  BY DEF AnyToken
<1>2. CASE Quiet
  BY <1>2, QuietShrinks
<1>3. CASE Installs
  BY <1>3, InstallsShrinks
<1>4. CASE SaveNextAck
  <2>1. busy \in BusyAcks /\ busy.save # <<>> /\ SaveAck(Head(busy.save), busy.hops)
    BY <1>4, BusyIs DEF SaveNextAck
  <2>2. Head(busy.save) \in ACK_REQ /\ Head(busy.save) \in Messages
    BY <2>1, HeadOfSave
  <2> QED BY <1>4, <2>1, <2>2, SaveAckTakes
<1>5. ASSUME NEW new \in BOOLEAN, CheckNextAck(new)
      PROVE  Quiet \/ Installs
  <2>1. busy \in BusyAcks /\ AckForToken(busy.token, Head(busy.check), new)
    BY <1>5, BusyIs DEF CheckNextAck
  <2>2. busy.token \in AnyToken
    BY <1>1, <2>1 DEF BusyAcks
  <2> QED BY <2>1, <2>2, AckForTokenInstalls
<1>6. ASSUME NEW m \in Messages, NEW p \in Priorities, SaveOrRecord(m, p)
      PROVE  Shrinks \/ TakesMessage(m)
  BY <1>6, QuietShrinks, SavePacketTakes DEF SaveOrRecord, RecordPacket, Quiet
<1>7. ASSUME NEW m \in Messages, NEW p \in Priorities, NEW is_local, ReceiveNew(m, p, is_local)
      PROVE  Shrinks \/ (m \notin DOMAIN ack_table /\ TakesMessage(m) /\ busy' = busy)
  BY <1>6, <1>7 DEF ReceiveNew, Acked
<1>8. ASSUME NEW t \in Tokens, NEW matching, NEW results, AnswerRequest(t, matching, results)
      PROVE  Quiet \/ Installs
  BY <1>1, <1>8, RequestInstalls DEF AnswerRequest
<1>9. ASSUME NEW m \in Messages \cup {Garbled}, SendAnswer(m)
      PROVE  Quiet \/ Installs
  <2>1. busy \in BusyAnswer
    BY <1>9, BusyIs DEF SendAnswer
  <2>2. busy.token \in AnyToken
    BY <1>1, <2>1 DEF BusyAnswer
  <2>3. \/ m \in Messages /\ MarkTokenSent(busy.token, m)
        \/ \E r \in TokenToSendTo(busy.token, {}) : Install(r, r.now.messages, r.now.acks)
        \/ UNCHANGED vars
    BY <1>9 DEF SendAnswer, MarkNext
  <2> QED BY <2>2, <2>3, MarkTokenSentInstalls, LookUpInstalls DEF Quiet, vars
<1>10. ASSUME NEW n \in Messages, NEW p \in Priorities, FinishRequest(n, p)
       PROVE  Shrinks \/ (n \notin DOMAIN ack_table /\ TakesMessage(n) /\ busy' = Idle)
  <2>1. CASE UNCHANGED vars
    BY <2>1, QuietShrinks DEF vars, Quiet
  <2>2. ASSUME NEW m \in busy.keep, n = m \/ {m, n} \cap ACK_REQ = {}, SaveOrRecord(n, p)
        PROVE  Shrinks \/ (n \notin DOMAIN ack_table /\ TakesMessage(n))
    <3>1. m \notin DOMAIN ack_table
      BY <1>10 DEF FinishRequest, OutInv
    <3>2. n \notin DOMAIN ack_table
      BY <2>2, <3>1 DEF OutInv
    <3> QED BY <1>6, <2>2, <3>2
  <2> QED BY <1>10, <2>1, <2>2 DEF FinishRequest
<1>11. ASSUME NEW m \in Messages, NEW p \in Priorities, SaveTrace(m, p)
       PROVE  m \notin ACK_REQ /\ TakesMessage(m)
  BY <1>11, SavePacketTakes DEF SaveTrace
<1>12. \/ \E acks \in AckBatches, h \in Hops : ReceiveAcks(acks, h)
       \/ \E m \in Messages : ReceiveKnown(m)
       \/ \E m \in Messages, is_local \in BOOLEAN : ReceiveRequest(m, is_local)
       \/ \E packets \in 0 .. 2 : ReceiveTrace(packets)
       \/ Time
       \/ UNCHANGED all_vars
       => Quiet
  BY DEF ReceiveAcks, ReceiveKnown, LookUp, ReceiveRequest, ReceiveTrace, RecordTrace, Time,
         Expire, MinutePasses, Quiet, vars, all_vars
<1> QED
  BY <1>2, <1>3, <1>4, <1>5, <1>7, <1>8, <1>9, <1>10, <1>11, <1>12 DEF DaemonNext

\* The request in progress stays the same while it is answered.
LEMMA NextKeep ==
    ASSUME BusyOK, OutInv, [DaemonNext]_all_vars
    PROVE  busy'.handler \in {"request", "answer"} => busy'.keep \cap DOMAIN ack_table = {}
<1> DEFINE Goal == busy'.handler \in {"request", "answer"} =>
                      busy'.keep \cap DOMAIN ack_table = {}
<1>1. CASE busy' \in {busy, Idle}
  BY <1>1 DEF OutInv, Idle
<1>2. CASE \E acks \in AckBatches, h \in Hops : ReceiveAcks(acks, h)
  BY <1>2 DEF ReceiveAcks, Acks
<1>3. CASE SaveNextAck \/ \E new \in BOOLEAN : CheckNextAck(new)
  <2>1. busy'.handler \in {"none", "acks"}
    BY <1>3, BusyIs DEF SaveNextAck, CheckNextAck, BusyAcks, Idle
  <2> QED BY <2>1
<1>4. ASSUME NEW m \in Messages, NEW is_local \in BOOLEAN, ReceiveRequest(m, is_local)
      PROVE  Goal
  <2>1. busy' = Asking(is_local, IF Acked(m) \/ Seen(m) THEN {} ELSE {m})
    BY <1>4 DEF ReceiveRequest
  <2> QED BY <2>1 DEF Asking, Acked
<1>5. ASSUME NEW t, NEW matching, NEW results, AnswerRequest(t, matching, results)
      PROVE  Goal
  <2>1. busy' = Answers(t, busy.is_local, results, busy.keep) /\ busy.handler = "request"
    BY <1>5 DEF AnswerRequest
  <2> QED BY <2>1 DEF Answers, OutInv
<1>6. ASSUME NEW m, SendAnswer(m)
      PROVE  Goal
  <2>1. busy' = [busy EXCEPT !.send = busy.send \ {m}] /\ busy.handler = "answer" /\ busy \in BusyAnswer
    BY <1>6, BusyIs DEF SendAnswer
  <2>2. busy'.keep = busy.keep
    BY <2>1 DEF BusyAnswer
  <2> QED BY <2>1, <2>2 DEF OutInv
<1>7. CASE \E packets \in 0 .. 2 : ReceiveTrace(packets)
  BY <1>7 DEF ReceiveTrace, Tracing, Idle
<1>8. CASE \E m \in Messages, p \in Priorities : SaveTrace(m, p)
  <2>1. busy'.handler \in {"none", "trace"}
    BY <1>8, BusyIs DEF SaveTrace, Idle, BusyTrace
  <2> QED BY <2>1
<1> QED
  BY <1>1, <1>2, <1>3, <1>4, <1>5, <1>6, <1>7, <1>8
     DEF DaemonNext, ReceiveKnown, ReceiveNew, FinishRequest, Time, all_vars

LEMMA NextOutInv ==
    ASSUME IInv, BusyOK, OutInv, [DaemonNext]_all_vars
    PROVE  OutInv'
<1>1. CASE Shrinks
  <2>1. AckedNotCached' /\ (DOMAIN ack_table \subseteq ACK_REQ)'
    BY <1>1 DEF Shrinks, OutInv, AckedNotCached
  <2>2. busy'.handler \in {"request", "answer"} =>
           busy'.keep \cap DOMAIN ack_table = {}
    BY NextKeep
  <2> QED BY <1>1, <2>1, <2>2 DEF Shrinks, OutInv
<1>2. ASSUME NEW m \in Messages \ DOMAIN ack_table, TakesMessage(m), busy' \in {busy, Idle}
      PROVE  OutInv'
  <2>1. AckedNotCached' /\ (DOMAIN ack_table \subseteq ACK_REQ)'
    BY <1>2 DEF TakesMessage, OutInv, AckedNotCached
  <2>2. busy'.handler \in {"request", "answer"} => busy'.keep \cap DOMAIN ack_table = {}
    BY <1>2 DEF OutInv, Idle
  <2> QED BY <1>2, <2>1, <2>2 DEF TakesMessage, OutInv
<1>3. ASSUME SaveNextAck, NEW a \in ACK_REQ, TakesAck(a)
      PROVE  OutInv'
  <2>1. AckedNotCached' /\ (DOMAIN ack_table \subseteq ACK_REQ)'
    BY <1>3 DEF TakesAck, OutInv, AckedNotCached
  <2>2. busy'.handler = "acks"
    BY <1>3, BusyIs DEF SaveNextAck, BusyAcks
  <2> QED BY <2>1, <2>2 DEF OutInv
<1>4. ASSUME NEW m \in Messages \ ACK_REQ, NEW p \in Priorities, SaveTrace(m, p), TakesMessage(m)
      PROVE  OutInv'
  <2>1. AckedNotCached' /\ (DOMAIN ack_table \subseteq ACK_REQ)'
    BY <1>4 DEF TakesMessage, OutInv, AckedNotCached
  <2>2. busy'.handler \in {"none", "trace"}
    BY <1>4, BusyIs DEF SaveTrace, Idle, BusyTrace
  <2> QED BY <2>1, <2>2 DEF OutInv
<1> QED BY <1>1, <1>2, <1>3, <1>4, StepTakes

\* A message whose ack we hold stays out of the cache (pcache_save_acks), over
\* every order of messages, acks, requests and garbage collections, however many
\* steps a handler takes between looking a message up and saving it.
THEOREM AckedStayOut == DaemonSpec => []AckedNotCached
<1>1. DaemonInit => OutInv
  <2>1. DaemonInit => message_table = [m \in {} |-> NewMessage(0)] /\ ack_table = [a \in {} |-> NewAck(0)]
    BY DEF DaemonInit, Init
  <2> QED BY <2>1 DEF DaemonInit, OutInv, AckedNotCached, Idle
<1>2. DInv /\ OutInv /\ [DaemonNext]_all_vars => OutInv'
  BY NextOutInv DEF DInv
<1>3. OutInv => AckedNotCached
  BY DEF OutInv
<1> QED BY <1>1, <1>2, <1>3, DaemonSpecDInv, PTL DEF DaemonSpec

-----------------------------------------------------------------------------
(* The bitmaps.  While the bits name the tokens they named, the daemon's    *)
(* cache implements SentMemory for its messages and its acks.               *)

LEMMA CacheStepMarks ==
    ASSUME TokensKept, MInv, CacheStep
    PROVE  MInv' /\ StepKeepsMarks
<1>0. IInv'
  BY CacheStepIInv DEF MInv
<1> DEFINE Kept == Named(message_table, ack_table, token_list)' /\ StepKeepsMarks
<1> SUFFICES Kept
  BY <1>0 DEF MInv
<1>1. CASE \E m \in Messages, p \in Priorities : SavePacket(m, p)
  BY <1>1, SavePacketNamed, SavePacketKeepsMarks
<1>2. CASE \E a \in Messages, h \in Hops : SaveAck(a, h)
  BY <1>2, SaveAckNamed, SaveAckKeepsMarks
<1>3. CASE \E t \in AnyToken, a \in Messages, new \in BOOLEAN : AckForToken(t, a, new)
  BY <1>3, AckForTokenNamed, AckForTokenKeepsMarks
<1>4. CASE \E t \in AnyToken, m \in Messages : MarkTokenSent(t, m)
  BY <1>4, MarkTokenSentNamed, MarkTokenSentKeepsMarks
<1>5. ASSUME NEW t \in AnyToken, NEW r \in TokenToSendTo(t, {}),
             Install(r, r.now.messages, r.now.acks)
      PROVE  Kept
  <2>1. KeptBy(r.now.tokens)
    BY <1>5, InstallKept
  <2>2. Named(message_table, ack_table, token_list)'
    BY <1>5, <2>1, TokenToSendToNamed, InstallNamed
  <2>3. /\ MarksKept(message_table, token_list, r.now.messages, r.now.tokens)
        /\ MarksKept(ack_table, token_list, r.now.acks, r.now.tokens)
    BY <2>1, TokenToSendToCarries DEF MarksKept
  <2> QED BY <1>5, <2>2, <2>3, InstallKeepsMarks
<1>6. CASE \E t \in AnyToken : \E matching, max, results : Request(t, matching, max, results)
  BY <1>6, RequestNamed, RequestKeepsMarks
<1>7. CASE UNCHANGED <<message_table, ack_table, token_list>>
  BY <1>7, SameKeepsMarks DEF MInv
<1> QED
  BY <1>1, <1>2, <1>3, <1>4, <1>5, <1>6, <1>7
     DEF CacheStep, RecordPacket, RecordTrace, Expire, MinutePasses, vars

\* While its bits name the tokens they named before each step, the cache keeps
\* its promises to the daemon, whichever handlers call it in whatever order:
\* every mark outlives the gcs that keep the item and the token, and no other
\* mark appears (pcache_mark_token_sent, pcache_ack_for_token).
THEOREM DaemonKeepsMarks ==
    DaemonSpec /\ [][TokensKept]_vars => MessageMarksKept /\ AckMarksKept
<1>1. DaemonInit => MInv /\ MessageMarks!Init /\ AckMarks!Init
  BY InitMInv, InitMarks DEF DaemonInit
<1>2. DInv /\ MInv /\ [DaemonNext]_all_vars /\ [TokensKept]_vars =>
         MInv' /\ MessageMarks!Next /\ AckMarks!Next
  <2> SUFFICES ASSUME DInv, MInv, [DaemonNext]_all_vars, [TokensKept]_vars
               PROVE  MInv' /\ MessageMarks!Next /\ AckMarks!Next
    OBVIOUS
  <2>1. CacheStep /\ TokensKept
    BY DaemonStepIsCacheStep, UnchangedKept DEF DInv
  <2>2. MInv' /\ StepKeepsMarks
    BY <2>1, CacheStepMarks
  <2> QED BY <2>2, StepOfMessageMarks, StepOfAckMarks DEF MInv
<1> QED
  BY <1>1, <1>2, DaemonSpecDInv, PTL
     DEF DaemonSpec, MessageMarksKept, MessageMarks!Spec, AckMarksKept, AckMarks!Spec

-----------------------------------------------------------------------------
(* What lasts of the marks, even where a bitmap has bits that name no token. *)

Lasts(table, list, table2, list2) ==
    \A x \in Messages : Due(table, list, table2, list2, x) \subseteq ReachedIn(table2, list2, x)

StepLasts ==
    /\ Lasts(message_table, token_list, message_table', token_list')
    /\ Lasts(ack_table, token_list, ack_table', token_list')

LEMMA CarriedLasts ==
    ASSUME NEW table, NEW list, NEW table2, NEW list2, Carried(table, list, table2, list2)
    PROVE  Lasts(table, list, table2, list2)
BY DEF Carried, Lasts

LEMMA SameLasts ==
    ASSUME NEW table, NEW list
    PROVE  Lasts(table, list, table, list)
BY SameCarries, CarriedLasts

LEMMA AppendLasts ==
    ASSUME NEW table, NEW list, NEW table2, NEW list2 \in Seq(AnyToken),
           Lasts(table, list, table2, list2), NEW t \in AnyToken, t \notin KnownIn(list)
    PROVE  Lasts(table, list, table2, Append(list2, t))
<1> DEFINE n == Len(list2)
           longer == Append(list2, t)
<1>1. /\ n \in Nat /\ DOMAIN list2 = 1 .. n /\ DOMAIN longer = 1 .. n + 1
      /\ \A i \in 1 .. n : longer[i] = list2[i]
      /\ longer[n + 1] = t
  BY LenProperties
<1> HIDE DEF n, longer
<1>2. KnownIn(longer) = KnownIn(list2) \cup {t}
  <2>1. 1 .. n + 1 = (1 .. n) \cup {n + 1}
    BY <1>1
  <2> QED BY <1>1, <2>1 DEF KnownIn
<1>3. \A i \in DOMAIN list2 : i \in DOMAIN longer /\ longer[i] = list2[i]
  BY <1>1
<1>4. ASSUME NEW x \in Messages
      PROVE  ReachedIn(table2, list2, x) \subseteq ReachedIn(table2, longer, x)
  BY <1>3 DEF ReachedIn
<1>5. ASSUME NEW x \in Messages
      PROVE  Due(table, list, table2, longer, x) = Due(table, list, table2, list2, x)
  <2>1. ReachedIn(table, list, x) \subseteq KnownIn(list)
    BY DEF ReachedIn, KnownIn
  <2> QED BY <1>2, <2>1 DEF Due
<1>6. Lasts(table, list, table2, longer)
  BY <1>4, <1>5 DEF Lasts
<1> QED BY <1>6 DEF longer

LEMMA PutLasts ==
    ASSUME NEW table, NEW list, NEW table2, NEW list2,
           Lasts(table, list, table2, list2), NEW m, m \notin DOMAIN table, NEW v
    PROVE  Lasts(table, list, Put(table2, m, v), list2)
<1> SUFFICES ASSUME NEW x \in Messages
             PROVE  Due(table, list, Put(table2, m, v), list2, x)
                       \subseteq ReachedIn(Put(table2, m, v), list2, x)
  BY DEF Lasts
<1>1. DOMAIN Put(table2, m, v) = DOMAIN table2 \cup {m}
  BY PutDomain
<1>2. CASE x = m
  BY <1>2 DEF Due
<1>3. CASE x # m
  <2>1. x \in DOMAIN table2 => Put(table2, m, v)[x] = table2[x]
    BY <1>3 DEF Put
  <2>2. ReachedIn(Put(table2, m, v), list2, x) = ReachedIn(table2, list2, x)
    BY <1>1, <1>3, <2>1 DEF ReachedIn
  <2>3. Due(table, list, Put(table2, m, v), list2, x) = Due(table, list, table2, list2, x)
    BY <1>1, <1>3 DEF Due
  <2> QED BY <2>2, <2>3 DEF Lasts
<1> QED BY <1>2, <1>3

LEMMA KeepLasts ==
    ASSUME NEW table, NEW list, NEW table2, NEW list2,
           Lasts(table, list, table2, list2), NEW S
    PROVE  Lasts(table, list, Keep(table2, S), list2)
<1> SUFFICES ASSUME NEW x \in Messages
             PROVE  Due(table, list, Keep(table2, S), list2, x)
                       \subseteq ReachedIn(Keep(table2, S), list2, x)
  BY DEF Lasts
<1>1. DOMAIN Keep(table2, S) = DOMAIN table2 \cap S
  BY KeepDomain
<1>2. CASE x \in DOMAIN table2 \cap S
  <2>1. Keep(table2, S)[x] = table2[x]
    BY <1>2, KeepDomain
  <2>2. ReachedIn(Keep(table2, S), list2, x) = ReachedIn(table2, list2, x)
    BY <1>1, <1>2, <2>1 DEF ReachedIn
  <2>3. Due(table, list, Keep(table2, S), list2, x) = Due(table, list, table2, list2, x)
    BY <1>1, <1>2 DEF Due
  <2> QED BY <2>2, <2>3 DEF Lasts
<1>3. CASE x \notin DOMAIN table2 \cap S
  BY <1>1, <1>3 DEF Due
<1> QED BY <1>2, <1>3

\* Entries that have the bits they had, or more.
LEMMA MoreBitsLasts ==
    ASSUME NEW table, NEW list, NEW table2, NEW list2, Lasts(table, list, table2, list2),
           NEW table3, DOMAIN table3 = DOMAIN table2,
           \A x \in DOMAIN table2 : table2[x].sent_to_tokens \subseteq table3[x].sent_to_tokens
    PROVE  Lasts(table, list, table3, list2)
<1>1. \A x \in Messages : ReachedIn(table2, list2, x) \subseteq ReachedIn(table3, list2, x)
  BY DEF ReachedIn
<1>2. \A x \in Messages : Due(table, list, table3, list2, x) = Due(table, list, table2, list2, x)
  BY DEF Due
<1> QED BY <1>1, <1>2 DEF Lasts

LEMMA RemarkedLasts ==
    ASSUME NEW table, NEW list, NEW table2, NEW list2, Lasts(table, list, table2, list2),
           MessageTable(table2) \/ AckTable(table2),
           NEW table3, Remarked(table2, table3)
    PROVE  Lasts(table, list, table3, list2)
<1>1. CASE table3 = table2
  BY <1>1
<1>2. ASSUME NEW m, NEW index, table3 = MarkIn(table2, m, index)
      PROVE  Lasts(table, list, table3, list2)
  <2>1. DOMAIN table3 = DOMAIN table2
    BY <1>2, MarkInDomain
  <2>2. ASSUME NEW x \in DOMAIN table2
        PROVE  table2[x].sent_to_tokens \subseteq table3[x].sent_to_tokens
    <3>1. "sent_to_tokens" \in DOMAIN table2[x]
      BY DEF MessageTable, AckTable
    <3> QED BY <1>2, <3>1 DEF MarkIn
  <2> QED BY <2>1, <2>2, MoreBitsLasts
<1> QED BY <1>1, <1>2 DEF Remarked

LEMMA GcLasts ==
    ASSUME IInv, NEW e, NEW n \in Nat, NEW gc \in GcResults(e, n), Aligned
    PROVE  /\ Lasts(message_table, token_list, gc.messages, gc.tokens)
           /\ Lasts(ack_table, token_list, gc.acks, gc.tokens)
<1> DEFINE KM == DOMAIN gc.messages
           KA == DOMAIN gc.acks
<1>1. Leaves(gc)
  BY GcTables
<1>2. /\ gc.messages = [m \in KM |-> Shifted(message_table[m])]
      /\ gc.acks = [a \in KA |-> Shifted(ack_table[a])]
      /\ gc.tokens = SubSeq(token_list, TokenShift + 1, Len(token_list))
  BY <1>1 DEF Leaves
<1>3. KM \in SUBSET DOMAIN message_table /\ KA \in SUBSET DOMAIN ack_table
  BY <1>1 DEF Leaves
<1>4. TokenList(token_list) /\ MessageTable(message_table) /\ AckTable(ack_table)
  BY DEF IInv, Good
<1>5. /\ Carried(message_table, token_list, [m \in KM |-> Shifted(message_table[m])],
                 SubSeq(token_list, TokenShift + 1, Len(token_list)))
      /\ Carried(ack_table, token_list, [a \in KA |-> Shifted(ack_table[a])],
                 SubSeq(token_list, TokenShift + 1, Len(token_list)))
  BY <1>3, <1>4, GcCarriesTable
<1>6. /\ Carried(message_table, token_list, gc.messages, gc.tokens)
      /\ Carried(ack_table, token_list, gc.acks, gc.tokens)
  BY <1>2, <1>5
<1> QED BY <1>6, CarriedLasts

LEMMA TokenToSendToLasts ==
    ASSUME IInv, NEW t \in AnyToken, NEW bitmap,
           NEW r \in TokenToSendTo(t, bitmap), KeptBy(r.now.tokens)
    PROVE  /\ Lasts(message_table, token_list, r.now.messages, r.now.tokens)
           /\ Lasts(ack_table, token_list, r.now.acks, r.now.tokens)
<1>1. /\ Lasts(message_table, token_list, message_table, token_list)
      /\ Lasts(ack_table, token_list, ack_table, token_list)
  BY SameLasts
<1>2. token_list \in Seq(AnyToken) /\ TokenList(token_list)
  BY DEF IInv, Good, TokenList
<1>3. ~ Listed(t) => t \notin KnownIn(token_list)
  BY DEF Listed, KnownIn
<1>4. CASE /\ r.now.messages = message_table /\ r.now.acks = ack_table
           /\ \/ r.now.tokens = token_list
              \/ ~ Listed(t) /\ r.now.tokens = Append(token_list, t)
  BY <1>1, <1>2, <1>3, <1>4, AppendLasts
<1>5. ASSUME ~ Listed(t), NEW g \in GcResults(NoEntry, 0),
             r.now.messages = g.messages, r.now.acks = g.acks,
             r.now.tokens = Append(g.tokens, t)
      PROVE  /\ Lasts(message_table, token_list, r.now.messages, r.now.tokens)
             /\ Lasts(ack_table, token_list, r.now.acks, r.now.tokens)
  <2>1. Aligned
    BY <1>2, <1>5, KeptByAppended
  <2>2. /\ Lasts(message_table, token_list, g.messages, g.tokens)
        /\ Lasts(ack_table, token_list, g.acks, g.tokens)
    BY <2>1, GcLasts
  <2>3. g.tokens \in Seq(AnyToken)
    BY <1>2, GcTokensAre
  <2> QED BY <1>3, <1>5, <2>2, <2>3, AppendLasts
<1> QED BY <1>4, <1>5, TokenToSendToTables

LEMMA InstallsLasts ==
    ASSUME IInv, TokensKept, Installs
    PROVE  StepLasts
<1>1. PICK t \in AnyToken : \E bitmap : \E r \in TokenToSendTo(t, bitmap) :
         /\ Install(r, message_table', ack_table')
         /\ Remarked(r.now.messages, message_table')
         /\ Remarked(r.now.acks, ack_table')
  BY DEF Installs
<1>2. PICK bitmap : \E r \in TokenToSendTo(t, bitmap) :
         /\ Install(r, message_table', ack_table')
         /\ Remarked(r.now.messages, message_table')
         /\ Remarked(r.now.acks, ack_table')
  BY <1>1
<1>3. PICK r \in TokenToSendTo(t, bitmap) :
         /\ Install(r, message_table', ack_table')
         /\ Remarked(r.now.messages, message_table')
         /\ Remarked(r.now.acks, ack_table')
  BY <1>2
<1>4. KeptBy(r.now.tokens) /\ token_list' = r.now.tokens
  BY <1>3, InstallKept DEF Install
<1>5. /\ Lasts(message_table, token_list, r.now.messages, r.now.tokens)
      /\ Lasts(ack_table, token_list, r.now.acks, r.now.tokens)
  BY <1>4, TokenToSendToLasts
<1>6. MessageTable(r.now.messages) /\ AckTable(r.now.acks)
  BY TokenToSendToGood DEF Good
<1> QED BY <1>3, <1>4, <1>5, <1>6, RemarkedLasts DEF StepLasts

LEMMA QuietLasts ==
    ASSUME Quiet
    PROVE  StepLasts
BY SameLasts DEF Quiet, StepLasts

LEMMA SavePacketLasts ==
    ASSUME IInv, TokensKept, NEW m \in Messages, NEW priority \in Priorities,
           SavePacket(m, priority)
    PROVE  StepLasts
<1>1. CASE UNCHANGED <<message_table, ack_table, token_list>>
  BY <1>1, SameLasts DEF StepLasts
<1>2. ASSUME ~ Seen(m), message_table' = Put(message_table, m, NewMessage(priority)),
             UNCHANGED <<ack_table, token_list>>
      PROVE  StepLasts
  BY <1>2, SameLasts, PutLasts DEF StepLasts, Seen
<1>3. ASSUME ~ Seen(m), NEW gc \in GcResults(EntryOf[m], Size[m]),
             message_table' = Put(gc.messages, m, NewMessage(priority)),
             ack_table' = gc.acks, token_list' = gc.tokens
      PROVE  StepLasts
  <2>1. Size[m] \in Nat
    BY TableAssumption
  <2>2. Aligned
    BY <1>3, <2>1, KeptByGc DEF TokensKept, KeptBy, IInv, Good
  <2>3. /\ Lasts(message_table, token_list, gc.messages, gc.tokens)
        /\ Lasts(ack_table, token_list, gc.acks, gc.tokens)
    BY <2>1, <2>2, GcLasts
  <2> QED BY <1>3, <2>3, PutLasts DEF StepLasts, Seen
<1> QED BY <1>1, <1>2, <1>3 DEF SavePacket, Halt

LEMMA SaveAckLasts ==
    ASSUME IInv, TokensKept, NEW a \in Messages, NEW hops \in Hops, SaveAck(a, hops)
    PROVE  StepLasts
<1>1. CASE UNCHANGED <<message_table, ack_table, token_list>>
  BY <1>1, SameLasts DEF StepLasts
<1>2. CASE /\ ack_table' = [ack_table EXCEPT ![a].max_hops = IF @ < hops THEN hops ELSE @]
           /\ UNCHANGED <<message_table, token_list>>
  <2>1. ASSUME NEW x \in DOMAIN ack_table
        PROVE  ack_table'[x].sent_to_tokens = ack_table[x].sent_to_tokens
    <3>1. ack_table[x] \in [max_hops : Hops, sent_to_tokens : SUBSET Bits]
      BY DEF IInv, Good, AckTable
    <3> QED BY <1>2, <3>1
  <2>2. DOMAIN ack_table' = DOMAIN ack_table
    BY <1>2
  <2>3. Lasts(ack_table, token_list, ack_table', token_list)
    BY <2>1, <2>2, SameLasts, MoreBitsLasts
  <2> QED BY <1>2, <2>3, SameLasts DEF StepLasts
<1>3. ASSUME a \notin DOMAIN ack_table,
             ack_table' = Put(ack_table, a, NewAck(hops)),
             message_table' = Keep(message_table, Messages \ {a}),
             UNCHANGED token_list
      PROVE  StepLasts
  BY <1>3, SameLasts, PutLasts, KeepLasts DEF StepLasts
<1>4. ASSUME a \notin DOMAIN ack_table, NEW gc \in GcResults(NoEntry, 0),
             message_table' = Keep(gc.messages, Messages \ {a}),
             ack_table' = Put(gc.acks, a, NewAck(hops)),
             token_list' = gc.tokens
      PROVE  StepLasts
  <2>1. Aligned
    BY <1>4, KeptByGc DEF TokensKept, KeptBy, IInv, Good
  <2>2. /\ Lasts(message_table, token_list, gc.messages, gc.tokens)
        /\ Lasts(ack_table, token_list, gc.acks, gc.tokens)
    BY <2>1, GcLasts
  <2> QED BY <1>4, <2>2, PutLasts, KeepLasts DEF StepLasts
<1> QED BY <1>1, <1>2, <1>3, <1>4 DEF SaveAck, Halt

LEMMA CacheStepLasts ==
    ASSUME IInv, TokensKept, CacheStep
    PROVE  StepLasts
BY CacheStepShape, QuietLasts, InstallsLasts, SavePacketLasts, SaveAckLasts

-----------------------------------------------------------------------------
(* No message is sent twice in answer to the same token.                   *)

\* The place token_to_send_to returns is that of the token; it returns none
\* for a token already sent to, or one it could not list.
LEMMA TokenPlace ==
    ASSUME IInv, NEW t \in AnyToken, NEW bitmap, NEW r \in TokenToSendTo(t, bitmap)
    PROVE  /\ r.index # -1 =>
                r.index + 1 \in DOMAIN r.now.tokens /\ r.now.tokens[r.index + 1] = t
           /\ r.index = -1 => \/ Listed(t) /\ IndexOf(t) \in bitmap
                              \/ t \notin KnownIn(r.now.tokens)
<1>1. /\ token_list \in Seq(AnyToken) /\ Len(token_list) \in Nat
      /\ r.now.tokens \in Seq(AnyToken) /\ TokenList(token_list)
  <2>1. TokenList(token_list) /\ TokenList(r.now.tokens)
    BY TokenToSendToGood DEF IInv, Good
  <2> QED BY <2>1, LenProperties DEF TokenList
<1>2. CASE Listed(t)
  <2>1. PICK i \in DOMAIN token_list : token_list[i] = t
    BY <1>2 DEF Listed
  <2>2. /\ (CHOOSE j \in DOMAIN token_list : token_list[j] = t) \in DOMAIN token_list
        /\ token_list[CHOOSE j \in DOMAIN token_list : token_list[j] = t] = t
    BY <2>1
  <2> DEFINE c == CHOOSE j \in DOMAIN token_list : token_list[j] = t
  <2>3. IndexOf(t) = c - 1
    BY DEF IndexOf
  <2>4. c \in DOMAIN token_list /\ token_list[c] = t /\ c \in Nat \ {0}
    <3>1. DOMAIN token_list = 1 .. Len(token_list)
      BY <1>1, LenProperties
    <3> QED BY <1>1, <2>2, <3>1
  <2> HIDE DEF c
  <2>5. r.now.tokens = token_list /\ r.index = IF IndexOf(t) \in bitmap THEN -1 ELSE IndexOf(t)
    BY <1>2 DEF TokenToSendTo, Tables
  <2>6. IndexOf(t) + 1 = c /\ IndexOf(t) # -1
    BY <2>3, <2>4
  <2> QED BY <1>2, <2>4, <2>5, <2>6
<1>3. ASSUME NEW list \in Seq(AnyToken), r.now.tokens = Append(list, t), r.index = Len(list)
      PROVE  r.index \in Nat /\ r.index + 1 \in DOMAIN r.now.tokens
                /\ r.now.tokens[r.index + 1] = t
  BY <1>3, LenProperties
<1>4. CASE ~ Listed(t) /\ Len(token_list) < MAX_TOKENS
  <2>1. r.now.tokens = Append(token_list, t) /\ r.index = Len(token_list)
    BY <1>4 DEF TokenToSendTo, Tables
  <2> QED BY <1>1, <1>3, <2>1
<1>5. CASE ~ Listed(t) /\ ~ Len(token_list) < MAX_TOKENS /\ gc_recent
  <2>1. r.now.tokens = token_list /\ r.index = -1
    BY <1>5 DEF TokenToSendTo, Tables
  <2> QED BY <1>5, <2>1 DEF Listed, KnownIn
<1>6. CASE ~ Listed(t) /\ ~ Len(token_list) < MAX_TOKENS /\ ~ gc_recent
  <2>1. PICK g \in GcResults(NoEntry, 0) :
           r = [now |-> [g EXCEPT !.tokens = Append(@, t)], gc |-> TRUE,
                index |-> Len(g.tokens)]
    BY <1>6 DEF TokenToSendTo
  <2>2. Leaves(g)
    BY GcTables
  <2>3. g = [messages |-> g.messages, acks |-> g.acks, tokens |-> g.tokens,
             bloom |-> g.bloom, rotations |-> g.rotations]
    BY <2>2 DEF Leaves
  <2>4. r.now.tokens = Append(g.tokens, t) /\ r.index = Len(g.tokens)
    BY <2>1, <2>3
  <2>5. g.tokens \in Seq(AnyToken)
    BY <1>1, GcTokensAre
  <2> QED BY <1>3, <2>4, <2>5
<1> QED BY <1>2, <1>4, <1>5, <1>6

AnsweredMarked ==
    \A x \in answered : /\ x[2] # ZeroToken
                        /\ x[1] \in DOMAIN message_table
                        /\ x[2] \in ReachedIn(message_table, token_list, x[1])

AInv == AnsweredMarked /\ AnswersAreNew

\* A mark lasts while the item is held and the token listed.
LEMMA MarkLasts ==
    ASSUME NEW table, NEW list, NEW table2, NEW list2, Lasts(table, list, table2, list2),
           NEW x \in Messages, x \in DOMAIN table, x \in DOMAIN table2,
           NEW t \in ReachedIn(table, list, x), t \in KnownIn(list2)
    PROVE  t \in ReachedIn(table2, list2, x)
<1>1. t \in Due(table, list, table2, list2, x)
  BY DEF Due
<1> QED BY <1>1 DEF Lasts

\* A step that notes nothing but marked messages keeps the first part.
LEMMA NoteKeepsMarked ==
    ASSUME IInv, CacheStep, answered \subseteq Messages \X Tokens,
           AnsweredMarked, NEW sent, NEW acks, Note(sent, acks),
           \A x \in sent : /\ x[2] # ZeroToken
                           /\ x[1] \in DOMAIN message_table' /\ x[2] \in KnownIn(token_list') =>
                                 x[2] \in ReachedIn(message_table', token_list', x[1])
    PROVE  AnsweredMarked'
<1> SUFFICES ASSUME NEW x \in answered'
             PROVE  /\ x[2] # ZeroToken /\ x[1] \in DOMAIN message_table'
                    /\ x[2] \in ReachedIn(message_table', token_list', x[1])
  BY DEF AnsweredMarked
<1>1. /\ TokensKept /\ x \in answered \cup sent
      /\ x[1] \in DOMAIN message_table' /\ x[2] \in KnownIn(token_list')
  BY DEF Note, KnownIn
<1>2. CASE x \in sent
  BY <1>1, <1>2
<1>3. CASE x \in answered
  <2>1. Lasts(message_table, token_list, message_table', token_list')
    BY <1>1, CacheStepLasts DEF StepLasts
  <2>2. /\ x[1] \in Messages /\ x[1] \in DOMAIN message_table /\ x[2] # ZeroToken
        /\ x[2] \in ReachedIn(message_table, token_list, x[1])
    BY <1>3 DEF AnsweredMarked
  <2> QED BY <1>1, <2>1, <2>2, MarkLasts
<1> QED BY <1>1, <1>2, <1>3

\* pcache_mark_token_sent marks the message, if it is cached and the token is
\* listed in the end.
LEMMA MarkTokenSentMarks ==
    ASSUME IInv, NEW t \in AnyToken, NEW m \in Messages, MarkTokenSent(t, m),
           m \in DOMAIN message_table', t \in KnownIn(token_list')
    PROVE  t \in ReachedIn(message_table', token_list', m)
<1>1. PICK r \in TokenToSendTo(t, {}) :
         Install(r, IF r.index = -1 THEN r.now.messages ELSE MarkIn(r.now.messages, m, r.index),
                 r.now.acks)
  BY DEF MarkTokenSent
<1>2. token_list' = r.now.tokens
  BY <1>1 DEF Install
<1>3. r.index # -1
  BY <1>2, TokenPlace
<1>4. r.index + 1 \in DOMAIN r.now.tokens /\ r.now.tokens[r.index + 1] = t
  BY <1>3, TokenPlace
<1>5. message_table' = MarkIn(r.now.messages, m, r.index)
  BY <1>1, <1>3 DEF Install
<1>6. m \in DOMAIN r.now.messages
  BY <1>5, MarkInDomain
<1>7. MessageTable(r.now.messages)
  BY TokenToSendToGood DEF Good
<1>8. r.index \in message_table'[m].sent_to_tokens
  BY <1>5, <1>6, <1>7 DEF MarkIn, MessageTable
<1>9. r.index \in Int /\ (r.index + 1) - 1 = r.index
  <2>1. r.index \in Bits \cup {-1}
    BY TokenToSendToGood
  <2> QED BY <2>1, TokenAssumption DEF Bits
<1> QED BY <1>2, <1>4, <1>6, <1>8, <1>9 DEF ReachedIn

\* What the request of a listed token returns: none of the messages marked at
\* its place.
Unmarked(t, results) == \A m \in results : m \in DOMAIN message_table /\
    IndexOf(t) \notin message_table[m].sent_to_tokens

LEMMA RequestOfListed ==
    ASSUME IInv, NEW t, t # ZeroToken, Listed(t), NEW matching, NEW max, NEW results,
           Request(t, matching, max, results)
    PROVE  Unmarked(t, results)
<1> DEFINE candidates == (DOMAIN message_table \cap matching) \ expired
           sent(m) == message_table[m].sent_to_tokens
           place == IndexOf(t)
           unsent == {m \in candidates : place \notin sent(m)}
<1>1. CASE results = {}
  BY <1>1 DEF Unmarked
<1>2. ASSUME NEW first \in candidates, NEW r \in TokenToSendTo(t, sent(first)),
             LET index == (CHOOSE i \in DOMAIN r.now.tokens : r.now.tokens[i] = t) - 1
                 left == {m \in candidates : index \notin sent(m)}
             IN  CASE r.gc ->
                        /\ results \subseteq DOMAIN message_table \cup {Garbled}
                        /\ max # 0 => Cardinality(results) <= max
                   [] ~ r.gc /\ ~ Listed(t) /\ r.index = -1 ->
                        results = {}
                   [] ~ r.gc /\ (Listed(t) \/ r.index # -1) ->
                        results \in TopPriority(
                            IF r.index = -1 THEN left ELSE left \cup {first}, max)
      PROVE  Unmarked(t, results)
  <2>1. /\ r.now.tokens = token_list /\ r.gc = FALSE
        /\ r.index = IF place \in sent(first) THEN -1 ELSE place
    BY DEF TokenToSendTo, Tables
  <2>2. (CHOOSE i \in DOMAIN r.now.tokens : r.now.tokens[i] = t) - 1 = place
    BY <2>1 DEF IndexOf
  <2> HIDE DEF place
  <2>3. results \in TopPriority(IF r.index = -1 THEN unsent ELSE unsent \cup {first}, max)
    BY <1>2, <2>1, <2>2
  <2>4. results \subseteq IF r.index = -1 THEN unsent ELSE unsent \cup {first}
    BY <2>3 DEF TopPriority
  <2>5. place \in Int /\ place # -1
    <3> DEFINE c == CHOOSE k \in DOMAIN token_list : token_list[k] = t
    <3>1. c \in DOMAIN token_list
      BY DEF Listed
    <3>2. DOMAIN token_list = 1 .. Len(token_list)
      BY LenProperties DEF IInv, Good, TokenList
    <3>3. place = c - 1
      BY DEF place, IndexOf
    <3> HIDE DEF c
    <3> QED BY <3>1, <3>2, <3>3
  <2>6. \A m \in results : m \in candidates /\ place \notin sent(m)
    BY <2>1, <2>4, <2>5
  <2> QED BY <2>6 DEF Unmarked, place
<1> QED BY <1>1, <1>2 DEF Request

\* pcache_request returns no message that is noted for the token.
LEMMA RequestIsNew ==
    ASSUME IInv, AnsweredMarked, NEW t \in Tokens, NEW matching, NEW max,
           NEW results, Request(t, matching, max, results), NEW m \in results
    PROVE  <<m, t>> \notin answered
<1> SUFFICES ASSUME <<m, t>> \in answered PROVE FALSE
  OBVIOUS
<1>1. /\ t # ZeroToken /\ m \in DOMAIN message_table
      /\ t \in ReachedIn(message_table, token_list, m)
  BY DEF AnsweredMarked
<1>2. PICK j \in DOMAIN token_list :
         token_list[j] = t /\ j - 1 \in message_table[m].sent_to_tokens
  BY <1>1 DEF ReachedIn
<1>3. IndexOf(t) = j - 1
  <2>1. \A i, k \in DOMAIN token_list : token_list[i] = token_list[k] => i = k
    BY DEF IInv, Good, TokenList
  <2>2. (CHOOSE i \in DOMAIN token_list : token_list[i] = t) = j
    BY <1>2, <2>1
  <2> QED BY <2>2 DEF IndexOf
<1>4. Listed(t)
  BY <1>2 DEF Listed
<1> QED BY <1>1, <1>2, <1>3, <1>4, RequestOfListed DEF Unmarked

LEMMA NextAInv ==
    ASSUME DInv, AInv, [DaemonNext]_all_vars
    PROVE  AInv'
<1>1. /\ AnsweredMarked /\ AnswersAreNew /\ IInv /\ BusyOK
      /\ answered \subseteq Messages \X Tokens
  BY DEF AInv, DInv
<1>2. CacheStep /\ DOMAIN message_table' \subseteq Messages
  BY <1>1, DaemonStepIsCacheStep, CacheStepIInv DEF IInv, Good, MessageTable
<1>3. ASSUME NEW acks, Note({}, acks), busy'.handler # "answer"
      PROVE  AInv'
  <2>1. AnsweredMarked'
    BY <1>1, <1>2, <1>3, NoteKeepsMarked
  <2> QED BY <1>3, <2>1 DEF AInv, AnswersAreNew
<1>4. ASSUME UNCHANGED <<message_table, token_list, answered>>,
             busy'.handler = "answer" => busy' = busy
      PROVE  AInv'
  BY <1>1, <1>4 DEF AInv, AnsweredMarked, AnswersAreNew
<1>5. Idle.handler # "answer"
  BY DEF Idle
<1>6. ASSUME NEW acks \in AckBatches, NEW h \in Hops, ReceiveAcks(acks, h)
      PROVE  AInv'
  <2>1. busy'.handler # "answer"
    BY <1>6 DEF ReceiveAcks, Acks
  <2> QED BY <1>4, <1>6, <2>1 DEF ReceiveAcks, vars
<1>7. CASE SaveNextAck
  <2>1. busy'.handler # "answer"
    BY <1>1, <1>7, BusyIs DEF SaveNextAck, BusyAcks
  <2> QED BY <1>3, <1>7, <2>1 DEF SaveNextAck
<1>8. ASSUME NEW new \in BOOLEAN, CheckNextAck(new)
      PROVE  AInv'
  <2>1. busy'.handler # "answer"
    BY <1>1, <1>5, <1>8, BusyIs DEF CheckNextAck, BusyAcks
  <2> QED BY <1>3, <1>8, <2>1 DEF CheckNextAck
<1>9. CASE \E m \in Messages : ReceiveKnown(m)
  BY <1>3, <1>5, <1>9 DEF ReceiveKnown, LookUp
<1>10. CASE \E m \in Messages, p \in Priorities, is_local \in BOOLEAN :
               ReceiveNew(m, p, is_local)
  BY <1>3, <1>5, <1>10 DEF ReceiveNew
<1>11. CASE \E m \in Messages, is_local \in BOOLEAN : ReceiveRequest(m, is_local)
  BY <1>3, <1>11 DEF ReceiveRequest, LookUp, Asking
<1>12. ASSUME NEW t \in Tokens, NEW matching, NEW results, AnswerRequest(t, matching, results)
       PROVE  AInv'
  <2>1. /\ busy' = Answers(t, busy.is_local, results, busy.keep)
        /\ Note({}, {})
        /\ Request(t, matching, IF busy.is_local THEN 0 ELSE SEND_EXTERNAL_MAX, results)
    BY <1>12 DEF AnswerRequest
  <2>2. \A m \in results : <<m, t>> \notin answered'
    BY <1>1, <2>1, RequestIsNew, NoteSubset
  <2>3. AnsweredMarked'
    BY <1>1, <1>2, <2>1, NoteKeepsMarked
  <2>4. busy'.token = t /\ busy'.send = results
    BY <2>1 DEF Answers
  <2> QED BY <2>2, <2>3, <2>4 DEF AInv, AnswersAreNew
<1>13. ASSUME NEW m \in Messages \cup {Garbled}, SendAnswer(m)
       PROVE  AInv'
  <2> DEFINE sent == IF busy.token # ZeroToken /\ IsMarked(m) THEN {<<m, busy.token>>} ELSE {}
  <2>1. /\ busy \in BusyAnswer /\ Note(sent, {}) /\ busy.handler = "answer"
        /\ busy' = [busy EXCEPT !.send = busy.send \ {m}]
    BY <1>1, <1>13, BusyIs DEF SendAnswer
  <2>2. /\ busy.token \in AnyToken /\ busy'.send = busy.send \ {m}
        /\ busy'.token = busy.token
    BY <2>1 DEF BusyAnswer, AnyToken
  <2>3. sent # {} => busy.token # ZeroToken /\ IsMarked(m)
    OBVIOUS
  <2>4. ASSUME sent # {}, m \in DOMAIN message_table', busy.token \in KnownIn(token_list')
        PROVE  busy.token \in ReachedIn(message_table', token_list', m)
    <3>1. m \in Messages /\ m # Garbled /\ IsMarked(m)
      BY <1>2, <2>3, <2>4, TableAssumption
    <3>2. MarkTokenSent(busy.token, m)
      BY <1>13, <3>1 DEF SendAnswer, MarkNext
    <3> QED BY <1>1, <2>2, <2>4, <3>1, <3>2, MarkTokenSentMarks
  <2>5. sent \subseteq {<<m, busy.token>>}
    OBVIOUS
  <2> HIDE DEF sent
  <2>6. AnsweredMarked'
    <3>1. \A x \in sent : x[1] = m /\ x[2] = busy.token /\ sent # {}
      BY <2>5
    <3>2. \A x \in sent :
             /\ x[2] # ZeroToken
             /\ x[1] \in DOMAIN message_table' /\ x[2] \in KnownIn(token_list') =>
                   x[2] \in ReachedIn(message_table', token_list', x[1])
      BY <2>3, <2>4, <3>1
    <3> QED BY <1>1, <1>2, <2>1, <3>2, NoteKeepsMarked
  <2>7. answered' \subseteq answered \cup {<<m, busy.token>>}
    BY <2>1, <2>5, NoteSubset
  <2>8. \A x \in busy'.send : <<x, busy'.token>> \notin answered'
    BY <1>1, <2>1, <2>2, <2>7 DEF AnswersAreNew
  <2> QED BY <2>6, <2>8 DEF AInv, AnswersAreNew
<1>14. CASE \E n \in Messages, p \in Priorities : FinishRequest(n, p)
  BY <1>3, <1>5, <1>14 DEF FinishRequest
<1>15. CASE \E packets \in 0 .. 2 : ReceiveTrace(packets)
  BY <1>3, <1>5, <1>15 DEF ReceiveTrace, Tracing
<1>16. ASSUME NEW m \in Messages, NEW p \in Priorities, SaveTrace(m, p)
       PROVE  AInv'
  <2>1. busy'.handler # "answer"
    BY <1>1, <1>5, <1>16, BusyIs DEF SaveTrace, BusyTrace
  <2> QED BY <1>3, <1>16, <2>1 DEF SaveTrace
<1>17. CASE Time
  BY <1>4, <1>17 DEF Time, Expire, MinutePasses
<1>18. CASE UNCHANGED all_vars
  BY <1>4, <1>18 DEF all_vars, vars
<1> QED
  BY <1>6, <1>7, <1>8, <1>9, <1>10, <1>11, <1>12, <1>13, <1>14, <1>15, <1>16, <1>17, <1>18
     DEF DaemonNext

\* No message with an explicit id, or for a system outside, is sent twice in
\* answer to the same token while the cache holds the one and knows the other,
\* although it collects its garbage between the lookup and the marks and in the
\* loop of the lookup itself (send_messages_to_one, pcache_request,
\* pcache_mark_token_sent).
THEOREM AnswersNew == DaemonSpec => []AnswersAreNew
<1>1. DaemonInit => AInv
  BY DEF DaemonInit, AInv, AnsweredMarked, AnswersAreNew, Idle
<1>2. DInv /\ AInv /\ [DaemonNext]_all_vars => AInv'
  BY NextAInv
<1>3. AInv => AnswersAreNew
  BY DEF AInv
<1> QED BY <1>1, <1>2, <1>3, DaemonSpecDInv, PTL DEF DaemonSpec

-----------------------------------------------------------------------------
(* The acks of a packet are saved one by one, and each may need a gc, which *)
(* evicts acks saved before: those are in the filters then, and stay there  *)
(* until NUM_FILTERS rotations after the packet came.                       *)

\* Is m in filter f since at least k rotations, or were there NUM_FILTERS since?
Known(f, m, k) ==
    \/ m \in DOMAIN bloom[f] /\ bloom[f][m] >= k
    \/ rotations >= k + NUM_FILTERS
Held(a, k) == a \in DOMAIN ack_table \/ Known("ack", a, k)

LEMMA FilterNumbers ==
    ASSUME IInv, NEW f \in Filters, NEW m \in DOMAIN bloom[f]
    PROVE  bloom[f][m] \in Nat /\ m \in Messages
BY DEF IInv, Good, Filter, Stamped

LEMMA KnownKept ==
    ASSUME IInv, IInv', Follows(bloom', rotations'), NEW f \in Filters, NEW m, NEW k \in Nat,
           Known(f, m, k)
    PROVE  Known(f, m, k)'
<1>1. /\ rotations \in Nat /\ rotations' \in Nat /\ rotations <= rotations'
      /\ NUM_FILTERS \in Nat
  BY FilterAssumption DEF IInv, Good, Filter, Follows
<1>2. CASE rotations >= k + NUM_FILTERS
  BY <1>1, <1>2 DEF Known
<1>3. CASE m \in DOMAIN bloom[f] /\ bloom[f][m] >= k
  <2>1. bloom[f][m] \in Nat
    BY <1>3, FilterNumbers
  <2>2. CASE rotations' >= bloom[f][m] + NUM_FILTERS
    BY <1>1, <1>3, <2>1, <2>2 DEF Known
  <2>3. CASE m \in DOMAIN bloom'[f] /\ bloom'[f][m] >= bloom[f][m]
    <3>1. bloom'[f][m] \in Nat
      BY <2>3 DEF IInv, Good, Filter, Stamped
    <3> QED BY <1>3, <2>1, <2>3, <3>1 DEF Known
  <2> QED BY <1>3, <2>2, <2>3 DEF Follows
<1> QED BY <1>2, <1>3 DEF Known

LEMMA HeldKept ==
    ASSUME IInv, IInv', Follows(bloom', rotations'), DropStep, NEW a,
           NEW k \in 0 .. rotations, Held(a, k)
    PROVE  Held(a, k)'
<1>1. rotations \in Nat /\ k \in Nat /\ k <= rotations /\ "ack" \in Filters
  BY DEF IInv, Good, Filter, Filters
<1>2. CASE Known("ack", a, k)
  BY <1>1, <1>2, KnownKept DEF Held
<1>3. CASE a \in DOMAIN ack_table' 
  BY <1>3 DEF Held
<1>4. CASE a \in DOMAIN ack_table /\ a \notin DOMAIN ack_table'
  <2>1. a \in DOMAIN bloom'["ack"] /\ bloom'["ack"][a] >= rotations
    BY <1>4 DEF DropStep, DropsAreRemembered
  <2>2. bloom'["ack"][a] \in Nat
    BY <1>1, <2>1 DEF IInv, Good, Filter, Stamped
  <2> QED BY <1>1, <2>1, <2>2 DEF Held, Known
<1> QED BY <1>2, <1>3, <1>4 DEF Held

\* save_one_ack holds the ack, or finds it in the filter and refreshes it there.
LEMMA SaveAckHeld ==
    ASSUME IInv, NEW a \in Messages, NEW hops \in Hops, SaveAck(a, hops),
           NEW k \in 0 .. rotations
    PROVE  Held(a, k)'
<1>0. IInv'
  BY SaveAckStep
<1>1. rotations \in Nat /\ "ack" \in Filters
  BY DEF IInv, Good, Filter, Filters
<1>2. CASE InBloom("ack", a)
  <2>1. AddToBloom("ack", a)
    BY <1>2 DEF SaveAck
  <2>2. a \in DOMAIN bloom'["ack"] /\ bloom'["ack"][a] = rotations
    BY <1>1, <2>1, AddToBloomFilter DEF IInv, Good
  <2> QED BY <1>1, <2>2 DEF Held, Known
<1>3. CASE ~ InBloom("ack", a)
  <2>1. halted' = FALSE
    BY <1>0 DEF IInv
  <2>2. ~ Halt
    BY <2>1 DEF Halt
  <2>3. CASE ack_table' = [ack_table EXCEPT ![a].max_hops = IF @ < hops THEN hops ELSE @]
             /\ a \in DOMAIN ack_table
    BY <2>3 DEF Held
  <2>4. ASSUME NEW acks, ack_table' = Put(acks, a, NewAck(hops))
        PROVE  Held(a, k)'
    <3>1. DOMAIN ack_table' = DOMAIN acks \cup {a}
      BY <2>4, PutDomain
    <3> QED BY <3>1 DEF Held
  <2> QED BY <1>3, <2>2, <2>3, <2>4 DEF SaveAck
<1> QED BY <1>2, <1>3

Batch ==
    busy.handler = "acks" =>
        \A i \in DOMAIN busy.check :
            \/ \E j \in DOMAIN busy.save : busy.save[j] = busy.check[i]
            \/ Held(busy.check[i], busy.began)

LEMMA SaveNextAckBatch ==
    ASSUME DInv, IInv', Follows(bloom', rotations'), DropStep, Batch, SaveNextAck
    PROVE  Batch'
<1>1. /\ busy \in BusyAcks /\ busy.save # <<>> /\ busy.handler = "acks"
      /\ busy' = [busy EXCEPT !.save = Tail(busy.save)]
      /\ SaveAck(Head(busy.save), busy.hops) /\ IInv
  BY BusyIs DEF DInv, SaveNextAck
<1>2. /\ busy'.check = busy.check /\ busy'.save = Tail(busy.save) /\ busy'.began = busy.began
      /\ busy.began \in 0 .. rotations /\ busy.hops \in Hops
      /\ busy.save \in Seq(ACK_REQ)
  BY <1>1 DEF BusyAcks
<1> DEFINE save == busy.save
<1>3. /\ Head(save) = save[1] /\ Head(save) \in Messages
      /\ DOMAIN save = 1 .. Len(save) /\ Len(save) \in Nat
      /\ DOMAIN Tail(save) = 1 .. Len(save) - 1
      /\ \A j \in 1 .. Len(save) - 1 : Tail(save)[j] = save[j + 1]
  <2>1. /\ Tail(save) \in Seq(ACK_REQ) /\ Len(Tail(save)) = Len(save) - 1
        /\ \A j \in 1 .. Len(Tail(save)) : Tail(save)[j] = save[j + 1]
    BY <1>1, <1>2, HeadTailProperties
  <2>2. DOMAIN Tail(save) = 1 .. Len(Tail(save))
    BY <2>1, LenProperties
  <2>3. DOMAIN save = 1 .. Len(save) /\ Len(save) \in Nat
    BY <1>2, LenProperties
  <2>4. Head(save) = save[1]
    OBVIOUS
  <2> QED BY <1>1, <2>1, <2>2, <2>3, <2>4, HeadOfSave
<1> HIDE DEF save
<1> SUFFICES ASSUME NEW i \in DOMAIN busy.check
             PROVE  \/ \E j \in DOMAIN Tail(save) : Tail(save)[j] = busy.check[i]
                    \/ Held(busy.check[i], busy.began)'
  BY <1>2 DEF Batch, Held, Known, save
<1>4. PICK k \in 0 .. rotations : k = busy.began
  BY <1>2
<1>5. PICK c : c = busy.check[i]
  OBVIOUS
<1>6. Held(c, k)' => Held(busy.check[i], busy.began)'
  BY <1>2, <1>4, <1>5 DEF Held, Known
<1>7. CASE Held(busy.check[i], busy.began)
  <2>1. Held(c, k)
    BY <1>4, <1>5, <1>7
  <2> QED BY <1>1, <1>6, <2>1, HeldKept
<1>8. ASSUME NEW j \in DOMAIN save, save[j] = busy.check[i]
      PROVE  \/ \E x \in DOMAIN Tail(save) : Tail(save)[x] = busy.check[i]
             \/ Held(busy.check[i], busy.began)'
  <2>1. CASE j = 1
    <3>1. c \in Messages /\ SaveAck(c, busy.hops)
      BY <1>1, <1>3, <1>5, <1>8, <2>1 DEF save
    <3>2. Held(c, k)'
      BY <1>1, <1>2, <3>1, SaveAckHeld
    <3> QED BY <1>6, <3>2
  <2>2. CASE j # 1
    <3>1. j - 1 \in DOMAIN Tail(save) /\ Tail(save)[j - 1] = save[j]
      BY <1>3, <2>2
    <3> QED BY <1>8, <3>1
  <2> QED BY <2>1, <2>2
<1> QED BY <1>1, <1>7, <1>8 DEF Batch, save

LEMMA CheckNextAckBatch ==
    ASSUME DInv, IInv', Follows(bloom', rotations'), DropStep, Batch,
           NEW new \in BOOLEAN, CheckNextAck(new)
    PROVE  Batch'
<1>1. CASE Len(busy.check) = 1
  BY <1>1 DEF CheckNextAck, Batch, Idle
<1>2. CASE Len(busy.check) # 1
  <2>1. /\ busy \in BusyAcks /\ busy.save = <<>> /\ busy.handler = "acks" /\ IInv
        /\ busy' = [busy EXCEPT !.check = Tail(busy.check)]
    BY <1>2, BusyIs DEF DInv, CheckNextAck
  <2>2. /\ busy'.check = Tail(busy.check) /\ busy'.began = busy.began
        /\ busy.check \in Seq(ACK_REQ) /\ busy.check # <<>> /\ busy.began \in 0 .. rotations
    BY <2>1 DEF BusyAcks
  <2>3. ASSUME NEW i \in DOMAIN Tail(busy.check)
        PROVE  i + 1 \in DOMAIN busy.check /\ Tail(busy.check)[i] = busy.check[i + 1]
    <3>1. /\ Tail(busy.check) \in Seq(ACK_REQ) /\ Len(Tail(busy.check)) = Len(busy.check) - 1
          /\ \A j \in 1 .. Len(Tail(busy.check)) : Tail(busy.check)[j] = busy.check[j + 1]
      BY <2>2, HeadTailProperties
    <3>2. /\ DOMAIN Tail(busy.check) = 1 .. Len(Tail(busy.check))
          /\ DOMAIN busy.check = 1 .. Len(busy.check) /\ Len(busy.check) \in Nat
      BY <2>2, <3>1, LenProperties
    <3> QED BY <3>1, <3>2
  <2> SUFFICES ASSUME NEW i \in DOMAIN Tail(busy.check)
               PROVE  Held(busy.check[i], busy.began)'
    BY <2>2 DEF Batch, Held, Known
  <2>4. PICK k \in 0 .. rotations : k = busy.began
    BY <2>2
  <2>5. PICK c : c = busy.check[i + 1]
    OBVIOUS
  <2>6. Held(c, k)
    BY <2>1, <2>3, <2>4, <2>5, EmptySeq DEF Batch
  <2>7. Held(c, k)'
    BY <2>1, <2>6, HeldKept
  <2> QED BY <2>2, <2>3, <2>4, <2>5, <2>7 DEF Held, Known
<1> QED BY <1>1, <1>2

LEMMA NextBatch ==
    ASSUME DInv, Batch, [DaemonNext]_all_vars
    PROVE  Batch'
<1>1. BusyOK /\ IInv /\ IInv' /\ Follows(bloom', rotations') /\ DropStep
  BY StepFacts DEF DInv
<1>2. ASSUME NEW acks \in AckBatches, NEW h \in Hops, ReceiveAcks(acks, h)
      PROVE  Batch'
  <2>1. busy'.check = acks /\ busy'.save = acks
    BY <1>2 DEF ReceiveAcks, Acks
  <2> QED BY <2>1 DEF Batch
<1>3. CASE SaveNextAck
  BY <1>1, <1>3, SaveNextAckBatch
<1>4. CASE \E new \in BOOLEAN : CheckNextAck(new)
  BY <1>1, <1>4, CheckNextAckBatch
<1>5. CASE busy'.handler # "acks"
  BY <1>5 DEF Batch
<1>6. ASSUME UNCHANGED busy
      PROVE  Batch'
  <2>1. CASE busy.handler # "acks"
    BY <1>6, <2>1 DEF Batch
  <2>2. CASE busy.handler = "acks"
    <3> SUFFICES ASSUME NEW i \in DOMAIN busy.check, Held(busy.check[i], busy.began)
                 PROVE  Held(busy.check[i], busy.began)'
      BY <1>6, <2>2 DEF Batch
    <3>1. busy \in BusyAcks
      BY <1>1, <2>2, BusyIs
    <3>2. PICK k \in 0 .. rotations : k = busy.began
      BY <3>1 DEF BusyAcks
    <3>3. PICK c : c = busy.check[i]
      OBVIOUS
    <3>4. Held(c, k)'
      BY <1>1, <3>2, <3>3, HeldKept
    <3> QED BY <1>6, <3>2, <3>3, <3>4 DEF Held, Known
  <2> QED BY <2>1, <2>2
<1>7. ASSUME NEW m, SendAnswer(m)
      PROVE  busy'.handler # "acks"
  BY <1>1, <1>7, BusyIs DEF SendAnswer, BusyAnswer
<1>8. ASSUME NEW m, NEW p, SaveTrace(m, p)
      PROVE  busy'.handler # "acks"
  BY <1>1, <1>8, BusyIs DEF SaveTrace, BusyTrace, Idle
<1>9. \/ \E m \in Messages, is_local \in BOOLEAN : ReceiveRequest(m, is_local)
      \/ \E t \in Tokens, matching \in SUBSET Messages,
            results \in SUBSET (Messages \cup {Garbled}) : AnswerRequest(t, matching, results)
      \/ \E n \in Messages, p \in Priorities : FinishRequest(n, p)
      \/ \E packets \in 0 .. 2 : ReceiveTrace(packets)
      => busy'.handler # "acks"
  BY DEF ReceiveRequest, Asking, AnswerRequest, Answers, FinishRequest, ReceiveTrace, Tracing, Idle
<1> QED
  BY <1>2, <1>3, <1>4, <1>5, <1>6, <1>7, <1>8, <1>9
     DEF DaemonNext, ReceiveKnown, ReceiveNew, Time, all_vars

LEMMA DaemonSpecBatch == DaemonSpec => []Batch
<1>1. DaemonInit => Batch
  BY DEF DaemonInit, Batch, Idle
<1>2. DInv /\ Batch /\ [DaemonNext]_all_vars => Batch'
  BY NextBatch
<1> QED BY <1>1, <1>2, DaemonSpecDInv, PTL DEF DaemonSpec

\* Each ack of a packet is held, or in the Bloom filter, when process_acks asks
\* for it, however many acks the packet has and however many of them the gcs that
\* made room for the others have evicted; while the filters have not rotated
\* NUM_FILTERS times since the packet came (pcache_save_acks, save_one_ack,
\* pcache_ack_for_token).
THEOREM CheckedAcksKnown == DaemonSpec => []CheckedAcksAreKnown
<1>1. DInv /\ Batch => CheckedAcksAreKnown
  <2> SUFFICES ASSUME DInv, Batch, busy.handler = "acks", busy.save = <<>>, InTime,
                      NEW i \in DOMAIN busy.check
               PROVE  busy.check[i] \in DOMAIN ack_table \/ InBloom("ack", busy.check[i])
    BY DEF CheckedAcksAreKnown
  <2>1. DOMAIN busy.save = {}
    BY EmptySeq
  <2>2. Held(busy.check[i], busy.began)
    BY <2>1 DEF Batch
  <2>3. rotations < busy.began + NUM_FILTERS /\ busy.began \in Nat /\ rotations \in Nat
        /\ NUM_FILTERS \in Nat
    BY BusyIs, FilterAssumption DEF DInv, InTime, BusyAcks, IInv, Good, Filter
  <2> QED BY <2>2, <2>3 DEF Held, Known, InBloom
<1> QED BY <1>1, DaemonSpecBatch, DaemonSpecDInv, PTL

-----------------------------------------------------------------------------
(* An ack that was forwarded for a token of ours is marked as sent to it.   *)
(* If it is evicted we have another token by then, and only the handler that *)
(* copied the old one may still ask for it: it finds the ack in the filter.  *)

Sent(a, t) == a \in DOMAIN ack_table /\ t \in ReachedIn(ack_table, token_list, a)

Outdated(a, t) ==
    /\ t < local_token
    /\ busy.handler = "acks" /\ busy.token = t => Known("ack", a, busy.began)

TokenCopied == busy.handler = "acks" => busy.token <= local_token

Forwarded ==
    \A x \in forwarded_acks : /\ x[2] <= local_token /\ x[2] \in KnownIn(token_list)
                              /\ Sent(x[1], x[2]) \/ Outdated(x[1], x[2])

FInv == TokenCopied /\ Forwarded

\* The place of a token among the marks of an ack it was sent to.
LEMMA ReachedPlace ==
    ASSUME IInv, NEW table, NEW x, NEW t \in ReachedIn(table, token_list, x)
    PROVE  x \in DOMAIN table /\ Listed(t) /\ IndexOf(t) \in table[x].sent_to_tokens
<1>1. x \in DOMAIN table
  BY DEF ReachedIn
<1>2. PICK j \in DOMAIN token_list : token_list[j] = t /\ j - 1 \in table[x].sent_to_tokens
  BY DEF ReachedIn
<1>3. \A i, k \in DOMAIN token_list : token_list[i] = token_list[k] => i = k
  BY DEF IInv, Good, TokenList
<1>4. (CHOOSE i \in DOMAIN token_list : token_list[i] = t) = j
  BY <1>2, <1>3
<1> QED BY <1>1, <1>2, <1>4 DEF IndexOf, Listed

\* pcache_ack_for_token returns 1 only for an ack that is not marked, and
\* marks it if it is still there.
LEMMA AckForTokenIsNew ==
    ASSUME IInv, NEW t \in AnyToken, NEW a \in Messages, AckForToken(t, a, TRUE),
           a \in DOMAIN ack_table \/ InBloom("ack", a)
    PROVE  /\ a \in DOMAIN ack_table /\ ~ InBloom("ack", a)
           /\ t \notin ReachedIn(ack_table, token_list, a)
           /\ a \in DOMAIN ack_table' => t \in ReachedIn(ack_table', token_list', a)
<1>1. a \in DOMAIN ack_table /\ ~ InBloom("ack", a)
  BY DEF AckForToken
<1>2. PICK r \in TokenToSendTo(t, ack_table[a].sent_to_tokens) :
         r.index # -1 /\ Install(r, r.now.messages, MarkIn(r.now.acks, a, r.index))
  BY <1>1 DEF AckForToken
<1>3. t \notin ReachedIn(ack_table, token_list, a)
  <2> SUFFICES ASSUME t \in ReachedIn(ack_table, token_list, a) PROVE FALSE
    OBVIOUS
  <2>1. Listed(t) /\ IndexOf(t) \in ack_table[a].sent_to_tokens
    BY ReachedPlace
  <2> QED BY <1>2, <2>1 DEF TokenToSendTo
<1>4. ASSUME a \in DOMAIN ack_table'
      PROVE  t \in ReachedIn(ack_table', token_list', a)
  <2>1. token_list' = r.now.tokens /\ ack_table' = MarkIn(r.now.acks, a, r.index)
    BY <1>2 DEF Install
  <2>2. r.index + 1 \in DOMAIN r.now.tokens /\ r.now.tokens[r.index + 1] = t
    BY <1>2, TokenPlace
  <2>3. a \in DOMAIN r.now.acks
    BY <1>4, <2>1, MarkInDomain
  <2>4. AckTable(r.now.acks)
    BY TokenToSendToGood DEF Good
  <2>5. r.index \in ack_table'[a].sent_to_tokens
    BY <2>1, <2>3, <2>4 DEF MarkIn, AckTable
  <2>6. r.index \in Int /\ (r.index + 1) - 1 = r.index
    <3>1. r.index \in Bits \cup {-1}
      BY TokenToSendToGood
    <3> QED BY <3>1, TokenAssumption DEF Bits
  <2> QED BY <1>4, <2>1, <2>2, <2>5, <2>6 DEF ReachedIn
<1> QED BY <1>1, <1>3, <1>4

\* A handler for acks has just begun, or is the one that was there.
LEMMA BusyFrom ==
    ASSUME DInv, [DaemonNext]_all_vars, busy'.handler = "acks"
    PROVE  \/ /\ UNCHANGED vars /\ busy'.token = local_token
           \/ /\ busy.handler = "acks" /\ busy'.token = busy.token
              /\ busy'.began = busy.began
<1>1. BusyOK
  BY DEF DInv
<1>2. CASE UNCHANGED busy
  BY <1>2
<1>3. ASSUME NEW acks, NEW h, ReceiveAcks(acks, h)
      PROVE  UNCHANGED vars /\ busy'.token = local_token
  BY <1>3 DEF ReceiveAcks, Acks
<1>4. CASE SaveNextAck
  <2>1. /\ busy \in BusyAcks /\ busy.handler = "acks"
        /\ busy' = [busy EXCEPT !.save = Tail(busy.save)]
    BY <1>1, <1>4, BusyIs DEF SaveNextAck
  <2> QED BY <2>1 DEF BusyAcks
<1>5. ASSUME NEW new \in BOOLEAN, CheckNextAck(new)
      PROVE  busy.handler = "acks" /\ busy'.token = busy.token /\ busy'.began = busy.began
  <2>1. /\ busy \in BusyAcks /\ busy.handler = "acks"
        /\ busy' = [busy EXCEPT !.check = Tail(busy.check)]
    BY <1>1, <1>5, BusyIs DEF CheckNextAck, Idle
  <2> QED BY <2>1 DEF BusyAcks
<1>6. ASSUME NEW m, SendAnswer(m)
      PROVE  FALSE
  BY <1>1, <1>6, BusyIs DEF SendAnswer, BusyAnswer
<1>7. ASSUME NEW m, NEW p, SaveTrace(m, p)
      PROVE  FALSE
  BY <1>1, <1>7, BusyIs DEF SaveTrace, BusyTrace, Idle
<1>8. ~ \/ \E m \in Messages, is_local \in BOOLEAN : ReceiveRequest(m, is_local)
        \/ \E t \in Tokens, matching \in SUBSET Messages,
              results \in SUBSET (Messages \cup {Garbled}) : AnswerRequest(t, matching, results)
        \/ \E n \in Messages, p \in Priorities : FinishRequest(n, p)
        \/ \E packets \in 0 .. 2 : ReceiveTrace(packets)
  BY DEF ReceiveRequest, Asking, AnswerRequest, Answers, FinishRequest, ReceiveTrace, Tracing, Idle
<1> QED
  BY <1>2, <1>3, <1>4, <1>5, <1>6, <1>7, <1>8
     DEF DaemonNext, ReceiveKnown, ReceiveNew, Time, all_vars

LEMMA LocalTokenGrows ==
    ASSUME DInv, [DaemonNext]_all_vars
    PROVE  /\ local_token \in Nat /\ local_token' \in Nat /\ local_token <= local_token'
<1>1. IInv /\ IInv' /\ AcksStay
  BY StepFacts DEF DInv
<1>2. local_token \in Nat /\ local_token' \in Nat
  BY <1>1 DEF IInv
<1> QED BY <1>1, <1>2 DEF AcksStay

\* An ack that was in the table is marked there, or has left it with our token.
LEMMA SentOrOutdated ==
    ASSUME DInv, [DaemonNext]_all_vars,
           NEW a \in DOMAIN ack_table, NEW t \in Nat, t <= local_token,
           a \in DOMAIN ack_table' => t \in ReachedIn(ack_table', token_list', a)
    PROVE  Sent(a, t)' \/ Outdated(a, t)'
<1>1. /\ IInv /\ IInv' /\ BusyOK /\ DropStep /\ AcksStay
      /\ rotations \in Nat
  BY StepFacts DEF DInv
<1>2. local_token \in Nat /\ local_token' \in Nat
  BY LocalTokenGrows
<1>3. CASE a \in DOMAIN ack_table'
  BY <1>3 DEF Sent
<1>4. CASE a \notin DOMAIN ack_table'
  <2>1. t < local_token'
    BY <1>1, <1>2, <1>4 DEF AcksStay
  <2>2. /\ a \in DOMAIN bloom'["ack"] /\ bloom'["ack"][a] >= rotations
        /\ bloom'["ack"][a] \in Nat
    <3>1. a \in DOMAIN bloom'["ack"] /\ bloom'["ack"][a] >= rotations
      BY <1>1, <1>4 DEF DropStep, DropsAreRemembered
    <3>2. bloom'["ack"][a] \in Nat
      BY <1>1, <3>1 DEF IInv, Good, Filter, Stamped, Filters
    <3> QED BY <3>1, <3>2
  <2>3. ASSUME busy'.handler = "acks", busy'.token = t
        PROVE  Known("ack", a, busy.began)' 
    <3>1. ~ UNCHANGED vars
      BY <1>4 DEF vars
    <3>2. busy \in BusyAcks /\ busy'.began = busy.began
      BY <1>1, <2>3, <3>1, BusyFrom, BusyIs
    <3>3. busy.began \in Nat /\ busy.began <= rotations
      BY <1>1, <3>2 DEF BusyAcks
    <3>4. bloom'["ack"][a] >= busy.began
      BY <1>1, <2>2, <3>3
    <3> QED BY <2>2, <3>2, <3>4 DEF Known
  <2> QED BY <2>1, <2>3 DEF Outdated
<1> QED BY <1>3, <1>4

\* What held of an ack before the step holds after it, while the token is listed.
LEMMA ForwardedStays ==
    ASSUME DInv, [DaemonNext]_all_vars, TokensKept,
           NEW a \in Messages, NEW t \in Nat, t <= local_token, t \in KnownIn(token_list'),
           Sent(a, t) \/ Outdated(a, t)
    PROVE  Sent(a, t)' \/ Outdated(a, t)'
<1>1. IInv /\ IInv' /\ BusyOK /\ Follows(bloom', rotations') /\ CacheStep
  BY StepFacts, DaemonStepIsCacheStep DEF DInv
<1>2. CASE Sent(a, t)
  <2>1. Lasts(ack_table, token_list, ack_table', token_list')
    BY <1>1, CacheStepLasts DEF StepLasts
  <2>2. a \in DOMAIN ack_table /\ t \in ReachedIn(ack_table, token_list, a)
    BY <1>2 DEF Sent
  <2>3. a \in DOMAIN ack_table' => t \in ReachedIn(ack_table', token_list', a)
    BY <2>1, <2>2, MarkLasts
  <2> QED BY <2>2, <2>3, SentOrOutdated
<1>3. CASE Outdated(a, t)
  <2>1. t < local_token /\ t < local_token'
    BY <1>3, LocalTokenGrows DEF Outdated
  <2>2. ASSUME busy'.handler = "acks", busy'.token = t
        PROVE  Known("ack", a, busy.began)'
    <3>1. busy'.token # local_token
      BY <2>1, <2>2, LocalTokenGrows
    <3>2. busy \in BusyAcks /\ busy.token = t /\ busy'.began = busy.began
      BY <1>1, <2>2, <3>1, BusyFrom, BusyIs
    <3>3. PICK k \in 0 .. rotations : k = busy.began
      BY <3>2 DEF BusyAcks
    <3>4. Known("ack", a, k)
      BY <1>3, <3>2, <3>3 DEF Outdated, BusyAcks
    <3>5. k \in Nat /\ "ack" \in Filters
      BY DEF Filters
    <3>6. Known("ack", a, k)'
      BY <1>1, <3>4, <3>5, KnownKept
    <3> QED BY <3>2, <3>3, <3>6 DEF Known
  <2> QED BY <2>1, <2>2 DEF Outdated
<1> QED BY <1>2, <1>3

LEMMA NextTokenCopied ==
    ASSUME DInv, TokenCopied, [DaemonNext]_all_vars
    PROVE  TokenCopied'
<1> SUFFICES ASSUME busy'.handler = "acks" PROVE busy'.token <= local_token'
  BY DEF TokenCopied
<1>1. local_token \in Nat /\ local_token' \in Nat /\ local_token <= local_token'
  BY LocalTokenGrows
<1>2. CASE UNCHANGED vars /\ busy'.token = local_token
  BY <1>1, <1>2
<1>3. CASE busy.handler = "acks" /\ busy'.token = busy.token
  <2>1. busy \in BusyAcks
    BY <1>3, BusyIs DEF DInv
  <2>2. busy.token \in Nat /\ busy.token <= local_token
    BY <1>3, <2>1 DEF BusyAcks, TokenCopied
  <2> QED BY <1>1, <1>3, <2>2
<1> QED BY <1>2, <1>3, BusyFrom

\* A step that adds nothing to the history, or an ack that is then marked.
LEMMA NoteForwarded ==
    ASSUME DInv, Forwarded, [DaemonNext]_all_vars, NEW sent, NEW acks, Note(sent, acks),
           \A x \in acks : /\ x[2] \in Nat /\ x[2] <= local_token
                           /\ Sent(x[1], x[2])' \/ Outdated(x[1], x[2])'
    PROVE  Forwarded'
<1> SUFFICES ASSUME NEW x \in forwarded_acks'
             PROVE  /\ x[2] <= local_token' /\ x[2] \in KnownIn(token_list')
                    /\ Sent(x[1], x[2])' \/ Outdated(x[1], x[2])'
  BY DEF Forwarded, Sent, Outdated, Known
<1>1. /\ TokensKept /\ x \in forwarded_acks \cup acks
      /\ x[2] \in KnownIn(token_list')
  BY DEF Note, KnownIn
<1>2. local_token \in Nat /\ local_token' \in Nat /\ local_token <= local_token'
  BY LocalTokenGrows
<1>3. CASE x \in acks
  BY <1>1, <1>2, <1>3
<1>4. CASE x \in forwarded_acks
  <2>1. /\ x[1] \in Messages /\ x[2] \in Nat /\ x[2] <= local_token
        /\ Sent(x[1], x[2]) \/ Outdated(x[1], x[2])
    BY <1>4 DEF DInv, Forwarded
  <2>2. PICK a \in Messages : a = x[1]
    BY <2>1
  <2>3. PICK t \in Nat : t = x[2]
    BY <2>1
  <2>4. Sent(a, t)' \/ Outdated(a, t)'
    BY <1>1, <2>1, <2>2, <2>3, ForwardedStays
  <2> QED BY <1>1, <1>2, <2>1, <2>2, <2>3, <2>4
<1> QED BY <1>1, <1>3, <1>4

\* What pcache_ack_for_token returns 1 for, in time, was not forwarded for the
\* token, and is marked or outdated then.
LEMMA CheckNextAckIsNew ==
    ASSUME DInv, FInv, CheckedAcksAreKnown, CheckNextAck(TRUE), InTime
    PROVE  /\ <<Head(busy.check), busy.token>> \notin forwarded_acks
           /\ Head(busy.check) \in DOMAIN ack_table
           /\ Head(busy.check) \in DOMAIN ack_table' =>
                 busy.token \in ReachedIn(ack_table', token_list', Head(busy.check))
<1> DEFINE a == Head(busy.check)
           t == busy.token
<1>1. /\ busy \in BusyAcks /\ busy.handler = "acks" /\ busy.save = <<>>
      /\ AckForToken(t, a, TRUE) /\ IInv
  BY BusyIs DEF DInv, CheckNextAck
<1>2. /\ a \in Messages /\ a = busy.check[1] /\ 1 \in DOMAIN busy.check
      /\ t \in AnyToken /\ t \in Nat
  BY <1>1, HeadOfCheck DEF BusyAcks, AnyToken
<1>3. a \in DOMAIN ack_table \/ InBloom("ack", a)
  BY <1>1, <1>2 DEF CheckedAcksAreKnown
<1> HIDE DEF a, t
<1>4. /\ a \in DOMAIN ack_table /\ ~ InBloom("ack", a)
      /\ t \notin ReachedIn(ack_table, token_list, a)
      /\ a \in DOMAIN ack_table' => t \in ReachedIn(ack_table', token_list', a)
  BY <1>1, <1>2, <1>3, AckForTokenIsNew
<1>5. ASSUME <<a, t>> \in forwarded_acks
      PROVE  FALSE
  <2>1. Sent(a, t) \/ Outdated(a, t)
    BY <1>5 DEF FInv, Forwarded
  <2>2. Known("ack", a, busy.began)
    BY <1>1, <1>4, <2>1 DEF Sent, Outdated, t
  <2>3. /\ rotations < busy.began + NUM_FILTERS /\ busy.began \in Nat /\ rotations \in Nat
        /\ NUM_FILTERS \in Nat
    BY <1>1, FilterAssumption DEF InTime, BusyAcks, IInv, Good, Filter
  <2> QED BY <1>4, <2>2, <2>3 DEF Known, InBloom
<1> QED BY <1>4, <1>5 DEF a, t

LEMMA NextForwarded ==
    ASSUME DInv, FInv, CheckedAcksAreKnown, [DaemonNext]_all_vars
    PROVE  Forwarded'
<1>1. ASSUME NEW sent, Note(sent, {})
      PROVE  Forwarded'
  BY <1>1, NoteForwarded DEF FInv
<1>2. ASSUME NEW new \in BOOLEAN, CheckNextAck(new)
      PROVE  Forwarded'
  <2> DEFINE a == Head(busy.check)
             t == busy.token
             acks == IF new /\ InTime THEN {<<a, t>>} ELSE {}
  <2>1. Note({}, acks) /\ busy \in BusyAcks /\ busy.handler = "acks"
    BY <1>2, BusyIs DEF CheckNextAck, DInv
  <2>2. t \in Nat /\ t <= local_token
    BY <2>1 DEF BusyAcks, FInv, TokenCopied
  <2>3. CASE ~ (new /\ InTime)
    BY <1>1, <2>1, <2>3
  <2>4. CASE new /\ InTime
    <3>1. /\ a \in DOMAIN ack_table
          /\ a \in DOMAIN ack_table' => t \in ReachedIn(ack_table', token_list', a)
      BY <1>2, <2>4, CheckNextAckIsNew
    <3>2. PICK b \in DOMAIN ack_table : b = a
      BY <3>1
    <3>3. PICK u \in Nat : u = t
      BY <2>2
    <3>4. Sent(b, u)' \/ Outdated(b, u)'
      BY <2>2, <3>1, <3>2, <3>3, SentOrOutdated
    <3>5. acks = {<<b, u>>}
      BY <2>4, <3>2, <3>3
    <3> HIDE DEF acks, a, t
    <3> DEFINE pair == <<b, u>>
    <3>6. /\ pair[1] = b /\ pair[2] = u /\ acks = {pair}
      BY <3>5
    <3> HIDE DEF pair
    <3>7. \A x \in acks : /\ x[2] \in Nat /\ x[2] <= local_token
                          /\ Sent(x[1], x[2])' \/ Outdated(x[1], x[2])'
      BY <2>2, <3>3, <3>4, <3>6
    <3> QED BY <2>1, <3>7, NoteForwarded DEF FInv
  <2> QED BY <2>3, <2>4
<1>3. CASE UNCHANGED <<ack_table, token_list, local_token, bloom, rotations, busy, forwarded_acks>>
  BY <1>3 DEF FInv, Forwarded, Sent, Outdated, Known
<1>4. ASSUME NEW acks \in AckBatches, NEW h \in Hops, ReceiveAcks(acks, h)
      PROVE  Forwarded'
  <2>1. /\ UNCHANGED <<ack_table, token_list, local_token, forwarded_acks>>
        /\ busy'.token = local_token
    BY <1>4 DEF ReceiveAcks, Acks, vars
  <2> SUFFICES ASSUME NEW x \in forwarded_acks
               PROVE  Sent(x[1], x[2])' \/ Outdated(x[1], x[2])'
    BY <2>1 DEF FInv, Forwarded, Sent, Outdated, Known
  <2>2. Sent(x[1], x[2]) \/ Outdated(x[1], x[2])
    BY DEF FInv, Forwarded
  <2>3. Sent(x[1], x[2]) => Sent(x[1], x[2])'
    BY <2>1 DEF Sent
  <2>4. ASSUME Outdated(x[1], x[2])
        PROVE  Outdated(x[1], x[2])'
    <3>1. x[2] < local_token /\ local_token \in Nat /\ x[2] \in Nat
      BY <2>4, LocalTokenGrows DEF Outdated, DInv
    <3>2. x[2] < local_token' /\ busy'.token # x[2]
      BY <2>1, <3>1
    <3> QED BY <3>2 DEF Outdated
  <2> QED BY <2>2, <2>3, <2>4
<1> QED
  BY <1>1, <1>2, <1>3, <1>4
     DEF DaemonNext, SaveNextAck, ReceiveKnown, LookUp, ReceiveNew, ReceiveRequest,
         AnswerRequest, SendAnswer, FinishRequest, ReceiveTrace, SaveTrace, Time,
         Expire, MinutePasses, filters, all_vars, vars

\* No ack is forwarded a second time for a token of ours that the token list has
\* held since the first time, although the token copied at the start of
\* process_acks may be replaced, and the ack evicted, by the gcs that saving the
\* acks and looking up the token may need (process_acks, pcache_ack_for_token,
\* token_to_send_to); while the filters have not rotated NUM_FILTERS times since
\* the packet came.
THEOREM AcksForwardedOnce == DaemonSpec => AckForwardedOncePerToken
<1>1. DaemonInit => FInv
  BY DEF DaemonInit, FInv, TokenCopied, Forwarded, Idle
<1>2. DInv /\ FInv /\ CheckedAcksAreKnown /\ [DaemonNext]_all_vars => FInv'
  BY NextTokenCopied, NextForwarded DEF FInv
<1>3. DInv /\ FInv /\ CheckedAcksAreKnown =>
         \A new \in BOOLEAN : CheckNextAck(new) /\ new /\ InTime =>
            <<Head(busy.check), busy.token>> \notin forwarded_acks
  BY CheckNextAckIsNew
<1> QED
  BY <1>1, <1>2, <1>3, DaemonSpecDInv, CheckedAcksKnown, PTL
     DEF DaemonSpec, AckForwardedOncePerToken

-----------------------------------------------------------------------------
(* A message that was forwarded is in one of the tables, or in the filter   *)
(* since it was forwarded or later.                                         *)

Recalled(m, k) ==
    \/ m \in DOMAIN message_table
    \/ m \in DOMAIN ack_table
    \/ m \in DOMAIN bloom["message"] /\ bloom["message"][m] >= k

AllRecalled ==
    \A m \in Messages : forwarded_at[m] # -1 => Recalled(m, forwarded_at[m])

\* a data request is about itself, not about several packets
OneKept == busy.handler \in {"request", "answer"} => \A x, y \in busy.keep : x = y

RInv == AllRecalled /\ OneKept

\* A packet that is saved or recorded is recalled.
LEMMA SavedIsRecalled ==
    ASSUME IInv, NEW m \in Messages, NEW p \in Priorities, SaveOrRecord(m, p)
    PROVE  \/ m \in DOMAIN message_table'
           \/ m \in DOMAIN bloom'["message"] /\ bloom'["message"][m] = rotations
<1>1. Filter(bloom, rotations) /\ "message" \in Filters
  BY DEF IInv, Good, Filters
<1>2. CASE AddToBloom("message", m)
  BY <1>1, <1>2, AddToBloomFilter
<1>3. ASSUME SavePacket(m, p)
      PROVE  AddToBloom("message", m) \/ m \in DOMAIN message_table'
  <2>1. IInv'
    BY <1>3, SavePacketStep
  <2>2. ~ Halt
    BY <2>1 DEF IInv, Halt
  <2>3. CASE Seen(m)
    BY <1>3, <2>3 DEF SavePacket, Seen, RefreshIfInBloom
  <2>4. ASSUME NEW table, message_table' = Put(table, m, NewMessage(p))
        PROVE  m \in DOMAIN message_table'
    <3>1. DOMAIN message_table' = DOMAIN table \cup {m}
      BY <2>4, PutDomain
    <3> QED BY <3>1
  <2> QED BY <1>3, <2>2, <2>3, <2>4 DEF SavePacket
<1> QED BY <1>2, <1>3 DEF SaveOrRecord, RecordPacket

\* What was recalled is recalled after the step, or forgotten for good reason.
LEMMA RecalledStays ==
    ASSUME IInv, IInv', Follows(bloom', rotations'), DropStep,
           NEW m \in Messages, NEW k \in 0 .. rotations, Recalled(m, k)
    PROVE  \/ Recalled(m, k)'
           \/ m \in LostForBig
           \/ rotations' >= k + NUM_FILTERS
<1>1. /\ rotations \in Nat /\ rotations' \in Nat /\ NUM_FILTERS \in Nat
      /\ k \in Nat /\ k <= rotations /\ "message" \in Filters
  BY FilterAssumption DEF IInv, Good, Filter, Filters
<1>2. ASSUME m \in DOMAIN bloom'["message"], NEW n \in Nat, n >= k,
             bloom'["message"][m] >= n
      PROVE  Recalled(m, k)'
  <2>1. bloom'["message"][m] \in Nat
    BY <1>1, <1>2 DEF IInv, Good, Filter, Stamped
  <2> QED BY <1>1, <1>2, <2>1 DEF Recalled
<1>3. CASE m \in DOMAIN message_table \/ m \in DOMAIN ack_table
  <2>1. \/ m \in DOMAIN message_table' \/ m \in DOMAIN ack_table'
        \/ m \in DOMAIN bloom'["message"] /\ bloom'["message"][m] >= rotations
        \/ m \in LostForBig
    BY <1>3 DEF DropStep, DropsAreRemembered
  <2> QED BY <1>1, <1>2, <2>1 DEF Recalled
<1>4. CASE m \in DOMAIN bloom["message"] /\ bloom["message"][m] >= k
  <2>1. bloom["message"][m] \in Nat
    BY <1>1, <1>4, FilterNumbers
  <2>2. CASE rotations' >= bloom["message"][m] + NUM_FILTERS
    BY <1>1, <1>4, <2>1, <2>2
  <2> QED BY <1>1, <1>2, <1>4, <2>1, <2>2 DEF Follows
<1> QED BY <1>3, <1>4 DEF Recalled

Stored(S) == \A m \in S : m \in Messages /\ \E p \in Priorities : SaveOrRecord(m, p)

\* The step that forwards the messages in S has stored them.
LEMMA ForwardRecalls ==
    ASSUME DInv, AllRecalled, [DaemonNext]_all_vars, NEW S, Forward(S), Stored(S)
    PROVE  AllRecalled'
<1> SUFFICES ASSUME NEW m \in Messages, forwarded_at'[m] # -1
             PROVE  Recalled(m, forwarded_at[m])'
  BY DEF AllRecalled, Recalled
<1>1. /\ IInv /\ IInv' /\ Follows(bloom', rotations') /\ DropStep
      /\ forwarded_at \in [Messages -> -1 .. rotations] /\ rotations \in Nat
  BY StepFacts DEF DInv
<1>2. CASE m \in S
  <2>1. forwarded_at'[m] = rotations
    BY <1>2 DEF Forward
  <2>2. PICK p \in Priorities : SaveOrRecord(m, p)
    BY <1>2 DEF Stored
  <2>3. PICK k \in Nat : k = rotations
    BY <1>1
  <2>4. \/ m \in DOMAIN message_table'
        \/ m \in DOMAIN bloom'["message"] /\ bloom'["message"][m] = k
    BY <1>1, <2>2, <2>3, SavedIsRecalled
  <2> QED BY <2>1, <2>3, <2>4 DEF Recalled
<1>3. CASE m \notin S
  <2>1. /\ forwarded_at'[m] = forwarded_at[m] /\ forwarded_at[m] # -1
        /\ m \notin LostForBig /\ ~ (rotations' >= forwarded_at[m] + NUM_FILTERS)
    BY <1>3 DEF Forward
  <2>2. PICK k \in 0 .. rotations : k = forwarded_at[m]
    BY <1>1, <2>1
  <2>3. Recalled(m, k)
    BY <2>1, <2>2 DEF AllRecalled
  <2>4. Recalled(m, k)'
    BY <1>1, <2>1, <2>2, <2>3, RecalledStays
  <2> QED BY <2>1, <2>2, <2>4 DEF Recalled
<1> QED BY <1>2, <1>3

LEMMA NextOneKept ==
    ASSUME DInv, OneKept, [DaemonNext]_all_vars
    PROVE  OneKept'
<1>1. BusyOK
  BY DEF DInv
<1>2. CASE UNCHANGED busy
  BY <1>2 DEF OneKept
<1>3. CASE busy'.handler \notin {"request", "answer"}
  BY <1>3 DEF OneKept
<1>4. ASSUME NEW m, NEW is_local, ReceiveRequest(m, is_local)
      PROVE  OneKept'
  BY <1>4 DEF ReceiveRequest, Asking, OneKept
<1>5. ASSUME NEW t, NEW matching, NEW results, AnswerRequest(t, matching, results)
      PROVE  OneKept'
  BY <1>5 DEF AnswerRequest, Answers, OneKept
<1>6. ASSUME NEW m, SendAnswer(m)
      PROVE  OneKept'
  <2>1. /\ busy \in BusyAnswer /\ busy.handler = "answer"
        /\ busy' = [busy EXCEPT !.send = busy.send \ {m}]
    BY <1>1, <1>6, BusyIs DEF SendAnswer
  <2>2. busy'.keep = busy.keep
    BY <2>1 DEF BusyAnswer
  <2> QED BY <2>1, <2>2 DEF OneKept
<1>7. CASE SaveNextAck
  <2>1. busy'.handler = "acks"
    BY <1>1, <1>7, BusyIs DEF SaveNextAck, BusyAcks
  <2> QED BY <1>3, <2>1
<1>8. ASSUME NEW new, CheckNextAck(new)
      PROVE  OneKept'
  <2>1. busy'.handler \in {"acks", "none"}
    BY <1>1, <1>8, BusyIs DEF CheckNextAck, BusyAcks, Idle
  <2> QED BY <1>3, <2>1
<1>9. ASSUME NEW m, NEW p, SaveTrace(m, p)
      PROVE  OneKept'
  <2>1. busy'.handler \in {"trace", "none"}
    BY <1>1, <1>9, BusyIs DEF SaveTrace, BusyTrace, Idle
  <2> QED BY <1>3, <2>1
<1>10. \/ \E acks \in AckBatches, h \in Hops : ReceiveAcks(acks, h)
       \/ \E n \in Messages, p \in Priorities : FinishRequest(n, p)
       \/ \E packets \in 0 .. 2 : ReceiveTrace(packets)
       => busy'.handler \notin {"request", "answer"}
  BY DEF ReceiveAcks, Acks, FinishRequest, ReceiveTrace, Tracing, Idle
<1> QED
  BY <1>2, <1>3, <1>4, <1>5, <1>6, <1>7, <1>8, <1>9, <1>10
     DEF DaemonNext, ReceiveKnown, ReceiveNew, Time, all_vars

LEMMA NextRInv ==
    ASSUME DInv, RInv, [DaemonNext]_all_vars
    PROVE  RInv'
<1>1. AllRecalled /\ OneKept
  BY DEF RInv
<1>2. ASSUME Forward({})
      PROVE  AllRecalled'
  <2>1. Stored({})
    BY DEF Stored
  <2> QED BY <1>1, <1>2, <2>1, ForwardRecalls
<1>3. ASSUME UNCHANGED <<message_table, ack_table, bloom, forwarded_at>>
      PROVE  AllRecalled'
  BY <1>1, <1>3 DEF AllRecalled, Recalled
<1>4. ASSUME NEW m \in Messages, NEW p \in Priorities, NEW is_local, ReceiveNew(m, p, is_local)
      PROVE  AllRecalled'
  <2>1. SaveOrRecord(m, p) /\ (Forward({}) \/ Forward({m}))
    BY <1>4 DEF ReceiveNew
  <2>2. Stored({}) /\ Stored({m})
    BY <2>1 DEF Stored
  <2> QED BY <1>1, <2>1, <2>2, ForwardRecalls
<1>5. ASSUME NEW n \in Messages, NEW p \in Priorities, FinishRequest(n, p)
      PROVE  AllRecalled'
  <2> DEFINE S == IF busy.is_local THEN {} ELSE busy.keep \cap ACK_REQ
  <2>0. Forward(S)
    BY <1>5 DEF FinishRequest
  <2>1. /\ busy.handler = "answer"
        /\ busy.keep # {} => \E m \in busy.keep : /\ n = m \/ {m, n} \cap ACK_REQ = {}
                                                  /\ SaveOrRecord(n, p)
    BY <1>5 DEF FinishRequest
  <2>2. ASSUME NEW x \in S
        PROVE  x \in Messages /\ \E q \in Priorities : SaveOrRecord(x, q)
    <3>1. x \in busy.keep /\ x \in ACK_REQ /\ x \in Messages
      BY DaemonAssumption
    <3>2. PICK m \in busy.keep : (n = m \/ {m, n} \cap ACK_REQ = {}) /\ SaveOrRecord(n, p)
      BY <2>1, <3>1
    <3>3. m = x
      BY <1>1, <2>1, <3>1 DEF OneKept
    <3>4. n = x
      BY <3>1, <3>2, <3>3
    <3> QED BY <3>1, <3>2, <3>4
  <2> HIDE DEF S
  <2>3. Stored(S)
    BY <2>2 DEF Stored
  <2> QED BY <1>1, <2>0, <2>3, ForwardRecalls
<1>6. AllRecalled'
  BY <1>2, <1>3, <1>4, <1>5
     DEF DaemonNext, ReceiveAcks, SaveNextAck, CheckNextAck, ReceiveKnown, LookUp,
         ReceiveRequest, AnswerRequest, SendAnswer, ReceiveTrace, SaveTrace, Time,
         Expire, MinutePasses, filters, all_vars, vars
<1> QED BY <1>1, <1>6, NextOneKept DEF RInv

\* A message or data request from outside that was forwarded is not handled
\* again before the filters have rotated NUM_FILTERS times since then, whatever
\* was received, acked and collected in between; except a message that was lost
\* with its entry to let in one of half an entry or more (process_message,
\* pcache_save_packet, pcache_record_packet, gc_messages_entry, pid_advance_bloom).
THEOREM SeenDropped == DaemonSpec => SeenIsDropped
<1>1. DaemonInit => RInv
  BY DEF DaemonInit, RInv, AllRecalled, OneKept, Idle
<1>2. DInv /\ RInv /\ [DaemonNext]_all_vars => RInv'
  BY NextRInv
<1>3. RInv =>
         \A m \in Messages :
            forwarded_at[m] # -1 =>
                /\ \A p \in Priorities : ~ ReceiveNew(m, p, FALSE)
                /\ ~ ReceiveRequest(m, FALSE)
  BY DEF RInv, AllRecalled, Recalled, ReceiveNew, ReceiveRequest, Acked, Seen, InBloom
<1> QED
  BY <1>1, <1>2, <1>3, DaemonSpecDInv, PTL DEF DaemonSpec, SeenIsDropped
=============================================================================
