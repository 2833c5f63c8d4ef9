-------------------------- MODULE PCacheMarkProofs --------------------------
(***************************************************************************)
(* Every bit of a sent_to_tokens bitmap names a token of the list:         *)
(* gc_tokens drops tokens from the front of the list and shift_token moves *)
(* every bitmap by the same amount, on a host that stores a uint64_t like  *)
(* readb64 reads it.  On the others it holds until a garbage collection    *)
(* drops tokens (the run pcache_tokens_little shows what happens then): the *)
(* hypothesis of the theorems is that each step has TokensKept.            *)
(***************************************************************************)
EXTENDS PCacheProofs

\* The bits in the bitmaps of a table are below n.
MarksBelow(table, n) ==
    \A x \in DOMAIN table : table[x].sent_to_tokens \subseteq 0 .. n - 1

Named(messages, acks, tokens) ==
    MarksBelow(messages, Len(tokens)) /\ MarksBelow(acks, Len(tokens))

MInv == IInv /\ Named(message_table, ack_table, token_list)

KeptBy(list) ==
    \/ BIG_ENDIAN_HOST
    \/ \A i \in DOMAIN token_list : i \in DOMAIN list /\ list[i] = token_list[i]

Aligned == BIG_ENDIAN_HOST \/ TokenShift = 0

\* A gc that drops tokens of a full list leaves another first token.
LEMMA KeptByAligned ==
    ASSUME TokenList(token_list), NEW list, KeptBy(list),
           \A i \in 1 .. Len(token_list) - TokenShift : list[i] = token_list[i + TokenShift]
    PROVE  Aligned
<1> DEFINE k == Len(token_list)
           n == TokenShift
<1> SUFFICES ASSUME ~ BIG_ENDIAN_HOST, n # 0 PROVE FALSE
  BY DEF Aligned
<1>1. /\ k \in Nat /\ DOMAIN token_list = 1 .. k /\ k <= MAX_TOKENS
      /\ MAX_TOKENS \in Nat \ {0} /\ MAX_TOKENS % 4 = 0 /\ n \in 0 .. k
      /\ \A i, j \in DOMAIN token_list : token_list[i] = token_list[j] => i = j
  BY LenProperties, TokenAssumption, TokenShiftBound DEF TokenList
<1>2. n = k - (3 * MAX_TOKENS) \div 4 /\ ~ k < MAX_TOKENS
  BY DEF TokenShift
<1>3. /\ list[1] = token_list[1] \/ ~ (1 \in DOMAIN token_list)
      /\ \A i \in 1 .. k - n : list[i] = token_list[i + n]
  BY DEF KeptBy
<1> HIDE DEF k, n
<1>4. 1 \in 1 .. k - n /\ 1 \in 1 .. k /\ 1 + n \in 1 .. k
  BY <1>1, <1>2
<1>5. token_list[1] = token_list[1 + n]
  BY <1>1, <1>3, <1>4
<1>6. 1 = 1 + n
  BY <1>1, <1>4, <1>5
<1> QED BY <1>1, <1>6 DEF n

\* More tokens in the list: the old bits still name tokens.
LEMMA MarksBelowMore ==
    ASSUME NEW table, NEW n \in Nat, NEW k \in Nat, n <= k, MarksBelow(table, n)
    PROVE  MarksBelow(table, k)
BY DEF MarksBelow

\* shift_token on a big-endian host is a shift of the bits by n; a shift by
\* nothing changes nothing on any host.
LEMMA ShiftTokenBelow ==
    ASSUME NEW bitmap \in SUBSET Bits, NEW k \in Nat,
           bitmap \subseteq 0 .. k - 1, NEW n \in 0 .. k, BIG_ENDIAN_HOST \/ n = 0
    PROVE  ShiftToken(bitmap, n) \subseteq 0 .. k - n - 1
<1>1. MAX_TOKENS \in Nat
  BY TokenAssumption
<1>2. CASE n = 0
  BY <1>2 DEF ShiftToken
<1>3. CASE n > 0
  <2> SUFFICES ASSUME NEW bit \in ShiftToken(bitmap, n)
               PROVE  bit \in 0 .. k - n - 1
    OBVIOUS
  <2>1. bit \in Bits /\ \E old \in bitmap : bit = old - n
    BY <1>3 DEF ShiftToken, BigEndianPosition
  <2> QED BY <1>1, <2>1 DEF Bits
<1> QED BY <1>2, <1>3

LEMMA GcTokensAre ==
    ASSUME TokenList(token_list), NEW e, NEW n \in Nat, NEW gc \in GcResults(e, n)
    PROVE  /\ gc.tokens \in Seq(AnyToken)
           /\ Len(gc.tokens) = Len(token_list) - TokenShift
           /\ DOMAIN gc.tokens = 1 .. Len(token_list) - TokenShift
           /\ \A i \in 1 .. Len(token_list) - TokenShift : gc.tokens[i] = token_list[i + TokenShift]
<1>0. Leaves(gc)
  BY GcTables
<1>1. gc.tokens = SubSeq(token_list, TokenShift + 1, Len(token_list))
  BY <1>0 DEF Leaves
<1>2. TokenShift \in 0 .. Len(token_list) /\ token_list \in Seq(AnyToken)
  BY TokenShiftBound DEF TokenList
<1> QED BY <1>1, <1>2, SuffixProperties

LEMMA KeptByGc ==
    ASSUME TokenList(token_list), NEW e, NEW n \in Nat, NEW gc \in GcResults(e, n), KeptBy(gc.tokens)
    PROVE  Aligned
BY GcTokensAre, KeptByAligned

LEMMA KeptByAppended ==
    ASSUME TokenList(token_list), NEW e, NEW n \in Nat, NEW gc \in GcResults(e, n),
           NEW t \in AnyToken, KeptBy(Append(gc.tokens, t))
    PROVE  Aligned
<1>1. \A i \in DOMAIN gc.tokens : Append(gc.tokens, t)[i] = gc.tokens[i]
  BY GcTokensAre
<1> QED BY <1>1, GcTokensAre, KeptByAligned

\* do_gc shifts the token list and the bitmaps alike.
LEMMA GcNamed ==
    ASSUME Aligned, MInv, NEW e, NEW n \in Nat, NEW gc \in GcResults(e, n)
    PROVE  Named(gc.messages, gc.acks, gc.tokens)
<1> DEFINE k == Len(token_list)
           shift == TokenShift
<1> DEFINE KM == DOMAIN gc.messages
           KA == DOMAIN gc.acks
<1>1. Leaves(gc)
  BY GcTables
<1>2. /\ gc.messages = [m \in KM |-> Shifted(message_table[m])]
      /\ gc.acks = [a \in KA |-> Shifted(ack_table[a])]
      /\ gc.tokens = SubSeq(token_list, TokenShift + 1, Len(token_list))
  BY <1>1 DEF Leaves
<1>3. KM \subseteq DOMAIN message_table /\ KA \subseteq DOMAIN ack_table
  BY <1>1 DEF Leaves
<1>4. TokenList(token_list) /\ MessageTable(message_table) /\ AckTable(ack_table)
  BY DEF MInv, IInv, Good
<1>5. k \in Nat /\ shift \in 0 .. k
  BY <1>4, LenProperties, TokenShiftBound DEF TokenList
<1>6. Len(gc.tokens) = k - shift
  BY <1>2, <1>4, GcTokens
<1>0. BIG_ENDIAN_HOST \/ shift = 0
  BY DEF Aligned
<1>7. ASSUME NEW entry, NEW bitmap \in SUBSET Bits, bitmap \subseteq 0 .. k - 1,
             entry = ShiftToken(bitmap, shift)
      PROVE  entry \subseteq 0 .. Len(gc.tokens) - 1
  <2> HIDE DEF k, shift
  <2> QED BY <1>0, <1>5, <1>6, <1>7, ShiftTokenBelow
<1>8. ASSUME NEW m \in KM
      PROVE  gc.messages[m].sent_to_tokens \subseteq 0 .. Len(gc.tokens) - 1
  <2>1. /\ message_table[m] \in [priority : Priorities, sent_to_tokens : SUBSET Bits]
        /\ message_table[m].sent_to_tokens \subseteq 0 .. k - 1
    BY <1>3, <1>4 DEF MInv, Named, MarksBelow, MessageTable
  <2>2. gc.messages[m].sent_to_tokens = ShiftToken(message_table[m].sent_to_tokens, shift)
    BY <1>2, <2>1 DEF Shifted
  <2> HIDE DEF k, shift
  <2> QED BY <1>7, <2>1, <2>2
<1>9. ASSUME NEW a \in KA
      PROVE  gc.acks[a].sent_to_tokens \subseteq 0 .. Len(gc.tokens) - 1
  <2>1. /\ ack_table[a] \in [max_hops : Hops, sent_to_tokens : SUBSET Bits]
        /\ ack_table[a].sent_to_tokens \subseteq 0 .. k - 1
    BY <1>3, <1>4 DEF MInv, Named, MarksBelow, AckTable
  <2>2. gc.acks[a].sent_to_tokens = ShiftToken(ack_table[a].sent_to_tokens, shift)
    BY <1>2, <2>1 DEF Shifted
  <2> HIDE DEF k, shift
  <2> QED BY <1>7, <2>1, <2>2
<1>10. DOMAIN gc.messages = KM /\ DOMAIN gc.acks = KA
  BY <1>2
<1> QED BY <1>8, <1>9, <1>10 DEF Named, MarksBelow

\* token_to_send_to keeps the bits below the length of the list it leaves,
\* and so is the index that it returns.
LEMMA TokenToSendToNamed ==
    ASSUME MInv, NEW t \in AnyToken, NEW bitmap,
           NEW r \in TokenToSendTo(t, bitmap), KeptBy(r.now.tokens)
    PROVE  /\ Named(r.now.messages, r.now.acks, r.now.tokens)
           /\ r.index \in 0 .. Len(r.now.tokens) - 1 \cup {-1}
<1>1. /\ Named(message_table, ack_table, token_list)
      /\ token_list \in Seq(AnyToken) /\ TokenList(token_list)
      /\ Len(token_list) \in Nat
  BY LenProperties DEF MInv, IInv, Good, TokenList
<1>2. ASSUME NEW messages, NEW acks, NEW tokens \in Seq(AnyToken),
             Named(messages, acks, tokens),
             r.now.messages = messages, r.now.acks = acks,
             r.now.tokens = Append(tokens, t), r.index = Len(tokens)
      PROVE  /\ Named(r.now.messages, r.now.acks, r.now.tokens)
             /\ r.index \in 0 .. Len(r.now.tokens) - 1
  <2> DEFINE n == Len(tokens)
  <2>1. n \in Nat /\ Len(Append(tokens, t)) = n + 1
    BY LenProperties
  <2> HIDE DEF n
  <2>2. MarksBelow(messages, n) /\ MarksBelow(acks, n)
    BY <1>2 DEF Named, n
  <2>3. MarksBelow(messages, n + 1) /\ MarksBelow(acks, n + 1)
    BY <2>1, <2>2, MarksBelowMore
  <2>4. n \in 0 .. (n + 1) - 1
    BY <2>1
  <2> QED BY <1>2, <2>1, <2>3, <2>4 DEF Named, n
<1>3. CASE Listed(t)
  <2>1. r.now = Tables /\ r.index \in {-1, IndexOf(t)}
    BY <1>3 DEF TokenToSendTo
  <2>2. /\ r.now.messages = message_table /\ r.now.acks = ack_table
        /\ r.now.tokens = token_list
    BY <2>1 DEF Tables
  <2>3. IndexOf(t) \in 0 .. Len(token_list) - 1
    <3>1. (CHOOSE i \in DOMAIN token_list : token_list[i] = t) \in DOMAIN token_list
      BY <1>3 DEF Listed
    <3>2. DOMAIN token_list = 1 .. Len(token_list)
      BY <1>1, LenProperties
    <3> QED BY <1>1, <3>1, <3>2 DEF IndexOf
  <2> QED BY <1>1, <2>1, <2>2, <2>3
<1>4. CASE ~ Listed(t) /\ Len(token_list) < MAX_TOKENS
  <2>1. /\ r.now.messages = message_table /\ r.now.acks = ack_table
        /\ r.now.tokens = Append(token_list, t) /\ r.index = Len(token_list)
    BY <1>4 DEF TokenToSendTo, Tables
  <2> QED BY <1>1, <1>2, <2>1
<1>5. CASE ~ Listed(t) /\ ~ Len(token_list) < MAX_TOKENS /\ gc_recent
  <2>1. r.now = Tables /\ r.index = -1
    BY <1>5 DEF TokenToSendTo
  <2>2. /\ r.now.messages = message_table /\ r.now.acks = ack_table
        /\ r.now.tokens = token_list
    BY <2>1 DEF Tables
  <2> QED BY <1>1, <2>1, <2>2
<1>6. CASE ~ Listed(t) /\ ~ Len(token_list) < MAX_TOKENS /\ ~ gc_recent
  <2>1. PICK g \in GcResults(NoEntry, 0) :
           r = [now |-> [g EXCEPT !.tokens = Append(@, t)], gc |-> TRUE,
                index |-> Len(g.tokens)]
    BY <1>6 DEF TokenToSendTo
  <2>2. /\ g = [messages |-> g.messages, acks |-> g.acks, tokens |-> g.tokens,
                bloom |-> g.bloom, rotations |-> g.rotations]
        /\ g.tokens \in Seq(AnyToken)
    BY GcGood DEF MInv, Good, TokenList
  <2>3. /\ r.now.messages = g.messages /\ r.now.acks = g.acks
        /\ r.now.tokens = Append(g.tokens, t) /\ r.index = Len(g.tokens)
    BY <2>1, <2>2
  <2>40. Aligned
    BY <2>3, KeptByAppended DEF MInv, IInv, Good
  <2>4. Named(g.messages, g.acks, g.tokens)
    BY <2>40, GcNamed
  <2> QED BY <1>2, <2>2, <2>3, <2>4
<1> QED BY <1>3, <1>4, <1>5, <1>6

LEMMA MarkInBelow ==
    ASSUME NEW table, MessageTable(table) \/ AckTable(table), NEW x, NEW n,
           MarksBelow(table, n), NEW index \in 0 .. n - 1
    PROVE  MarksBelow(MarkIn(table, x, index), n)
<1> SUFFICES ASSUME NEW y \in DOMAIN table
             PROVE  MarkIn(table, x, index)[y].sent_to_tokens \subseteq 0 .. n - 1
  BY DEF MarksBelow, MarkIn
<1>1. table[y].sent_to_tokens \subseteq 0 .. n - 1
  BY DEF MarksBelow
<1>2. CASE y = x
  <2>1. MarkIn(table, x, index)[y] = [table[y] EXCEPT !.sent_to_tokens = @ \cup {index}]
    BY <1>2 DEF MarkIn
  <2>2. "sent_to_tokens" \in DOMAIN table[y]
    BY DEF MessageTable, AckTable
  <2>3. MarkIn(table, x, index)[y].sent_to_tokens = table[y].sent_to_tokens \cup {index}
    BY <2>1, <2>2
  <2> QED BY <1>1, <2>3
<1>3. CASE y # x
  <2>1. MarkIn(table, x, index)[y] = table[y]
    BY <1>3 DEF MarkIn
  <2> QED BY <1>1, <2>1
<1> QED BY <1>2, <1>3

LEMMA InstallKept ==
    ASSUME NEW r, NEW messages, NEW acks, Install(r, messages, acks), TokensKept
    PROVE  KeptBy(r.now.tokens)
BY DEF Install, TokensKept, KeptBy

LEMMA InstallNamed ==
    ASSUME NEW r, NEW messages, NEW acks, Install(r, messages, acks),
           Named(messages, acks, r.now.tokens)
    PROVE  Named(message_table, ack_table, token_list)'
BY DEF Install

-----------------------------------------------------------------------------
(* The operations.                                                         *)

LEMMA PutUnmarked ==
    ASSUME NEW table, NEW x, NEW v, v.sent_to_tokens = {}, NEW n, MarksBelow(table, n)
    PROVE  MarksBelow(Put(table, x, v), n)
BY DEF MarksBelow, Put

LEMMA SavePacketNamed ==
    ASSUME TokensKept, MInv, NEW m \in Messages, NEW priority \in Priorities,
           SavePacket(m, priority)
    PROVE  Named(message_table, ack_table, token_list)'
<1>1. Named(message_table, ack_table, token_list)
  BY DEF MInv
<1>2. NewMessage(priority).sent_to_tokens = {}
  BY DEF NewMessage
<1>3. CASE UNCHANGED <<message_table, ack_table, token_list>>
  BY <1>1, <1>3
<1>4. CASE /\ message_table' = Put(message_table, m, NewMessage(priority))
           /\ UNCHANGED <<ack_table, token_list>>
  BY <1>1, <1>2, <1>4, PutUnmarked DEF Named
<1>5. ASSUME NEW gc \in GcResults(EntryOf[m], Size[m]),
             message_table' = Put(gc.messages, m, NewMessage(priority)),
             ack_table' = gc.acks, token_list' = gc.tokens
      PROVE  Named(message_table, ack_table, token_list)'
  <2>1. Size[m] \in Nat
    BY TableAssumption
  <2>2. Aligned
    BY <1>5, <2>1, KeptByGc DEF TokensKept, KeptBy, MInv, IInv, Good
  <2>3. Named(gc.messages, gc.acks, gc.tokens)
    BY <2>1, <2>2, GcNamed
  <2> QED BY <1>2, <1>5, <2>3, PutUnmarked DEF Named
<1> QED BY <1>3, <1>4, <1>5 DEF SavePacket, Halt

LEMMA SaveAckNamed ==
    ASSUME TokensKept, MInv, NEW a \in Messages, NEW hops \in Hops, SaveAck(a, hops)
    PROVE  Named(message_table, ack_table, token_list)'
<1>1. Named(message_table, ack_table, token_list)
  BY DEF MInv
<1>2. CASE UNCHANGED <<message_table, ack_table, token_list>>
  BY <1>1, <1>2
<1>3. CASE /\ a \in DOMAIN ack_table
           /\ ack_table' = [ack_table EXCEPT ![a].max_hops = IF @ < hops THEN hops ELSE @]
           /\ UNCHANGED <<message_table, token_list>>
  <2>1. ASSUME NEW x \in DOMAIN ack_table
        PROVE  ack_table'[x].sent_to_tokens = ack_table[x].sent_to_tokens
    <3>1. ack_table[x] \in [max_hops : Hops, sent_to_tokens : SUBSET Bits]
      BY DEF MInv, IInv, Good, AckTable
    <3> QED BY <1>3, <3>1
  <2>2. DOMAIN ack_table' = DOMAIN ack_table
    BY <1>3
  <2> QED BY <1>1, <1>3, <2>1, <2>2 DEF Named, MarksBelow
<1>4. ASSUME NEW messages, NEW acks, NEW tokens, Named(messages, acks, tokens),
             message_table' = Keep(messages, Messages \ {a}),
             ack_table' = Put(acks, a, NewAck(hops)),
             token_list' = tokens
      PROVE  Named(message_table, ack_table, token_list)'
  <2>1. NewAck(hops).sent_to_tokens = {}
    BY DEF NewAck
  <2>2. MarksBelow(ack_table', Len(tokens))
    BY <1>4, <2>1, PutUnmarked DEF Named
  <2>3. MarksBelow(message_table', Len(tokens))
    BY <1>4 DEF Named, MarksBelow, Keep
  <2> QED BY <1>4, <2>2, <2>3 DEF Named
<1>5. ASSUME NEW gc \in GcResults(NoEntry, 0),
             message_table' = Keep(gc.messages, Messages \ {a}),
             ack_table' = Put(gc.acks, a, NewAck(hops)),
             token_list' = gc.tokens
      PROVE  Named(message_table, ack_table, token_list)'
  <2>0. Aligned
    BY <1>5, KeptByGc DEF TokensKept, KeptBy, MInv, IInv, Good
  <2>1. Named(gc.messages, gc.acks, gc.tokens)
    BY <2>0, GcNamed
  <2> QED BY <1>4, <1>5, <2>1
<1> QED BY <1>1, <1>2, <1>3, <1>4, <1>5 DEF SaveAck, Halt

LEMMA AckForTokenNamed ==
    ASSUME TokensKept, MInv, NEW t \in AnyToken, NEW a \in Messages,
           NEW new \in BOOLEAN, AckForToken(t, a, new)
    PROVE  Named(message_table, ack_table, token_list)'
<1>1. CASE UNCHANGED <<message_table, ack_table, token_list>>
  BY <1>1 DEF MInv
<1>2. ASSUME NEW bitmap, NEW r \in TokenToSendTo(t, bitmap),
             new = (r.index # -1),
             Install(r, r.now.messages,
                     IF new THEN MarkIn(r.now.acks, a, r.index) ELSE r.now.acks)
      PROVE  Named(message_table, ack_table, token_list)'
  <2> DEFINE acks == IF new THEN MarkIn(r.now.acks, a, r.index) ELSE r.now.acks
             n == Len(r.now.tokens)
  <2>0. KeptBy(r.now.tokens)
    BY <1>2, InstallKept
  <2>1. /\ Named(r.now.messages, r.now.acks, r.now.tokens)
        /\ r.index \in 0 .. n - 1 \cup {-1}
    BY <2>0, TokenToSendToNamed
  <2>2. AckTable(r.now.acks)
    BY TokenToSendToGood DEF MInv, Good
  <2>3. MarksBelow(acks, n)
    <3>1. MarksBelow(r.now.acks, n)
      BY <2>1 DEF Named
    <3>2. CASE new
      <4>1. r.index \in 0 .. n - 1
        BY <1>2, <2>1, <3>2
      <4> HIDE DEF n
      <4> QED BY <2>2, <3>1, <3>2, <4>1, MarkInBelow
    <3>3. CASE ~ new
      BY <3>1, <3>3
    <3> QED BY <3>2, <3>3
  <2>4. Named(r.now.messages, acks, r.now.tokens)
    BY <2>1, <2>3 DEF Named
  <2>5. Install(r, r.now.messages, acks)
    BY <1>2
  <2> HIDE DEF acks
  <2> QED BY <2>4, <2>5, InstallNamed
<1> QED BY <1>1, <1>2 DEF AckForToken

LEMMA MarkTokenSentNamed ==
    ASSUME TokensKept, MInv, NEW t \in AnyToken, NEW m \in Messages,
           MarkTokenSent(t, m)
    PROVE  Named(message_table, ack_table, token_list)'
<1>1. PICK r \in TokenToSendTo(t, {}) :
         Install(r, IF r.index = -1 THEN r.now.messages ELSE MarkIn(r.now.messages, m, r.index),
                 r.now.acks)
  BY DEF MarkTokenSent
<1> DEFINE messages == IF r.index = -1 THEN r.now.messages
                       ELSE MarkIn(r.now.messages, m, r.index)
           n == Len(r.now.tokens)
<1>0. KeptBy(r.now.tokens)
  BY <1>1, InstallKept
<1>2. /\ Named(r.now.messages, r.now.acks, r.now.tokens)
      /\ r.index \in 0 .. n - 1 \cup {-1}
  BY <1>0, TokenToSendToNamed
<1>3. MessageTable(r.now.messages)
  BY TokenToSendToGood DEF MInv, Good
<1>4. MarksBelow(messages, n)
  <2>1. MarksBelow(r.now.messages, n)
    BY <1>2 DEF Named
  <2>2. CASE r.index = -1
    BY <2>1, <2>2
  <2>3. CASE r.index # -1
    <3>1. r.index \in 0 .. n - 1
      BY <1>2, <2>3
    <3> HIDE DEF n
    <3> QED BY <1>3, <2>1, <2>3, <3>1, MarkInBelow
  <2> QED BY <2>2, <2>3
<1>5. Named(messages, r.now.acks, r.now.tokens)
  BY <1>2, <1>4 DEF Named
<1>6. Install(r, messages, r.now.acks)
  BY <1>1
<1> HIDE DEF messages
<1> QED BY <1>5, <1>6, InstallNamed

LEMMA RequestNamed ==
    ASSUME TokensKept, MInv, NEW t \in AnyToken, NEW matching, NEW max,
           NEW results, Request(t, matching, max, results)
    PROVE  Named(message_table, ack_table, token_list)'
<1>1. CASE UNCHANGED vars
  BY <1>1 DEF vars, MInv
<1>2. ASSUME NEW bitmap, NEW r \in TokenToSendTo(t, bitmap),
             Install(r, r.now.messages, r.now.acks)
      PROVE  Named(message_table, ack_table, token_list)'
  BY <1>2, InstallKept, TokenToSendToNamed, InstallNamed
<1> QED BY <1>1, <1>2 DEF Request

-----------------------------------------------------------------------------

LEMMA UnchangedKept == UNCHANGED vars => TokensKept
BY DEF vars, TokensKept

LEMMA InitMInv == Init => MInv
BY InitIInv DEF Init, MInv, Named, MarksBelow

LEMMA NextMInv ==
    MInv /\ [Next]_vars /\ [TokensKept]_vars => MInv'
<1> SUFFICES ASSUME MInv, [Next]_vars, TokensKept
             PROVE  Named(message_table, ack_table, token_list)'
  <2>1. UNCHANGED vars => TokensKept
    BY DEF vars, TokensKept
  <2> QED BY <2>1, NextIInv DEF MInv
<1>1. Tokens \subseteq AnyToken /\ local_token \in AnyToken
  BY DEF AnyToken, MInv, IInv
<1>2. CASE \E m \in Messages, p \in Priorities : SavePacket(m, p)
  BY <1>2, SavePacketNamed
<1>3. CASE \E a \in Messages, h \in Hops : SaveAck(a, h)
  BY <1>3, SaveAckNamed
<1>4. CASE \E t \in Tokens \cup {local_token}, a \in Messages, new \in BOOLEAN :
              AckForToken(t, a, new)
  BY <1>1, <1>4, AckForTokenNamed
<1>5. CASE \E t \in Tokens, m \in Messages : MarkTokenSent(t, m)
  BY <1>1, <1>5, MarkTokenSentNamed
<1>6. CASE \E t \in Tokens, results \in SUBSET (Messages \cup {Garbled}) :
              Request(t, Messages, 0, results)
  BY <1>1, <1>6, RequestNamed
<1>7. CASE UNCHANGED <<message_table, ack_table, token_list>>
  BY <1>7 DEF MInv
<1> QED
  BY <1>2, <1>3, <1>4, <1>5, <1>6, <1>7
     DEF Next, RecordPacket, RecordTrace, Expire, MinutePasses, vars

\* While the bits name the tokens they named before each step, no bitmap has a
\* bit for a token that is not listed: a token that is added later starts with
\* nothing marked as sent to it (token_to_send_to, gc_tokens, shift_token).
THEOREM MarksListed ==
    Spec /\ [][TokensKept]_vars => []MarksNameListedTokens
<1>1. MInv => MarksNameListedTokens
  BY DEF MInv, Named, MarksBelow, MarksNameListedTokens
<1>2. MInv /\ [Next]_vars /\ [TokensKept]_vars => MInv'
  BY NextMInv
<1> QED BY <1>1, <1>2, InitMInv, PTL DEF Spec

-----------------------------------------------------------------------------
(* The refinement of SentMemory: a step keeps the marks of the items that   *)
(* stay for the tokens that stay, and sets at most one new mark.            *)

ReachedIn(table, list, x) ==
    IF x \in DOMAIN table
    THEN {list[i] : i \in {j \in DOMAIN list : j - 1 \in table[x].sent_to_tokens}}
    ELSE {}
KnownIn(list) == {list[i] : i \in DOMAIN list}

\* What of the marks of x in table is due in table2.
Due(table, list, table2, list2, x) ==
    IF x \in DOMAIN table \cap DOMAIN table2
    THEN ReachedIn(table, list, x) \cap KnownIn(list2)
    ELSE {}

Carried(table, list, table2, list2) ==
    \A x \in Messages : ReachedIn(table2, list2, x) = Due(table, list, table2, list2, x)

Marked(table, list, table2, list2, m, t) ==
    \A x \in Messages :
        ReachedIn(table2, list2, x) =
            Due(table, list, table2, list2, x) \cup (IF x = m THEN {t} ELSE {})

MarksKept(table, list, table2, list2) ==
    \/ Carried(table, list, table2, list2)
    \/ \E m \in DOMAIN table2, t \in KnownIn(list2) : Marked(table, list, table2, list2, m, t)

\* The bits of a bitmap that shift_token moves are those of the tokens left.
LEMMA ShiftTokenExact ==
    ASSUME NEW bitmap \in SUBSET Bits, NEW n \in Nat, NEW bit \in Bits,
           BIG_ENDIAN_HOST \/ n = 0
    PROVE  bit \in ShiftToken(bitmap, n) <=> bit + n \in bitmap
<1>1. MAX_TOKENS \in Nat
  BY TokenAssumption
<1>2. CASE n = 0
  BY <1>1, <1>2 DEF ShiftToken, Bits
<1>3. CASE n > 0
  <2>1. bit \in ShiftToken(bitmap, n) <=> \E old \in bitmap : bit = old - n
    BY <1>3 DEF ShiftToken, BigEndianPosition
  <2>2. \A old \in bitmap : old \in Int
    BY DEF Bits
  <2>3. bit \in Int
    BY DEF Bits
  <2>4. \A old \in bitmap : bit = old - n <=> old = bit + n
    BY <2>2, <2>3
  <2> QED BY <2>1, <2>4
<1> QED BY <1>2, <1>3

\* do_gc on one table: the tokens and the bits move together.
LEMMA GcCarriesTable ==
    ASSUME Aligned, TokenList(token_list),
           NEW table, MessageTable(table) \/ AckTable(table),
           NEW K \in SUBSET DOMAIN table
    PROVE  Carried(table, token_list, [x \in K |-> Shifted(table[x])],
                   SubSeq(token_list, TokenShift + 1, Len(token_list)))
<1> DEFINE n == TokenShift
           k == Len(token_list)
           left == SubSeq(token_list, TokenShift + 1, Len(token_list))
           now == [x \in K |-> Shifted(table[x])]
<1>1. /\ k \in Nat /\ DOMAIN token_list = 1 .. k /\ k <= MAX_TOKENS /\ MAX_TOKENS \in Nat
      /\ n \in 0 .. k
  BY LenProperties, TokenAssumption, TokenShiftBound DEF TokenList
<1>2. /\ DOMAIN left = 1 .. k - n
      /\ \A i \in 1 .. k - n : left[i] = token_list[i + n]
  <2>1. token_list \in Seq(AnyToken)
    BY DEF TokenList
  <2> QED BY <1>1, <2>1, SuffixProperties
<1> SUFFICES ASSUME NEW x \in K
             PROVE  ReachedIn(now, left, x) = ReachedIn(table, token_list, x) \cap KnownIn(left)
  BY DEF Carried, Due, ReachedIn
<1>3. /\ x \in DOMAIN table /\ table[x].sent_to_tokens \in SUBSET Bits
      /\ now[x].sent_to_tokens = ShiftToken(table[x].sent_to_tokens, n)
      /\ DOMAIN now = K
  <2>1. \/ table[x] \in [priority : Priorities, sent_to_tokens : SUBSET Bits]
        \/ table[x] \in [max_hops : Hops, sent_to_tokens : SUBSET Bits]
    BY DEF MessageTable, AckTable
  <2> QED BY <2>1 DEF Shifted
<1> DEFINE bits == table[x].sent_to_tokens
<1>4. \A i \in 1 .. k - n : i - 1 \in now[x].sent_to_tokens <=> i + n - 1 \in bits
  <2> SUFFICES ASSUME NEW i \in 1 .. k - n
               PROVE  i - 1 \in ShiftToken(bits, n) <=> i + n - 1 \in bits
    BY <1>3
  <2> HIDE DEF k, n, bits
  <2>1. i - 1 \in Bits /\ n \in Nat /\ (i - 1) + n = i + n - 1
    BY <1>1 DEF Bits
  <2>2. bits \in SUBSET Bits
    BY <1>3 DEF bits
  <2>3. BIG_ENDIAN_HOST \/ n = 0
    BY DEF Aligned, n
  <2> QED BY <2>1, <2>2, <2>3, ShiftTokenExact
<1> HIDE DEF bits, now, left, k, n
<1>5. ReachedIn(now, left, x) = {left[i] : i \in {j \in 1 .. k - n : j - 1 \in now[x].sent_to_tokens}}
  BY <1>2, <1>3 DEF ReachedIn
<1>6. ReachedIn(table, token_list, x) = {token_list[i] : i \in {j \in 1 .. k : j - 1 \in bits}}
  BY <1>1, <1>3 DEF ReachedIn, bits
<1>7. KnownIn(left) = {left[i] : i \in 1 .. k - n}
  BY <1>2 DEF KnownIn
<1>8. ASSUME NEW t \in ReachedIn(now, left, x)
      PROVE  t \in ReachedIn(table, token_list, x) /\ t \in KnownIn(left)
  <2>1. PICK i \in 1 .. k - n : i - 1 \in now[x].sent_to_tokens /\ t = left[i]
    BY <1>5
  <2>2. i + n \in 1 .. k /\ (i + n) - 1 \in bits /\ t = token_list[i + n]
    BY <1>1, <1>2, <1>4, <2>1
  <2> QED BY <1>6, <1>7, <2>1, <2>2
<1>9. ASSUME NEW t \in ReachedIn(table, token_list, x), t \in KnownIn(left)
      PROVE  t \in ReachedIn(now, left, x)
  <2>1. PICK j \in 1 .. k : j - 1 \in bits /\ t = token_list[j]
    BY <1>6
  <2>2. PICK i \in 1 .. k - n : t = left[i]
    BY <1>7, <1>9
  <2>3. i + n \in 1 .. k /\ token_list[i + n] = token_list[j]
    BY <1>1, <1>2, <2>1, <2>2
  <2>4. j = i + n
    BY <1>1, <2>1, <2>3 DEF TokenList
  <2>5. i + n - 1 = j - 1
    BY <1>1, <2>4
  <2>6. i + n - 1 \in bits
    BY <2>1, <2>5
  <2>7. i - 1 \in now[x].sent_to_tokens
    BY <1>4, <2>6
  <2> QED BY <1>5, <2>2, <2>7
<1> QED BY <1>8, <1>9

\* A token is added at the end of the list, where no bitmap has a bit.
LEMMA AppendCarries ==
    ASSUME NEW table, NEW list, NEW table2, NEW list2 \in Seq(AnyToken),
           Carried(table, list, table2, list2), MarksBelow(table2, Len(list2)),
           NEW t \in AnyToken, t \notin KnownIn(list)
    PROVE  Carried(table, list, table2, Append(list2, t))
<1> DEFINE n == Len(list2)
           longer == Append(list2, t)
<1>1. /\ n \in Nat /\ DOMAIN list2 = 1 .. n /\ DOMAIN longer = 1 .. n + 1
      /\ \A i \in 1 .. n : longer[i] = list2[i]
      /\ longer[n + 1] = t
  BY LenProperties
<1>2. MarksBelow(table2, n)
  OBVIOUS
<1> HIDE DEF n, longer
<1>3. KnownIn(longer) = KnownIn(list2) \cup {t}
  <2>1. 1 .. n + 1 = (1 .. n) \cup {n + 1}
    BY <1>1
  <2> QED BY <1>1, <2>1 DEF KnownIn
<1>4. ASSUME NEW x \in Messages
      PROVE  ReachedIn(table2, longer, x) = ReachedIn(table2, list2, x)
  <2>1. CASE x \notin DOMAIN table2
    BY <2>1 DEF ReachedIn
  <2>2. CASE x \in DOMAIN table2
    <3> DEFINE bits == table2[x].sent_to_tokens
    <3>1. bits \subseteq 0 .. n - 1
      BY <1>2, <2>2 DEF MarksBelow
    <3> HIDE DEF bits
    <3>2. {j \in 1 .. n + 1 : j - 1 \in bits} = {j \in 1 .. n : j - 1 \in bits}
      BY <1>1, <3>1
    <3>3. /\ ReachedIn(table2, longer, x) = {longer[i] : i \in {j \in 1 .. n + 1 : j - 1 \in bits}}
          /\ ReachedIn(table2, list2, x) = {list2[i] : i \in {j \in 1 .. n : j - 1 \in bits}}
      BY <1>1, <2>2 DEF ReachedIn, bits
    <3> QED BY <1>1, <3>2, <3>3
  <2> QED BY <2>1, <2>2
<1>5. ASSUME NEW x \in Messages
      PROVE  Due(table, list, table2, longer, x) = Due(table, list, table2, list2, x)
  <2>1. ReachedIn(table, list, x) \subseteq KnownIn(list)
    BY DEF ReachedIn, KnownIn
  <2> QED BY <1>3, <2>1 DEF Due
<1>6. Carried(table, list, table2, longer)
  BY <1>4, <1>5 DEF Carried
<1> QED BY <1>6 DEF longer

\* An item that was in no table comes with no bit set.
LEMMA PutCarries ==
    ASSUME NEW table, NEW list, NEW table2, NEW list2,
           Carried(table, list, table2, list2),
           NEW m, m \notin DOMAIN table, NEW v, v.sent_to_tokens = {}
    PROVE  Carried(table, list, Put(table2, m, v), list2)
<1> SUFFICES ASSUME NEW x \in Messages
             PROVE  ReachedIn(Put(table2, m, v), list2, x)
                       = Due(table, list, Put(table2, m, v), list2, x)
  BY DEF Carried
<1>1. DOMAIN Put(table2, m, v) = DOMAIN table2 \cup {m}
  BY PutDomain
<1>2. CASE x = m
  <2>1. Put(table2, m, v)[x] = v
    BY <1>2 DEF Put
  <2>2. ReachedIn(Put(table2, m, v), list2, x) = {}
    BY <2>1 DEF ReachedIn
  <2> QED BY <1>2, <2>2 DEF Due
<1>3. CASE x # m
  <2>1. x \in DOMAIN table2 => Put(table2, m, v)[x] = table2[x]
    BY <1>3 DEF Put
  <2>2. ReachedIn(Put(table2, m, v), list2, x) = ReachedIn(table2, list2, x)
    BY <1>1, <1>3, <2>1 DEF ReachedIn
  <2>3. Due(table, list, Put(table2, m, v), list2, x) = Due(table, list, table2, list2, x)
    BY <1>1, <1>3 DEF Due
  <2> QED BY <2>2, <2>3 DEF Carried
<1> QED BY <1>2, <1>3

LEMMA KeepCarries ==
    ASSUME NEW table, NEW list, NEW table2, NEW list2,
           Carried(table, list, table2, list2), NEW S
    PROVE  Carried(table, list, Keep(table2, S), list2)
<1> SUFFICES ASSUME NEW x \in Messages
             PROVE  ReachedIn(Keep(table2, S), list2, x)
                       = Due(table, list, Keep(table2, S), list2, x)
  BY DEF Carried
<1>1. DOMAIN Keep(table2, S) = DOMAIN table2 \cap S
  BY KeepDomain
<1>2. CASE x \in DOMAIN table2 \cap S
  <2>1. Keep(table2, S)[x] = table2[x]
    BY <1>2, KeepDomain
  <2>2. ReachedIn(Keep(table2, S), list2, x) = ReachedIn(table2, list2, x)
    BY <1>1, <1>2, <2>1 DEF ReachedIn
  <2>3. Due(table, list, Keep(table2, S), list2, x) = Due(table, list, table2, list2, x)
    BY <1>1, <1>2 DEF Due
  <2> QED BY <2>2, <2>3 DEF Carried
<1>3. CASE x \notin DOMAIN table2 \cap S
  BY <1>1, <1>3 DEF ReachedIn, Due
<1> QED BY <1>2, <1>3

\* A mark is set for one item and one token of the list.
LEMMA MarkInKept ==
    ASSUME NEW table, NEW list, NEW table2, NEW list2 \in Seq(AnyToken),
           MessageTable(table2) \/ AckTable(table2),
           Carried(table, list, table2, list2),
           NEW m, NEW index \in 0 .. Len(list2) - 1
    PROVE  MarksKept(table, list, MarkIn(table2, m, index), list2)
<1> DEFINE now == MarkIn(table2, m, index)
           t == list2[index + 1]
           n == Len(list2)
<1>1. CASE m \notin DOMAIN table2
  BY <1>1 DEF MarkIn, MarksKept
<1>2. CASE m \in DOMAIN table2
  <2>1. n \in Nat /\ DOMAIN list2 = 1 .. n /\ index \in 0 .. n - 1
    BY LenProperties
  <2> HIDE DEF n
  <2>2. index + 1 \in DOMAIN list2 /\ t \in KnownIn(list2) /\ (index + 1) - 1 = index
    BY <2>1 DEF KnownIn
  <2>3. /\ DOMAIN now = DOMAIN table2
        /\ \A x \in DOMAIN table2 : x # m => now[x] = table2[x]
        /\ now[m].sent_to_tokens = table2[m].sent_to_tokens \cup {index}
    <3>1. "sent_to_tokens" \in DOMAIN table2[m]
      BY <1>2 DEF MessageTable, AckTable
    <3> QED BY <1>2, <3>1 DEF MarkIn
  <2> HIDE DEF now
  <2>4. ReachedIn(now, list2, m) = ReachedIn(table2, list2, m) \cup {t}
    <3> DEFINE bits == table2[m].sent_to_tokens
               both == now[m].sent_to_tokens
    <3>1. \A j \in DOMAIN list2 : j - 1 = index <=> j = index + 1
      BY <2>1
    <3>2. both = bits \cup {index}
      BY <2>3
    <3> HIDE DEF bits, both
    <3>3. {j \in DOMAIN list2 : j - 1 \in both} = {j \in DOMAIN list2 : j - 1 \in bits} \cup {index + 1}
      BY <2>2, <3>1, <3>2
    <3>4. /\ ReachedIn(now, list2, m) = {list2[i] : i \in {j \in DOMAIN list2 : j - 1 \in both}}
          /\ ReachedIn(table2, list2, m) = {list2[i] : i \in {j \in DOMAIN list2 : j - 1 \in bits}}
      BY <1>2, <2>3 DEF ReachedIn, bits, both
    <3> QED BY <3>3, <3>4
  <2>5. \A x \in Messages \ {m} : ReachedIn(now, list2, x) = ReachedIn(table2, list2, x)
    BY <2>3 DEF ReachedIn
  <2>6. \A x \in Messages : Due(table, list, now, list2, x) = Due(table, list, table2, list2, x)
    BY <2>3 DEF Due
  <2> HIDE DEF t
  <2>7. Marked(table, list, now, list2, m, t)
    BY <2>4, <2>5, <2>6 DEF Marked, Carried
  <2> QED BY <1>2, <2>2, <2>3, <2>7 DEF MarksKept, now
<1> QED BY <1>1, <1>2

\* A table and a token list that stay as they are.
LEMMA SameCarries ==
    ASSUME NEW table, NEW list
    PROVE  Carried(table, list, table, list)
BY DEF Carried, Due, ReachedIn, KnownIn

\* do_gc carries the marks of both tables to the list that is left.
LEMMA GcCarries ==
    ASSUME Aligned, MInv, NEW e, NEW n \in Nat, NEW gc \in GcResults(e, n)
    PROVE  /\ Carried(message_table, token_list, gc.messages, gc.tokens)
           /\ Carried(ack_table, token_list, gc.acks, gc.tokens)
<1> DEFINE KM == DOMAIN gc.messages
           KA == DOMAIN gc.acks
<1>1. Leaves(gc)
  BY GcTables
<1>2. /\ gc.messages = [m \in KM |-> Shifted(message_table[m])]
      /\ gc.acks = [a \in KA |-> Shifted(ack_table[a])]
      /\ gc.tokens = SubSeq(token_list, TokenShift + 1, Len(token_list))
  BY <1>1 DEF Leaves
<1>3. KM \in SUBSET DOMAIN message_table /\ KA \in SUBSET DOMAIN ack_table
  BY <1>1 DEF Leaves
<1>4. TokenList(token_list) /\ MessageTable(message_table) /\ AckTable(ack_table)
  BY DEF MInv, IInv, Good
<1>5. /\ Carried(message_table, token_list, [m \in KM |-> Shifted(message_table[m])],
                 SubSeq(token_list, TokenShift + 1, Len(token_list)))
      /\ Carried(ack_table, token_list, [a \in KA |-> Shifted(ack_table[a])],
                 SubSeq(token_list, TokenShift + 1, Len(token_list)))
  BY <1>3, <1>4, GcCarriesTable
<1> QED BY <1>2, <1>5

\* token_to_send_to itself sets no mark, whichever way it finds its token.
LEMMA TokenToSendToCarries ==
    ASSUME MInv, NEW t \in AnyToken, NEW bitmap,
           NEW r \in TokenToSendTo(t, bitmap), KeptBy(r.now.tokens)
    PROVE  /\ Carried(message_table, token_list, r.now.messages, r.now.tokens)
           /\ Carried(ack_table, token_list, r.now.acks, r.now.tokens)
           /\ MessageTable(r.now.messages) /\ AckTable(r.now.acks)
           /\ r.now.tokens \in Seq(AnyToken)
<1>1. /\ Named(message_table, ack_table, token_list)
      /\ token_list \in Seq(AnyToken)
  BY DEF MInv, IInv, Good, TokenList
<1>2. /\ MessageTable(r.now.messages) /\ AckTable(r.now.acks)
      /\ r.now.tokens \in Seq(AnyToken)
  BY TokenToSendToGood DEF MInv, Good, TokenList
<1>3. /\ Carried(message_table, token_list, message_table, token_list)
      /\ Carried(ack_table, token_list, ack_table, token_list)
  BY SameCarries
<1>4. CASE r.now = Tables
  <2>1. /\ r.now.messages = message_table /\ r.now.acks = ack_table
        /\ r.now.tokens = token_list
    BY <1>4 DEF Tables
  <2> QED BY <1>2, <1>3, <2>1
<1>5. ASSUME ~ Listed(t), NEW messages, NEW acks, NEW tokens \in Seq(AnyToken),
             Named(messages, acks, tokens),
             Carried(message_table, token_list, messages, tokens),
             Carried(ack_table, token_list, acks, tokens),
             r.now.messages = messages, r.now.acks = acks,
             r.now.tokens = Append(tokens, t)
      PROVE  /\ Carried(message_table, token_list, r.now.messages, r.now.tokens)
             /\ Carried(ack_table, token_list, r.now.acks, r.now.tokens)
  <2>1. t \notin KnownIn(token_list)
    BY <1>5 DEF Listed, KnownIn
  <2>2. MarksBelow(messages, Len(tokens)) /\ MarksBelow(acks, Len(tokens))
    BY <1>5 DEF Named
  <2> QED BY <1>5, <2>1, <2>2, AppendCarries
<1>6. CASE ~ Listed(t) /\ Len(token_list) < MAX_TOKENS
  <2>1. /\ r.now.messages = message_table /\ r.now.acks = ack_table
        /\ r.now.tokens = Append(token_list, t)
    BY <1>6 DEF TokenToSendTo, Tables
  <2> QED BY <1>1, <1>2, <1>3, <1>5, <1>6, <2>1
<1>7. CASE ~ Listed(t) /\ ~ Len(token_list) < MAX_TOKENS /\ ~ gc_recent
  <2>1. PICK g \in GcResults(NoEntry, 0) :
           r = [now |-> [g EXCEPT !.tokens = Append(@, t)], gc |-> TRUE,
                index |-> Len(g.tokens)]
    BY <1>7 DEF TokenToSendTo
  <2>2. /\ g = [messages |-> g.messages, acks |-> g.acks, tokens |-> g.tokens,
                bloom |-> g.bloom, rotations |-> g.rotations]
        /\ g.tokens \in Seq(AnyToken)
    BY GcGood DEF MInv, Good, TokenList
  <2>3. /\ r.now.messages = g.messages /\ r.now.acks = g.acks
        /\ r.now.tokens = Append(g.tokens, t)
    BY <2>1, <2>2
  <2>40. Aligned
    BY <2>3, KeptByAppended DEF MInv, IInv, Good
  <2>4. /\ Named(g.messages, g.acks, g.tokens)
        /\ Carried(message_table, token_list, g.messages, g.tokens)
        /\ Carried(ack_table, token_list, g.acks, g.tokens)
    BY <2>40, GcNamed, GcCarries
  <2> QED BY <1>2, <1>5, <1>7, <2>2, <2>3, <2>4
<1>8. Listed(t) \/ (~ Listed(t) /\ ~ Len(token_list) < MAX_TOKENS /\ gc_recent) => r.now = Tables
  BY DEF TokenToSendTo
<1> QED BY <1>4, <1>6, <1>7, <1>8

-----------------------------------------------------------------------------
(* Every operation of the cache is a step of SentMemory, for both tables.   *)

StepKeepsMarks ==
    /\ MarksKept(message_table, token_list, message_table', token_list')
    /\ MarksKept(ack_table, token_list, ack_table', token_list')

LEMMA SameKeepsMarks ==
    ASSUME UNCHANGED <<message_table, ack_table, token_list>>
    PROVE  StepKeepsMarks
BY SameCarries DEF StepKeepsMarks, MarksKept

LEMMA SavePacketKeepsMarks ==
    ASSUME TokensKept, MInv, NEW m \in Messages, NEW priority \in Priorities,
           SavePacket(m, priority)
    PROVE  StepKeepsMarks
<1>1. NewMessage(priority).sent_to_tokens = {}
  BY DEF NewMessage
<1>2. ASSUME m \notin DOMAIN message_table, NEW messages, NEW acks, NEW tokens,
             Carried(message_table, token_list, messages, tokens),
             Carried(ack_table, token_list, acks, tokens),
             message_table' = Put(messages, m, NewMessage(priority)),
             ack_table' = acks, token_list' = tokens
      PROVE  StepKeepsMarks
  <2>1. Carried(message_table, token_list, Put(messages, m, NewMessage(priority)), tokens)
    BY <1>1, <1>2, PutCarries
  <2> QED BY <1>2, <2>1 DEF StepKeepsMarks, MarksKept
<1>3. ASSUME ~ Seen(m), message_table' = Put(message_table, m, NewMessage(priority)),
             UNCHANGED <<ack_table, token_list>>
      PROVE  StepKeepsMarks
  BY <1>2, <1>3, SameCarries DEF Seen
<1>4. ASSUME ~ Seen(m), NEW gc \in GcResults(EntryOf[m], Size[m]),
             message_table' = Put(gc.messages, m, NewMessage(priority)),
             ack_table' = gc.acks, token_list' = gc.tokens
      PROVE  StepKeepsMarks
  <2>1. Size[m] \in Nat
    BY TableAssumption
  <2>2. /\ Carried(message_table, token_list, gc.messages, gc.tokens)
        /\ Carried(ack_table, token_list, gc.acks, gc.tokens)
    <3>1. Aligned
      BY <1>4, <2>1, KeptByGc DEF TokensKept, KeptBy, MInv, IInv, Good
    <3> QED BY <2>1, <3>1, GcCarries
  <2> QED BY <1>2, <1>4, <2>2 DEF Seen
<1>5. CASE UNCHANGED <<message_table, ack_table, token_list>>
  BY <1>5, SameKeepsMarks
<1> QED BY <1>3, <1>4, <1>5 DEF SavePacket, Halt

LEMMA SaveAckKeepsMarks ==
    ASSUME TokensKept, MInv, NEW a \in Messages, NEW hops \in Hops, SaveAck(a, hops)
    PROVE  StepKeepsMarks
<1>1. NewAck(hops).sent_to_tokens = {}
  BY DEF NewAck
<1>2. ASSUME a \notin DOMAIN ack_table, NEW messages, NEW acks, NEW tokens,
             Carried(message_table, token_list, messages, tokens),
             Carried(ack_table, token_list, acks, tokens),
             message_table' = Keep(messages, Messages \ {a}),
             ack_table' = Put(acks, a, NewAck(hops)),
             token_list' = tokens
      PROVE  StepKeepsMarks
  <2>1. Carried(ack_table, token_list, Put(acks, a, NewAck(hops)), tokens)
    BY <1>1, <1>2, PutCarries
  <2>2. Carried(message_table, token_list, Keep(messages, Messages \ {a}), tokens)
    BY <1>2, KeepCarries
  <2> QED BY <1>2, <2>1, <2>2 DEF StepKeepsMarks, MarksKept
<1>3. CASE /\ a \in DOMAIN ack_table
           /\ ack_table' = [ack_table EXCEPT ![a].max_hops = IF @ < hops THEN hops ELSE @]
           /\ UNCHANGED <<message_table, token_list>>
  <2>1. ASSUME NEW x \in DOMAIN ack_table
        PROVE  ack_table'[x].sent_to_tokens = ack_table[x].sent_to_tokens
    <3>1. ack_table[x] \in [max_hops : Hops, sent_to_tokens : SUBSET Bits]
      BY DEF MInv, IInv, Good, AckTable
    <3> QED BY <1>3, <3>1
  <2>2. DOMAIN ack_table' = DOMAIN ack_table
    BY <1>3
  <2>3. \A x : ReachedIn(ack_table', token_list, x) = ReachedIn(ack_table, token_list, x)
    BY <2>1, <2>2 DEF ReachedIn
  <2>4. \A x : Due(ack_table, token_list, ack_table', token_list, x)
                  = Due(ack_table, token_list, ack_table, token_list, x)
    BY <2>2 DEF Due
  <2>5. Carried(ack_table, token_list, ack_table', token_list)
    BY <2>3, <2>4, SameCarries DEF Carried
  <2> QED BY <1>3, <2>5, SameCarries DEF StepKeepsMarks, MarksKept
<1>4. ASSUME a \notin DOMAIN ack_table,
             ack_table' = Put(ack_table, a, NewAck(hops)),
             message_table' = Keep(message_table, Messages \ {a}),
             UNCHANGED token_list
      PROVE  StepKeepsMarks
  BY <1>2, <1>4, SameCarries
<1>5. ASSUME a \notin DOMAIN ack_table, NEW gc \in GcResults(NoEntry, 0),
             message_table' = Keep(gc.messages, Messages \ {a}),
             ack_table' = Put(gc.acks, a, NewAck(hops)),
             token_list' = gc.tokens
      PROVE  StepKeepsMarks
  <2>1. /\ Carried(message_table, token_list, gc.messages, gc.tokens)
        /\ Carried(ack_table, token_list, gc.acks, gc.tokens)
    <3>1. Aligned
      BY <1>5, KeptByGc DEF TokensKept, KeptBy, MInv, IInv, Good
    <3> QED BY <3>1, GcCarries
  <2> QED BY <1>2, <1>5, <2>1
<1>6. CASE UNCHANGED <<message_table, ack_table, token_list>>
  BY <1>6, SameKeepsMarks
<1> QED BY <1>3, <1>4, <1>5, <1>6 DEF SaveAck, Halt

LEMMA InstallKeepsMarks ==
    ASSUME NEW r, NEW messages, NEW acks, Install(r, messages, acks),
           MarksKept(message_table, token_list, messages, r.now.tokens),
           MarksKept(ack_table, token_list, acks, r.now.tokens)
    PROVE  StepKeepsMarks
BY DEF Install, StepKeepsMarks

LEMMA AckForTokenKeepsMarks ==
    ASSUME TokensKept, MInv, NEW t \in AnyToken, NEW a \in Messages,
           NEW new \in BOOLEAN, AckForToken(t, a, new)
    PROVE  StepKeepsMarks
<1>1. CASE UNCHANGED <<message_table, ack_table, token_list>>
  BY <1>1, SameKeepsMarks
<1>2. ASSUME NEW bitmap, NEW r \in TokenToSendTo(t, bitmap),
             new = (r.index # -1),
             Install(r, r.now.messages,
                     IF new THEN MarkIn(r.now.acks, a, r.index) ELSE r.now.acks)
      PROVE  StepKeepsMarks
  <2> DEFINE acks == IF new THEN MarkIn(r.now.acks, a, r.index) ELSE r.now.acks
  <2>0. KeptBy(r.now.tokens)
    BY <1>2, InstallKept
  <2>1. /\ Carried(message_table, token_list, r.now.messages, r.now.tokens)
        /\ Carried(ack_table, token_list, r.now.acks, r.now.tokens)
        /\ AckTable(r.now.acks) /\ r.now.tokens \in Seq(AnyToken)
        /\ r.index \in 0 .. Len(r.now.tokens) - 1 \cup {-1}
    BY <2>0, TokenToSendToCarries, TokenToSendToNamed
  <2>2. MarksKept(ack_table, token_list, acks, r.now.tokens)
    <3>1. CASE new
      <4>1. r.index \in 0 .. Len(r.now.tokens) - 1
        BY <1>2, <2>1, <3>1
      <4> QED BY <2>1, <3>1, <4>1, MarkInKept
    <3>2. CASE ~ new
      BY <2>1, <3>2 DEF MarksKept
    <3> QED BY <3>1, <3>2
  <2>3. MarksKept(message_table, token_list, r.now.messages, r.now.tokens)
    BY <2>1 DEF MarksKept
  <2>4. Install(r, r.now.messages, acks)
    BY <1>2
  <2> HIDE DEF acks
  <2> QED BY <2>2, <2>3, <2>4, InstallKeepsMarks
<1> QED BY <1>1, <1>2 DEF AckForToken

LEMMA MarkTokenSentKeepsMarks ==
    ASSUME TokensKept, MInv, NEW t \in AnyToken, NEW m \in Messages,
           MarkTokenSent(t, m)
    PROVE  StepKeepsMarks
<1>1. PICK r \in TokenToSendTo(t, {}) :
         Install(r, IF r.index = -1 THEN r.now.messages ELSE MarkIn(r.now.messages, m, r.index),
                 r.now.acks)
  BY DEF MarkTokenSent
<1> DEFINE messages == IF r.index = -1 THEN r.now.messages
                       ELSE MarkIn(r.now.messages, m, r.index)
<1>2. /\ Carried(message_table, token_list, r.now.messages, r.now.tokens)
      /\ Carried(ack_table, token_list, r.now.acks, r.now.tokens)
      /\ MessageTable(r.now.messages) /\ r.now.tokens \in Seq(AnyToken)
      /\ r.index \in 0 .. Len(r.now.tokens) - 1 \cup {-1}
  <2>1. KeptBy(r.now.tokens)
    BY <1>1, InstallKept
  <2> QED BY <2>1, TokenToSendToCarries, TokenToSendToNamed
<1>3. MarksKept(message_table, token_list, messages, r.now.tokens)
  <2>1. CASE r.index = -1
    BY <1>2, <2>1 DEF MarksKept
  <2>2. CASE r.index # -1
    <3>1. r.index \in 0 .. Len(r.now.tokens) - 1
      BY <1>2, <2>2
    <3> QED BY <1>2, <2>2, <3>1, MarkInKept
  <2> QED BY <2>1, <2>2
<1>4. MarksKept(ack_table, token_list, r.now.acks, r.now.tokens)
  BY <1>2 DEF MarksKept
<1>5. Install(r, messages, r.now.acks)
  BY <1>1
<1> HIDE DEF messages
<1> QED BY <1>3, <1>4, <1>5, InstallKeepsMarks

LEMMA RequestKeepsMarks ==
    ASSUME TokensKept, MInv, NEW t \in AnyToken, NEW matching, NEW max,
           NEW results, Request(t, matching, max, results)
    PROVE  StepKeepsMarks
<1>1. CASE UNCHANGED vars
  BY <1>1, SameKeepsMarks DEF vars
<1>2. ASSUME NEW bitmap, NEW r \in TokenToSendTo(t, bitmap),
             Install(r, r.now.messages, r.now.acks)
      PROVE  StepKeepsMarks
  <2>1. /\ Carried(message_table, token_list, r.now.messages, r.now.tokens)
        /\ Carried(ack_table, token_list, r.now.acks, r.now.tokens)
    BY <1>2, InstallKept, TokenToSendToCarries
  <2>2. /\ MarksKept(message_table, token_list, r.now.messages, r.now.tokens)
        /\ MarksKept(ack_table, token_list, r.now.acks, r.now.tokens)
    BY <2>1 DEF MarksKept
  <2> QED BY <1>2, <2>2, InstallKeepsMarks
<1> QED BY <1>1, <1>2 DEF Request

LEMMA NextKeepsMarks ==
    ASSUME TokensKept, MInv, [Next]_vars
    PROVE  StepKeepsMarks
<1>1. Tokens \subseteq AnyToken /\ local_token \in AnyToken
  BY DEF AnyToken, MInv, IInv
<1>2. CASE \E m \in Messages, p \in Priorities : SavePacket(m, p)
  BY <1>2, SavePacketKeepsMarks
<1>3. CASE \E a \in Messages, h \in Hops : SaveAck(a, h)
  BY <1>3, SaveAckKeepsMarks
<1>4. CASE \E t \in Tokens \cup {local_token}, a \in Messages, new \in BOOLEAN :
              AckForToken(t, a, new)
  BY <1>1, <1>4, AckForTokenKeepsMarks
<1>5. CASE \E t \in Tokens, m \in Messages : MarkTokenSent(t, m)
  BY <1>1, <1>5, MarkTokenSentKeepsMarks
<1>6. CASE \E t \in Tokens, results \in SUBSET (Messages \cup {Garbled}) :
              Request(t, Messages, 0, results)
  BY <1>1, <1>6, RequestKeepsMarks
<1>7. CASE UNCHANGED <<message_table, ack_table, token_list>>
  BY <1>7, SameKeepsMarks
<1> QED
  BY <1>2, <1>3, <1>4, <1>5, <1>6, <1>7
     DEF Next, RecordPacket, RecordTrace, Expire, MinutePasses, vars

\* The messages' side of a step.
LEMMA StepOfMessageMarks ==
    ASSUME IInv, IInv', StepKeepsMarks
    PROVE  MessageMarks!Next
<1> DEFINE now == [m \in Messages |-> Reached(message_table, m)]'
           due == MessageMarks!Surviving
<1>1. /\ DOMAIN message_table' \subseteq Messages
      /\ KnownTokens' \subseteq AnyToken
  BY DEF IInv, Good, MessageTable, TokenList, KnownTokens
<1>2. MessageMarks!Change
  BY <1>1 DEF MessageMarks!Change
<1>3. KnownTokens' = KnownIn(token_list')
  BY DEF KnownTokens, KnownIn
<1>4. now = [m \in Messages |-> ReachedIn(message_table', token_list', m)]
  BY DEF Reached, ReachedIn
<1>5. due = [m \in Messages |-> Due(message_table, token_list, message_table', token_list', m)]
  <2>1. \A m : Reached(message_table, m) = ReachedIn(message_table, token_list, m)
    BY DEF Reached, ReachedIn
  <2> QED BY <1>3, <2>1 DEF MessageMarks!Surviving, Due
<1> HIDE DEF now, due
<1>6. CASE Carried(message_table, token_list, message_table', token_list')
  <2>1. now = due
    BY <1>4, <1>5, <1>6 DEF Carried
  <2> QED BY <1>2, <2>1 DEF MessageMarks!Next, MessageMarks!Turnover, now, due
<1>7. ASSUME NEW m \in DOMAIN message_table', NEW t \in KnownIn(token_list'),
             Marked(message_table, token_list, message_table', token_list', m, t)
      PROVE  MessageMarks!Next
  <2>1. /\ m \in Messages /\ t \in AnyToken /\ t \in KnownTokens'
    BY <1>1, <1>3
  <2>2. now = [due EXCEPT ![m] = @ \cup {t}]
    BY <1>4, <1>5, <1>7, <2>1 DEF Marked
  <2>3. MessageMarks!Mark(m, t)
    BY <1>2, <2>1, <2>2 DEF MessageMarks!Mark, now, due
  <2> QED BY <2>1, <2>3 DEF MessageMarks!Next
<1> QED BY <1>6, <1>7 DEF StepKeepsMarks, MarksKept

\* The acks' side of a step.
LEMMA StepOfAckMarks ==
    ASSUME IInv, IInv', StepKeepsMarks
    PROVE  AckMarks!Next
<1> DEFINE now == [a \in Messages |-> Reached(ack_table, a)]'
           due == AckMarks!Surviving
<1>1. /\ DOMAIN ack_table' \subseteq Messages
      /\ KnownTokens' \subseteq AnyToken
  BY DEF IInv, Good, AckTable, TokenList, KnownTokens
<1>2. AckMarks!Change
  BY <1>1 DEF AckMarks!Change
<1>3. KnownTokens' = KnownIn(token_list')
  BY DEF KnownTokens, KnownIn
<1>4. now = [a \in Messages |-> ReachedIn(ack_table', token_list', a)]
  BY DEF Reached, ReachedIn
<1>5. due = [a \in Messages |-> Due(ack_table, token_list, ack_table', token_list', a)]
  <2>1. \A a : Reached(ack_table, a) = ReachedIn(ack_table, token_list, a)
    BY DEF Reached, ReachedIn
  <2> QED BY <1>3, <2>1 DEF AckMarks!Surviving, Due
<1> HIDE DEF now, due
<1>6. CASE Carried(ack_table, token_list, ack_table', token_list')
  <2>1. now = due
    BY <1>4, <1>5, <1>6 DEF Carried
  <2> QED BY <1>2, <2>1 DEF AckMarks!Next, AckMarks!Turnover, now, due
<1>7. ASSUME NEW a \in DOMAIN ack_table', NEW t \in KnownIn(token_list'),
             Marked(ack_table, token_list, ack_table', token_list', a, t)
      PROVE  AckMarks!Next
  <2>1. /\ a \in Messages /\ t \in AnyToken /\ t \in KnownTokens'
    BY <1>1, <1>3
  <2>2. now = [due EXCEPT ![a] = @ \cup {t}]
    BY <1>4, <1>5, <1>7, <2>1 DEF Marked
  <2>3. AckMarks!Mark(a, t)
    BY <1>2, <2>1, <2>2 DEF AckMarks!Mark, now, due
  <2> QED BY <2>1, <2>3 DEF AckMarks!Next
<1> QED BY <1>6, <1>7 DEF StepKeepsMarks, MarksKept

LEMMA InitMarks == Init => MessageMarks!Init /\ AckMarks!Init
<1> SUFFICES ASSUME Init PROVE MessageMarks!Init /\ AckMarks!Init
  OBVIOUS
<1>1. DOMAIN message_table = {} /\ DOMAIN ack_table = {} /\ token_list = <<>>
  BY DEF Init
<1>2. DOMAIN token_list = {}
  BY <1>1
<1>3. KnownTokens = {}
  BY <1>2 DEF KnownTokens
<1> QED BY <1>1, <1>3 DEF MessageMarks!Init, AckMarks!Init, Reached

\* While the bits name the tokens they named before each step (on a big-endian
\* host always), the bitmaps of the messages implement SentMemory: a message
\* is marked for one token at a time, and its marks outlive every gc that keeps
\* the message and the token (do_gc, gc_tokens, shift_token,
\* pcache_mark_token_sent).
THEOREM MessageMarksImplemented ==
    Spec /\ [][TokensKept]_vars => MessageMarksKept
<1>1. Init => MInv /\ MessageMarks!Init
  BY InitMInv, InitMarks
<1>2. MInv /\ [Next]_vars /\ [TokensKept]_vars => MInv'
  BY NextMInv
<1>3. MInv /\ MInv' /\ [Next]_vars /\ [TokensKept]_vars => MessageMarks!Next
  BY UnchangedKept, NextKeepsMarks, StepOfMessageMarks DEF MInv
<1> QED BY <1>1, <1>2, <1>3, PTL DEF Spec, MessageMarksKept, MessageMarks!Spec

\* The same for the acks (save_one_ack, pcache_ack_for_token).
THEOREM AckMarksImplemented ==
    Spec /\ [][TokensKept]_vars => AckMarksKept
<1>1. Init => MInv /\ AckMarks!Init
  BY InitMInv, InitMarks
<1>2. MInv /\ [Next]_vars /\ [TokensKept]_vars => MInv'
  BY NextMInv
<1>3. MInv /\ MInv' /\ [Next]_vars /\ [TokensKept]_vars => AckMarks!Next
  BY UnchangedKept, NextKeepsMarks, StepOfAckMarks DEF MInv
<1> QED BY <1>1, <1>2, <1>3, PTL DEF Spec, AckMarksKept, AckMarks!Spec
=============================================================================
