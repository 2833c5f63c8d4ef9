----------------------------- MODULE ChatProofs -----------------------------
(***************************************************************************)
(* Proofs about one direction of a conversation, for any number of         *)
(* messages, crashes and requests: a sequence number names one message on  *)
(* the network and in the receiver's log, and what is asked for is missing.*)
(***************************************************************************)
EXTENDS Chat, TLAPS

\* S has a largest element, the one Max chooses.
HasMax(S) == \E x \in S : \A y \in S : x >= y

SentNumbers == {sent[n] : n \in DOMAIN sent}
Places(seq) == {n \in DOMAIN sent : sent[n] = seq}

\* The sender's log, and that its largest entries exist.
LogInv ==
    /\ sent \in Seq(Nat \ {0}) /\ last_sent \in Nat
    /\ HasMax(SentNumbers \cup {0})
    /\ \A seq \in Nat : HasMax(Places(seq) \cup {0})

\* A message on the network is in the log, its number was recorded, and no
\* later message in the log has that number.
OutInv ==
    /\ out \subseteq DOMAIN sent
    /\ \A n \in out : sent[n] <= HighestSent
    /\ \A m \in out, k \in DOMAIN sent : sent[k] = sent[m] => k <= m

\* The last message is above the recorded numbers before it is recorded.
GuiInv ==
    /\ gui.at = "saved" => sent # <<>> /\ sent[Len(sent)] >= HighestSent
    /\ gui.at = "recorded" => sent # <<>> /\ sent[Len(sent)] <= HighestSent

ReaderType == [at : {"idle", "load", "add", "eager"}, push : BOOLEAN,
               found : SUBSET (0 .. HighestSent)]

\* The numbers that may be resent, wherever they are kept, were recorded.
NumbersInv ==
    /\ unacked_cache \subseteq 0 .. HighestSent
    /\ gui.found \subseteq 0 .. HighestSent
    /\ reader \in ReaderType

Known(packet) ==
    /\ packet.kind = "data" => packet.message \in out
    /\ packet.kind = "request" =>
          packet.last \in Nat /\ packet.missing \subseteq 0 .. HighestSent
NetInv == \A packet \in net : Known(packet)

\* The receiver's log has messages of the network, no number twice, and
\* last_received is a number of one of them.
ReceiverInv ==
    /\ stored \in Seq(Nat) /\ \A i \in DOMAIN stored : stored[i] \in out
    /\ HasMax(StoredNumbers \cup {0})
    /\ last_received \in StoredNumbers \cup {0}
    /\ app.at = "ack" =>
          app.message \in out /\ (app.new => sent[app.message] \in StoredNumbers)
    /\ OneStoredPerNumber

IInv == LogInv /\ OutInv /\ GuiInv /\ NumbersInv /\ NetInv /\ ReceiverInv

-----------------------------------------------------------------------------
(* The largest element of a set of numbers.                                *)

LEMMA MaxIs ==
  ASSUME NEW S, HasMax(S)
  PROVE  Max(S) \in S /\ \A y \in S : Max(S) >= y
BY DEF HasMax, Max

LEMMA HighestOfIs ==
  ASSUME NEW S \in SUBSET Nat, HasMax(S \cup {0})
  PROVE  /\ HighestOf(S) \in Nat
         /\ HighestOf(S) \in S \cup {0}
         /\ \A y \in S : y <= HighestOf(S)
  <1>1. /\ HighestOf(S) \in S \cup {0}
        /\ \A y \in S \cup {0} : HighestOf(S) >= y
        BY MaxIs DEF HighestOf
  <1>0. S \cup {0} \subseteq Nat
        OBVIOUS
  <1>2. HighestOf(S) \in Nat
        BY <1>0, <1>1
  <1>3. ASSUME NEW y \in S PROVE y <= HighestOf(S)
        BY <1>1, <1>2
  <1> QED BY <1>1, <1>2, <1>3

LEMMA MaxOfTwo ==
  ASSUME NEW a \in Nat, NEW b \in Nat
  PROVE  /\ Max({a, b}) \in {a, b}
         /\ Max({a, b}) >= a /\ Max({a, b}) >= b
  <1>1. HasMax({a, b})
        <2>1. CASE a >= b
              BY <2>1 DEF HasMax
        <2>2. CASE b >= a
              BY <2>2 DEF HasMax
        <2> QED BY <2>1, <2>2
  <1> QED BY <1>1, MaxIs

\* A set that gains a number has a largest element if it had one before.
LEMMA HasMaxWith ==
  ASSUME NEW S \in SUBSET Nat, HasMax(S), NEW n \in Nat
  PROVE  HasMax(S \cup {n})
  <1>1. PICK x \in S : \A y \in S : x >= y
        BY DEF HasMax
  <1>2. CASE x >= n
        BY <1>1, <1>2 DEF HasMax
  <1>3. CASE n > x
        <2>1. \A y \in S \cup {n} : n >= y
              BY <1>1, <1>3
        <2> QED BY <2>1 DEF HasMax
  <1> QED BY <1>1, <1>2, <1>3

LEMMA HighestSentIs ==
  ASSUME LogInv
  PROVE  /\ HighestSent \in Nat
         /\ last_sent > 0 => HighestSent = last_sent
         /\ last_sent = 0 => \A n \in DOMAIN sent : sent[n] <= HighestSent
  <1>1. SentNumbers \in SUBSET Nat
        BY DEF LogInv, SentNumbers
  <1>2. /\ HighestOf(SentNumbers) \in Nat
        /\ \A y \in SentNumbers : y <= HighestOf(SentNumbers)
        BY <1>1, HighestOfIs DEF LogInv
  <1> QED BY <1>2 DEF LogInv, HighestSent, SentNumbers

\* get_outgoing: the message found for a number has it, and is the last one.
LEMMA LatestIs ==
  ASSUME LogInv, NEW seq \in Nat, Latest(seq) # 0
  PROVE  /\ Latest(seq) \in DOMAIN sent
         /\ sent[Latest(seq)] = seq
         /\ \A k \in DOMAIN sent : sent[k] = seq => k <= Latest(seq)
  <1>1. Places(seq) \in SUBSET Nat /\ HasMax(Places(seq) \cup {0})
        BY DEF LogInv, Places
  <1>2. /\ HighestOf(Places(seq)) \in Places(seq) \cup {0}
        /\ \A y \in Places(seq) : y <= HighestOf(Places(seq))
        BY <1>1, HighestOfIs
  <1> QED BY <1>2 DEF Latest, Places

-----------------------------------------------------------------------------
(* What the steps have in common.                                          *)

\* highest_seq_value writes the file if there is none: the value is the same.
LEMMA HighestKept ==
  ASSUME LogInv, sent' = sent, last_sent' \in {last_sent, HighestSent}
  PROVE  LogInv' /\ HighestSent' = HighestSent
  <1>1. HighestSent \in Nat /\ (last_sent > 0 => HighestSent = last_sent)
        BY HighestSentIs
  <1>2. LogInv'
        BY <1>1 DEF LogInv, SentNumbers, Places
  <1>3. HighestSent' = HighestSent
        <2>1. CASE last_sent' = last_sent
              BY <2>1 DEF HighestSent
        <2>2. CASE last_sent' = HighestSent /\ HighestSent > 0
              BY <2>2, <1>1 DEF HighestSent
        <2>3. CASE last_sent' = HighestSent /\ HighestSent = 0
              BY <2>3, <1>1 DEF HighestSent, LogInv
        <2> QED BY <2>1, <2>2, <2>3, <1>1
  <1> QED BY <1>2, <1>3

\* resend_message: only what was recorded, and the last message of a number.
LEMMA ResendKeeps ==
  ASSUME LogInv, OutInv, sent' = sent, HighestSent' = HighestSent,
         NEW numbers \in SUBSET (0 .. HighestSent), NEW flying \in SUBSET net,
         NetInv, Resend(numbers, flying)
  PROVE  OutInv' /\ NetInv' /\ out \subseteq out'
  <1> DEFINE again == {Latest(seq) : seq \in numbers \ recent} \ {0}
  <1>1. /\ net' = flying \cup {Data(n) : n \in again}
        /\ out' = out \cup again
        BY DEF Resend
  <1>2. HighestSent \in Nat
        BY HighestSentIs
  <1>3. ASSUME NEW n \in again
        PROVE  /\ n \in DOMAIN sent /\ sent[n] <= HighestSent
               /\ \A k \in DOMAIN sent : sent[k] = sent[n] => k <= n
        <2>1. PICK seq \in numbers : n = Latest(seq) /\ n # 0
              OBVIOUS
        <2>2. seq \in Nat /\ seq <= HighestSent
              BY <1>2
        <2> QED BY <2>1, <2>2, LatestIs
  <1> HIDE DEF again
  <1>4. OutInv'
        BY <1>1, <1>3 DEF OutInv
  <1>5. ASSUME NEW packet \in net' PROVE Known(packet)'
        <2>1. CASE packet \in flying
              BY <2>1, <1>1 DEF NetInv, Known
        <2>2. CASE \E n \in again : packet = Data(n)
              BY <2>2, <1>1 DEF Known, Data
        <2> QED BY <2>1, <2>2, <1>1
  <1> QED BY <1>1, <1>4, <1>5 DEF NetInv

LEMMA NewestIsPart == ASSUME NEW S, NEW max PROVE Newest(S, max) \subseteq S
BY DEF Newest

\* What the sender does leaves the receiver's log as it is.
LEMMA ReceiverKept ==
  ASSUME LogInv, OutInv, ReceiverInv, out \subseteq out',
         UNCHANGED <<stored, last_received, app>>,
         \A n \in DOMAIN sent : n \in DOMAIN sent' /\ sent'[n] = sent[n]
  PROVE  ReceiverInv'
  <1>1. \A i \in DOMAIN stored : stored[i] \in DOMAIN sent
        BY DEF OutInv, ReceiverInv
  <1>2. StoredNumbers' = StoredNumbers
        BY <1>1 DEF StoredNumbers
  <1>3. OneStoredPerNumber'
        BY <1>1 DEF ReceiverInv, OneStoredPerNumber
  <1>4. app.at = "ack" =>
            app'.message \in out' /\ (app'.new => sent'[app'.message] \in StoredNumbers')
        BY <1>2 DEF ReceiverInv, OutInv
  <1> QED BY <1>2, <1>3, <1>4 DEF ReceiverInv

-----------------------------------------------------------------------------
(* The thread of the user interface.                                       *)

\* save_record appends a number above all that were recorded.
LEMMA SaveStep ==
  ASSUME IInv, Save
  PROVE  IInv'
  <1> DEFINE new == HighestSent + 1
  <1>0. /\ sent' = Append(sent, new) /\ last_sent' = HighestSent
        /\ gui' = [Idle EXCEPT !.at = "saved"]
        /\ UNCHANGED <<unacked_cache, reader, receiver, net, out>>
        BY DEF Save
  <1>1. /\ HighestSent \in Nat
        /\ last_sent > 0 => HighestSent = last_sent
        /\ last_sent = 0 => \A n \in DOMAIN sent : sent[n] <= HighestSent
        BY HighestSentIs DEF IInv
  <1>2. /\ sent' \in Seq(Nat \ {0}) /\ Len(sent') = Len(sent) + 1 /\ Len(sent) \in Nat
        /\ DOMAIN sent' = DOMAIN sent \cup {Len(sent')} /\ Len(sent') \notin DOMAIN sent
        /\ \A n \in DOMAIN sent : n \in Nat /\ n < Len(sent') /\ sent'[n] = sent[n]
        /\ sent'[Len(sent')] = new
        BY <1>0, <1>1 DEF IInv, LogInv
  <1>3. LogInv'
        <2>1. SentNumbers' \cup {0} = (SentNumbers \cup {0}) \cup {new}
              BY <1>2 DEF SentNumbers
        <2>2. HasMax(SentNumbers' \cup {0})
              <3>1. SentNumbers \cup {0} \in SUBSET Nat /\ HasMax(SentNumbers \cup {0})
                    BY DEF IInv, LogInv, SentNumbers
              <3> QED BY <2>1, <3>1, <1>1, HasMaxWith
        <2>3. ASSUME NEW seq \in Nat PROVE HasMax(Places(seq)' \cup {0})
              <3>1. /\ Places(seq) \cup {0} \in SUBSET Nat
                    /\ HasMax(Places(seq) \cup {0})
                    BY <1>2 DEF IInv, LogInv, Places
              <3>2. CASE seq = new
                    <4>1. Places(seq)' \cup {0} = (Places(seq) \cup {0}) \cup {Len(sent')}
                          BY <1>2, <3>2 DEF Places
                    <4> QED BY <4>1, <3>1, <1>2, HasMaxWith
              <3>3. CASE seq # new
                    <4>1. Places(seq)' = Places(seq)
                          BY <1>2, <3>3 DEF Places
                    <4> QED BY <4>1, <3>1
              <3> QED BY <3>2, <3>3
        <2> QED BY <1>0, <1>1, <1>2, <2>2, <2>3 DEF LogInv
  \* the number is recorded later, or is the first one
  <1>4. HighestSent' \in {HighestSent, new} /\ HighestSent' >= HighestSent
        <2>1. CASE HighestSent > 0
              BY <1>0, <1>1, <2>1 DEF HighestSent
        <2>2. CASE HighestSent = 0
              <3>1. DOMAIN sent = {}
                    BY <1>1, <2>2 DEF IInv, LogInv
              <3>2. SentNumbers' = {new}
                    BY <3>1, <1>2 DEF SentNumbers
              <3>3. HighestOf(SentNumbers') \in {new, 0}
                    BY <3>2, <1>1, <1>3, HighestOfIs DEF LogInv
              <3>4. last_sent' = 0
                    BY <1>0, <2>2
              <3>5. HighestSent' = HighestOf(SentNumbers')
                    BY <3>4 DEF HighestSent, SentNumbers
              <3> QED BY <3>3, <3>5, <2>2
        <2> QED BY <2>1, <2>2, <1>1
  <1>5. OutInv'
        <2>1. \A n \in out : n \in DOMAIN sent /\ sent[n] \in Nat /\ sent[n] <= HighestSent
              BY DEF IInv, OutInv, LogInv
        <2>2. ASSUME NEW m \in out', NEW k \in DOMAIN sent', sent'[k] = sent'[m]
              PROVE  k <= m
              BY <1>0, <1>1, <1>2, <2>1, <2>2 DEF IInv, OutInv, receiver
        <2> QED BY <1>0, <1>1, <1>2, <1>4, <2>1, <2>2 DEF OutInv
  <1>6. GuiInv'
        BY <1>0, <1>1, <1>2, <1>4 DEF GuiInv, Idle
  <1>7. NumbersInv' /\ NetInv'
        <2>1. 0 .. HighestSent \subseteq 0 .. HighestSent'
              BY <1>1, <1>4
        <2>2. NumbersInv'
              BY <1>0, <2>1 DEF IInv, NumbersInv, ReaderType, Idle
        <2>3. NetInv'
              BY <1>0, <2>1 DEF IInv, NetInv, Known
        <2> QED BY <2>2, <2>3
  <1>8. ReceiverInv'
        BY <1>0, <1>2, ReceiverKept DEF IInv, receiver
  <1> QED BY <1>3, <1>5, <1>6, <1>7, <1>8 DEF IInv

\* The rest of save_record records the number.
LEMMA RecordStep ==
  ASSUME IInv, Record
  PROVE  IInv'
  <1> DEFINE top == sent[Len(sent)]
  <1>0. /\ last_sent' = Max({last_sent, top}) /\ gui' = [Idle EXCEPT !.at = "recorded"]
        /\ UNCHANGED <<sent, unacked_cache, reader, receiver, net, out>>
        /\ sent # <<>> /\ top >= HighestSent
        BY DEF Record, IInv, GuiInv
  <1>1. HighestSent \in Nat /\ (last_sent > 0 => HighestSent = last_sent)
        BY HighestSentIs DEF IInv
  <1>2. top \in Nat /\ top > 0 /\ last_sent \in Nat
        BY <1>0 DEF IInv, LogInv
  <1>3. last_sent' \in Nat /\ last_sent' >= last_sent /\ last_sent' >= top
        BY <1>0, <1>2, MaxOfTwo
  <1>4. HighestSent' = last_sent' /\ HighestSent' >= HighestSent /\ top <= HighestSent'
        BY <1>0, <1>1, <1>2, <1>3 DEF HighestSent
  <1>5. LogInv'
        BY <1>0, <1>3 DEF IInv, LogInv, SentNumbers, Places
  <1>6. OutInv'
        <2>1. \A n \in out : sent[n] \in Nat /\ sent[n] <= HighestSent
              BY DEF IInv, OutInv, LogInv
        <2> QED BY <1>0, <1>1, <1>3, <1>4, <2>1 DEF IInv, OutInv
  <1>7. GuiInv'
        BY <1>0, <1>4 DEF GuiInv, Idle
  <1>8. NumbersInv' /\ NetInv'
        <2>1. 0 .. HighestSent \subseteq 0 .. HighestSent'
              BY <1>1, <1>3, <1>4
        <2> QED BY <1>0, <2>1 DEF IInv, NumbersInv, ReaderType, NetInv, Known, Idle
  <1>9. ReceiverInv'
        BY <1>0, ReceiverKept DEF IInv, receiver
  <1> QED BY <1>5, <1>6, <1>7, <1>8, <1>9 DEF IInv

\* The sender's log is left alone, and only messages on the network are added.
LEMMA LogUnchanged ==
  ASSUME IInv, sent' = sent, last_sent' \in {last_sent, HighestSent},
         gui' = gui \/ gui'.at \notin {"saved", "recorded"},
         UNCHANGED <<receiver, out>>
  PROVE  LogInv' /\ HighestSent' = HighestSent /\ OutInv' /\ GuiInv' /\ ReceiverInv'
  <1>1. LogInv' /\ HighestSent' = HighestSent
        BY HighestKept DEF IInv
  <1>2. OutInv' /\ GuiInv'
        BY <1>1 DEF IInv, OutInv, GuiInv
  <1>3. ReceiverInv'
        BY ReceiverKept DEF IInv, receiver
  <1> QED BY <1>1, <1>2, <1>3

LEMMA TransmitStep ==
  ASSUME IInv, Transmit
  PROVE  IInv'
  <1> DEFINE n == Len(sent)
  <1>0. /\ net' = net \cup {Data(n)} /\ out' = out \cup {n}
        /\ unacked_cache' = NotCached /\ gui' = [Idle EXCEPT !.at = "load"]
        /\ UNCHANGED <<sent, last_sent, reader, receiver>>
        /\ sent # <<>> /\ sent[n] <= HighestSent
        BY DEF Transmit, senderStore, IInv, GuiInv
  <1>1. LogInv' /\ HighestSent' = HighestSent /\ HighestSent \in Nat
        BY <1>0, HighestKept, HighestSentIs DEF IInv
  <1>2. n \in DOMAIN sent /\ \A k \in DOMAIN sent : k <= n
        BY <1>0 DEF IInv, LogInv
  <1>3. OutInv'
        BY <1>0, <1>1, <1>2 DEF IInv, OutInv
  <1>4. GuiInv' /\ NumbersInv'
        BY <1>0, <1>1 DEF IInv, GuiInv, NumbersInv, ReaderType, NotCached, Idle
  <1>5. NetInv'
        BY <1>0, <1>1 DEF IInv, NetInv, Known, Data
  <1>6. ReceiverInv'
        BY <1>0, ReceiverKept DEF IInv, receiver
  <1> QED BY <1>1, <1>3, <1>4, <1>5, <1>6 DEF IInv

LEMMA ReloadStep ==
  ASSUME IInv, Reload \/ Add
  PROVE  IInv'
  <1>0. /\ last_sent' \in {last_sent, HighestSent}
        /\ UNCHANGED <<sent, reader, receiver, net, out>>
        /\ gui'.at \notin {"saved", "recorded"}
        /\ gui'.found \in {Unacked, {}}
        /\ unacked_cache' \in {unacked_cache, gui.found}
        BY DEF Reload, Add, senderStore, Idle
  <1>1. LogInv' /\ HighestSent' = HighestSent /\ OutInv' /\ GuiInv' /\ ReceiverInv'
        BY <1>0, LogUnchanged
  <1>2. HighestSent \in Nat
        BY HighestSentIs DEF IInv
  <1>3. NumbersInv'
        BY <1>0, <1>1, <1>2 DEF IInv, NumbersInv, ReaderType, Unacked
  <1>4. NetInv'
        BY <1>0, <1>1 DEF IInv, NetInv, Known
  <1> QED BY <1>1, <1>3, <1>4 DEF IInv

-----------------------------------------------------------------------------
(* The thread that handles packets on the sender.                          *)

LEMMA WaitingType ==
  /\ Waiting \in ReaderType
  /\ [Waiting EXCEPT !.at = "load"] \in ReaderType
  /\ [Waiting EXCEPT !.at = "eager"] \in ReaderType
  /\ [Waiting EXCEPT !.at = "load", !.push = FALSE] \in ReaderType
  <1>1. Waiting \in ReaderType
        BY DEF Waiting, ReaderType
  <1> QED BY <1>1 DEF ReaderType

\* The steps that change neither the log nor what was transmitted.
LEMMA QuietStep ==
  ASSUME IInv, sent' = sent, last_sent' \in {last_sent, HighestSent},
         gui' \in {gui, Idle}, unacked_cache' \in SUBSET (0 .. HighestSent),
         reader' \in ReaderType, UNCHANGED <<receiver, out>>, net' \subseteq net
  PROVE  IInv'
  <1>1. LogInv' /\ HighestSent' = HighestSent /\ OutInv' /\ GuiInv' /\ ReceiverInv'
        BY LogUnchanged DEF Idle
  <1>2. HighestSent \in Nat
        BY HighestSentIs DEF IInv
  <1>3. NumbersInv'
        BY <1>1, <1>2 DEF IInv, NumbersInv, Idle, ReaderType
  <1>4. NetInv'
        BY <1>1 DEF IInv, NetInv, Known
  <1> QED BY <1>1, <1>3, <1>4 DEF IInv

LEMMA ReaderQuietStep ==
  ASSUME IInv, Poll \/ Eager \/ (\E n \in Messages : HandleAck(n))
  PROVE  IInv'
  <1>1. /\ UNCHANGED <<sent, last_sent, gui, receiver, out>> /\ net' \subseteq net
        /\ unacked_cache' \in {unacked_cache, NotCached}
        BY DEF Poll, Eager, HandleAck, senderStore
  <1>3. unacked_cache' \in SUBSET (0 .. HighestSent)
        BY <1>1, HighestSentIs DEF IInv, NumbersInv, NotCached
  <1>2. reader' \in ReaderType
        <2>1. reader \in ReaderType
              BY DEF IInv, NumbersInv, ReaderType
        <2> QED BY <2>1, WaitingType DEF Poll, Eager, HandleAck
  <1> QED BY <1>1, <1>2, <1>3, QuietStep

\* After numbers were resent.
LEMMA ResentStep ==
  ASSUME IInv, sent' = sent, last_sent' \in {last_sent, HighestSent}, gui' = gui,
         unacked_cache' \in SUBSET (0 .. HighestSent), reader' \in ReaderType,
         UNCHANGED receiver,
         NEW numbers \in SUBSET (0 .. HighestSent), NEW flying \in SUBSET net,
         Resend(numbers, flying)
  PROVE  IInv'
  <1>1. LogInv' /\ HighestSent' = HighestSent
        BY HighestKept DEF IInv
  <1>2. OutInv' /\ NetInv' /\ out \subseteq out'
        BY <1>1, ResendKeeps DEF IInv
  <1>3. GuiInv' /\ NumbersInv'
        BY <1>1 DEF IInv, GuiInv, NumbersInv, ReaderType
  <1>4. ReceiverInv'
        BY <1>2, ReceiverKept DEF IInv, receiver
  <1> QED BY <1>1, <1>2, <1>3, <1>4 DEF IInv

LEMMA HandleRequestStep ==
  ASSUME IInv, NEW r \in net, HandleRequest(r)
  PROVE  IInv'
  <1> DEFINE asked == (r.last + 1 .. HighestSent) \cup r.missing
  <1>0. /\ Resend(Newest(asked, MAX_RESEND), net \ {r})
        /\ r.last \in Nat /\ r.missing \subseteq 0 .. HighestSent
        /\ last_sent' = HighestSent /\ reader' = [Waiting EXCEPT !.at = "eager"]
        /\ UNCHANGED <<sent, unacked_cache, gui, receiver>>
        BY DEF HandleRequest, IInv, NetInv, Known
  <1>1. HighestSent \in Nat
        BY HighestSentIs DEF IInv
  <1>2. asked \subseteq 0 .. HighestSent
        BY <1>0, <1>1
  <1>3. Newest(asked, MAX_RESEND) \in SUBSET (0 .. HighestSent)
        BY <1>2, NewestIsPart
  <1>4. reader' \in ReaderType
        BY <1>0, WaitingType
  <1>5. unacked_cache' \in SUBSET (0 .. HighestSent)
        BY <1>0 DEF IInv, NumbersInv, ReaderType
  <1> QED BY <1>0, <1>3, <1>4, <1>5, ResentStep

\* resend_unacked, or on to the eager call.
LEMMA PushStep ==
  ASSUME IInv, sent' = sent, last_sent' \in {last_sent, HighestSent}, gui' = gui,
         unacked_cache' \in SUBSET (0 .. HighestSent), UNCHANGED receiver,
         NEW found \in SUBSET (0 .. HighestSent), Push(found)
  PROVE  IInv'
  <1>1. CASE reader.push
        <2>1. Resend(Newest(found, MAX_SEND), net) /\ reader' = Waiting
              BY <1>1 DEF Push
        <2>2. Newest(found, MAX_SEND) \in SUBSET (0 .. HighestSent)
              BY NewestIsPart
        <2> QED BY <2>1, <2>2, WaitingType, ResentStep
  <1>2. CASE ~ reader.push
        <2>1. reader' = [Waiting EXCEPT !.at = "eager"] /\ UNCHANGED <<net, out>>
              BY <1>2 DEF Push
        <2> QED BY <2>1, WaitingType, QuietStep
  <1> QED BY <1>1, <1>2

LEMMA GetUnackedStep ==
  ASSUME IInv, GetUnacked \/ AddUnacked
  PROVE  IInv'
  <1>1. /\ sent' = sent /\ last_sent' \in {last_sent, HighestSent} /\ gui' = gui
        /\ UNCHANGED receiver
        BY DEF GetUnacked, AddUnacked, senderStore
  <1>2. /\ unacked_cache \in SUBSET (0 .. HighestSent)
        /\ reader.found \in SUBSET (0 .. HighestSent)
        BY DEF IInv, NumbersInv, ReaderType
  <1>3. CASE /\ GetUnacked /\ unacked_cache' = unacked_cache
             /\ reader' = [reader EXCEPT !.at = "add", !.found = Unacked]
             /\ UNCHANGED <<net, out>>
        <2>1. Unacked \in SUBSET (0 .. HighestSent)
              BY HighestSentIs DEF IInv, Unacked
        <2>2. reader' \in ReaderType
              BY <1>3, <2>1 DEF IInv, NumbersInv, ReaderType
        <2> QED BY <1>1, <1>2, <1>3, <2>2, QuietStep
  <1>4. CASE unacked_cache' = unacked_cache /\ Push(unacked_cache \ NotCached)
        <2>1. unacked_cache \ NotCached \in SUBSET (0 .. HighestSent)
              BY <1>2
        <2> QED BY <1>1, <1>2, <1>4, <2>1, PushStep
  <1>5. CASE unacked_cache' = reader.found /\ Push(reader.found)
        BY <1>1, <1>2, <1>5, PushStep
  <1> QED BY <1>3, <1>4, <1>5 DEF GetUnacked, AddUnacked

-----------------------------------------------------------------------------
(* The receiver.                                                           *)

\* The steps of the receiver leave the sender's side as it is.
LEMMA SenderKept ==
  ASSUME IInv, UNCHANGED <<senderStore, senderMemory, out>>
  PROVE  /\ LogInv' /\ OutInv' /\ GuiInv' /\ NumbersInv'
         /\ HighestSent' = HighestSent /\ HighestSent \in Nat
  <1>1. LogInv' /\ HighestSent' = HighestSent /\ HighestSent \in Nat
        BY HighestKept, HighestSentIs DEF IInv, senderStore
  <1> QED BY <1>1 DEF IInv, senderStore, senderMemory, OutInv, GuiInv, NumbersInv, ReaderType

\* highest_seq_value, for the received.
LEMMA HighestReceivedIs ==
  ASSUME IInv
  PROVE  /\ HighestReceived \in StoredNumbers \cup {0}
         /\ StoredNumbers \subseteq 1 .. HighestSent
         /\ HighestReceived \in 0 .. HighestSent
  <1>1. HighestSent \in Nat
        BY HighestSentIs DEF IInv
  <1>2. StoredNumbers \subseteq 1 .. HighestSent
        BY <1>1 DEF IInv, StoredNumbers, ReceiverInv, OutInv, LogInv
  <1>3. StoredNumbers \in SUBSET Nat /\ HasMax(StoredNumbers \cup {0})
        BY <1>1, <1>2 DEF IInv, ReceiverInv
  <1>4. HighestOf(StoredNumbers) \in StoredNumbers \cup {0}
        BY <1>3, HighestOfIs
  <1>5. HighestReceived \in StoredNumbers \cup {0}
        BY <1>4 DEF HighestReceived, IInv, ReceiverInv
  <1> QED BY <1>1, <1>2, <1>5

\* get_missing: what was_received denies is not in the log.
LEMMA MissingIs ==
  ASSUME IInv
  PROVE  /\ Missing \cap StoredNumbers = {}
         /\ Missing \subseteq 0 .. HighestSent
  <1>1. HighestReceived \in 0 .. HighestSent /\ HighestSent \in Nat
        BY HighestReceivedIs, HighestSentIs DEF IInv
  <1>2. Missing \subseteq 0 .. HighestSent
        BY <1>1 DEF Missing
  <1>3. ASSUME NEW seq \in Missing PROVE seq \notin StoredNumbers
        BY DEF Missing, WasReceived
  <1> QED BY <1>2, <1>3

LEMMA SendRequestIs ==
  ASSUME IInv, SendRequest
  PROVE  /\ last_received' \in StoredNumbers \cup {0}
         /\ \A packet \in net' \ net :
               /\ packet.kind = "request"
               /\ packet.missing \subseteq 0 .. HighestSent
               /\ packet.missing \cap StoredNumbers = {}
               /\ packet.last \in StoredNumbers /\ packet.last \in Nat
  <1>1. last_received' = HighestReceived
        BY DEF SendRequest
  <1>2. ASSUME NEW packet \in net' \ net
        PROVE  packet = Request(HighestReceived, Missing) /\ HighestReceived > 0
        BY DEF SendRequest
  <1>3. /\ HighestReceived \in StoredNumbers \cup {0}
        /\ HighestReceived \in Nat
        BY HighestReceivedIs, HighestSentIs DEF IInv
  <1>4. ASSUME NEW packet \in net' \ net
        PROVE  /\ packet.kind = "request"
               /\ packet.missing = Missing /\ packet.last = HighestReceived
               /\ HighestReceived > 0
        BY <1>2 DEF Request
  <1> QED BY <1>1, <1>3, <1>4, MissingIs

\* The steps of the receiver that do not change its log.
LEMMA ReceiverStep ==
  ASSUME IInv, UNCHANGED <<senderStore, senderMemory, stored, out>>,
         last_received' \in StoredNumbers \cup {0},
         app' = app \/ app'.at # "ack",
         \A packet \in net' : packet \in net \/ Known(packet)
  PROVE  IInv'
  <1>1. /\ LogInv' /\ OutInv' /\ GuiInv' /\ NumbersInv'
        /\ HighestSent' = HighestSent
        BY SenderKept
  <1>2. NetInv'
        BY <1>1 DEF IInv, NetInv, Known
  <1>3. sent' = sent /\ stored' = stored /\ out' = out /\ StoredNumbers' = StoredNumbers
        BY DEF senderStore, StoredNumbers
  <1>4. ReceiverInv'
        BY <1>3 DEF IInv, ReceiverInv, OneStoredPerNumber
  <1> QED BY <1>1, <1>2, <1>4 DEF IInv

LEMMA SendRequestStep ==
  ASSUME IInv, PollReceiver \/ EagerRequest
  PROVE  IInv'
  <1>1. UNCHANGED <<senderStore, senderMemory, stored, out>>
        BY DEF PollReceiver, EagerRequest
  <1>2. app' = app \/ app'.at # "ack"
        BY DEF PollReceiver, EagerRequest, Resting
  <1>3. last_received \in StoredNumbers \cup {0}
        BY DEF IInv, ReceiverInv
  <1>4. CASE SendRequest
        <2>1. \A packet \in net' : packet \in net \/ Known(packet)
              BY <1>4, SendRequestIs DEF Known
        <2> QED BY <1>1, <1>2, <1>4, <2>1, SendRequestIs, ReceiverStep
  <1>5. CASE UNCHANGED <<net, last_received>>
        BY <1>1, <1>2, <1>3, <1>5, ReceiverStep
  <1> QED BY <1>4, <1>5 DEF PollReceiver, EagerRequest

LEMMA ReceiverQuietStep ==
  ASSUME IInv,
         \/ ReceiveOther \/ CrashReceiver
         \/ \E n \in Messages : ReceiveAgain(n)
         \/ \E packet \in net : Lose(packet)
  PROVE  IInv'
  <1>1. UNCHANGED <<senderStore, senderMemory, stored, last_received, out>>
        BY DEF ReceiveOther, CrashReceiver, ReceiveAgain, Lose, receiver
  <1>2. app' = app \/ app'.at # "ack"
        BY DEF ReceiveOther, CrashReceiver, ReceiveAgain, Lose, receiver, Resting
  <1>3. last_received' \in StoredNumbers \cup {0}
        BY <1>1 DEF IInv, ReceiverInv
  <1>4. ASSUME NEW packet \in net' PROVE packet \in net \/ Known(packet)
        BY DEF ReceiveOther, CrashReceiver, ReceiveAgain, Lose, Ack, Known
  <1> QED BY <1>1, <1>2, <1>3, <1>4, ReceiverStep

\* A message is stored only when its number is not in the log, whatever the
\* cache says.
LEMMA ReceiveStep ==
  ASSUME IInv, NEW n \in Messages, Receive(n)
  PROVE  IInv'
  <1> DEFINE saved == app'.new
  <1>1. /\ UNCHANGED <<senderStore, senderMemory, last_received, out>> /\ net' \subseteq net
        /\ app' = [at |-> "ack", message |-> n, new |-> saved]
        /\ Data(n) \in net
        /\ saved => sent[n] \notin StoredNumbers
        /\ stored' = IF saved THEN Append(stored, n) ELSE stored
        BY DEF Receive, WasReceived
  <1> HIDE DEF saved
  <1>2. /\ LogInv' /\ OutInv' /\ GuiInv' /\ NumbersInv'
        /\ HighestSent' = HighestSent /\ sent' = sent /\ out' = out
        BY <1>1, SenderKept DEF senderStore
  <1>3. NetInv'
        BY <1>1, <1>2 DEF IInv, NetInv, Known
  <1>4. n \in out /\ n \in DOMAIN sent /\ n \in Nat /\ sent[n] \in Nat
        BY <1>1 DEF IInv, NetInv, Known, Data, OutInv, LogInv
  <1>5. ReceiverInv'
        <2>1. CASE ~ saved
              <3>1. stored' = stored /\ StoredNumbers' = StoredNumbers
                    BY <1>1, <1>2, <2>1 DEF StoredNumbers
              <3> QED BY <3>1, <1>1, <1>2, <1>4, <2>1
                      DEF IInv, ReceiverInv, OneStoredPerNumber
        <2>2. CASE saved
              <3>1. /\ stored' \in Seq(Nat) /\ Len(stored) \in Nat
                    /\ DOMAIN stored' = DOMAIN stored \cup {Len(stored) + 1}
                    /\ Len(stored) + 1 \notin DOMAIN stored
                    /\ \A i \in DOMAIN stored : stored'[i] = stored[i]
                    /\ stored'[Len(stored) + 1] = n
                    BY <1>1, <1>4, <2>2 DEF IInv, ReceiverInv
              <3>2. StoredNumbers' = StoredNumbers \cup {sent[n]}
                    BY <3>1, <1>2 DEF StoredNumbers
              <3>3. HasMax(StoredNumbers' \cup {0})
                    <4>1. StoredNumbers \cup {0} \in SUBSET Nat
                          BY HighestReceivedIs, HighestSentIs DEF IInv
                    <4>2. HasMax((StoredNumbers \cup {0}) \cup {sent[n]})
                          BY <4>1, <1>4, HasMaxWith DEF IInv, ReceiverInv
                    <4>3. StoredNumbers' \cup {0} = (StoredNumbers \cup {0}) \cup {sent[n]}
                          BY <3>2
                    <4> QED BY <4>2, <4>3
              <3>4. \A i \in DOMAIN stored : sent[stored[i]] # sent[n]
                    BY <1>1, <2>2 DEF StoredNumbers
              <3>5. OneStoredPerNumber'
                    BY <3>1, <3>4, <1>2 DEF IInv, ReceiverInv, OneStoredPerNumber
              <3>6. /\ \A i \in DOMAIN stored' : stored'[i] \in out'
                    /\ last_received' \in StoredNumbers' \cup {0}
                    /\ app'.message \in out' /\ sent'[app'.message] \in StoredNumbers'
                    BY <3>1, <3>2, <1>1, <1>2, <1>4 DEF IInv, ReceiverInv
              <3> QED BY <3>1, <3>3, <3>5, <3>6 DEF ReceiverInv
        <2> QED BY <2>1, <2>2
  <1> QED BY <1>2, <1>3, <1>5 DEF IInv

LEMMA AcknowledgeStep ==
  ASSUME IInv, Acknowledge
  PROVE  IInv'
  <1>1. /\ UNCHANGED <<senderStore, senderMemory, stored, out>>
        /\ net' = net \cup {Ack(app.message)} /\ app'.at = "eager"
        /\ last_received' = IF app.new THEN Max({last_received, sent[app.message]})
                            ELSE last_received
        /\ app.new => sent[app.message] \in StoredNumbers
        BY DEF Acknowledge, Resting, IInv, ReceiverInv
  <1>2. last_received \in StoredNumbers \cup {0} /\ StoredNumbers \subseteq Nat
        BY HighestReceivedIs, HighestSentIs DEF IInv, ReceiverInv
  <1>3. last_received' \in StoredNumbers \cup {0}
        <2>1. CASE app.new
              <3>1. Max({last_received, sent[app.message]})
                        \in {last_received, sent[app.message]}
                    BY <1>1, <1>2, <2>1, MaxOfTwo
              <3> QED BY <3>1, <1>1, <1>2, <2>1
        <2>2. CASE ~ app.new
              BY <1>1, <1>2, <2>2
        <2> QED BY <2>1, <2>2
  <1>4. \A packet \in net' : packet \in net \/ Known(packet)
        BY <1>1 DEF Known, Ack
  <1> QED BY <1>1, <1>3, <1>4, ReceiverStep

LEMMA OtherStep ==
  ASSUME IInv, HalfMinute \/ CrashSender
  PROVE  IInv'
  <1>1. /\ UNCHANGED <<sent, last_sent, receiver, net, out>> /\ gui' \in {gui, Idle}
        /\ unacked_cache' \in {unacked_cache, NotCached} /\ reader' \in {reader, Waiting}
        BY DEF HalfMinute, CrashSender, senderStore
  <1>2. unacked_cache' \in SUBSET (0 .. HighestSent) /\ reader' \in ReaderType
        BY <1>1, WaitingType, HighestSentIs DEF IInv, NumbersInv, NotCached
  <1> QED BY <1>1, <1>2, QuietStep

-----------------------------------------------------------------------------
(* The inductive invariant, and what follows from it.                      *)

LEMMA InitIInv == Init => IInv
  <1> SUFFICES ASSUME Init PROVE IInv
      OBVIOUS
  <1>1. EXCHANGED \in Nat
        BY ChatAssumption
  <1>2. /\ sent = [n \in 1 .. EXCHANGED |-> n] /\ last_sent = EXCHANGED /\ stored = sent
        /\ last_received = EXCHANGED /\ out = 1 .. EXCHANGED /\ net = {}
        /\ unacked_cache = {0} /\ gui = Idle /\ reader = Waiting /\ app.at = "idle"
        BY DEF Init, NotCached, Resting
  <1>3. /\ sent \in Seq(Nat \ {0}) /\ DOMAIN sent = 1 .. EXCHANGED
        /\ \A n \in 1 .. EXCHANGED : sent[n] = n
        BY <1>1, <1>2
  <1>4. SentNumbers = 1 .. EXCHANGED /\ StoredNumbers = 1 .. EXCHANGED
        BY <1>1, <1>2, <1>3 DEF SentNumbers, StoredNumbers
  <1>5. HasMax((1 .. EXCHANGED) \cup {0})
        BY <1>1 DEF HasMax
  <1>6. ASSUME NEW seq \in Nat PROVE HasMax(Places(seq) \cup {0})
        <2>1. CASE seq \in 1 .. EXCHANGED
              <3>1. Places(seq) = {seq}
                    BY <1>3, <2>1 DEF Places
              <3> QED BY <3>1 DEF HasMax
        <2>2. CASE seq \notin 1 .. EXCHANGED
              <3>1. Places(seq) = {}
                    BY <1>3, <2>2 DEF Places
              <3> QED BY <3>1 DEF HasMax
        <2> QED BY <2>1, <2>2
  <1>7. LogInv
        BY <1>1, <1>2, <1>3, <1>4, <1>5, <1>6 DEF LogInv
  <1>8. HighestSent = EXCHANGED
        <2>1. CASE EXCHANGED > 0
              BY <1>2, <2>1 DEF HighestSent
        <2>2. CASE EXCHANGED = 0
              <3>1. SentNumbers = {}
                    BY <1>4, <2>2
              <3>2. HighestOf({}) = 0
                    BY <1>5, <2>2, HighestOfIs
              <3> QED BY <3>1, <3>2, <1>2, <2>2 DEF HighestSent, SentNumbers
        <2> QED BY <2>1, <2>2, <1>1
  <1>9. OutInv /\ GuiInv /\ NetInv
        BY <1>1, <1>2, <1>3, <1>8 DEF OutInv, GuiInv, NetInv, Idle
  <1>10. NumbersInv
        BY <1>1, <1>2, <1>8, WaitingType DEF NumbersInv, Idle
  <1>11. ReceiverInv
        BY <1>1, <1>2, <1>3, <1>4, <1>5 DEF ReceiverInv, OneStoredPerNumber
  <1> QED BY <1>7, <1>9, <1>10, <1>11 DEF IInv

LEMMA NextIInv == IInv /\ [Next]_vars => IInv'
  <1> SUFFICES ASSUME IInv, [Next]_vars PROVE IInv'
      OBVIOUS
  <1>1. CASE Save
        BY <1>1, SaveStep
  <1>2. CASE Record
        BY <1>2, RecordStep
  <1>3. CASE Transmit
        BY <1>3, TransmitStep
  <1>4. CASE Reload \/ Add
        BY <1>4, ReloadStep
  <1>5. CASE Poll \/ Eager \/ (\E n \in Messages : HandleAck(n))
        BY <1>5, ReaderQuietStep
  <1>6. CASE \E packet \in net : HandleRequest(packet)
        BY <1>6, HandleRequestStep
  <1>7. CASE GetUnacked \/ AddUnacked
        BY <1>7, GetUnackedStep
  <1>8. CASE PollReceiver \/ EagerRequest
        BY <1>8, SendRequestStep
  <1>9. CASE \/ ReceiveOther \/ CrashReceiver
             \/ \E n \in Messages : ReceiveAgain(n)
             \/ \E packet \in net : Lose(packet)
        BY <1>9, ReceiverQuietStep
  <1>10. CASE \E n \in Messages : Receive(n)
        BY <1>10, ReceiveStep
  <1>11. CASE Acknowledge
        BY <1>11, AcknowledgeStep
  <1>12. CASE HalfMinute \/ CrashSender
        BY <1>12, OtherStep
  <1>13. CASE UNCHANGED vars
        <2>1. /\ reader' = reader /\ reader \in ReaderType
              /\ unacked_cache' = unacked_cache
              /\ unacked_cache \in SUBSET (0 .. HighestSent)
              /\ UNCHANGED <<sent, last_sent, gui, receiver, out, net>>
              BY <1>13 DEF vars, senderStore, senderMemory, IInv, NumbersInv
        <2> QED BY <2>1, QuietStep
  <1> QED BY <1>1, <1>2, <1>3, <1>4, <1>5, <1>6, <1>7, <1>8, <1>9, <1>10, <1>11, <1>12, <1>13
          DEF Next, Gui, Reader, App

LEMMA SpecIInv == Spec => []IInv
  BY InitIInv, NextIInv, PTL DEF Spec

\* A sequence number identifies a message: no two messages are transmitted
\* with one number, wherever the sender was killed between logging a message,
\* recording its number and sending it (store.c:1149-1193).
THEOREM NumbersIdentify == Spec => []OneSentPerNumber
  <1>1. IInv => OneSentPerNumber
        <2> SUFFICES ASSUME IInv, NEW m \in out, NEW n \in out, sent[m] = sent[n]
                     PROVE  m = n
            BY DEF OneSentPerNumber
        <2>1. m \in DOMAIN sent /\ n \in DOMAIN sent /\ m \in Nat /\ n \in Nat
              BY DEF IInv, OutInv, LogInv
        <2>2. m <= n /\ n <= m
              BY <2>1 DEF IInv, OutInv
        <2> QED BY <2>1, <2>2
  <1> QED BY <1>1, SpecIInv, PTL

\* The receiver's log has one message for each number, whatever its caches
\* forget and however often a message arrives (xcommon.c:833).
THEOREM NumbersStoredOnce == Spec => []OneStoredPerNumber
  <1>1. IInv => OneStoredPerNumber
        BY DEF IInv, ReceiverInv
  <1> QED BY <1>1, SpecIInv, PTL

\* A request never asks for what is in the log, and reports as received what
\* was (get_missing, message.c:274).
THEOREM MissingIsAskedFor == Spec => AsksForMissing
  <1> DEFINE Asks == \A r \in net' \ net :
                        r.kind = "request" =>
                            r.missing \cap StoredNumbers = {} /\ r.last \in StoredNumbers
  <1>1. IInv /\ [Next]_vars => Asks
        <2> SUFFICES ASSUME IInv, [Next]_vars, NEW r \in net' \ net, r.kind = "request"
                     PROVE  r.missing \cap StoredNumbers = {} /\ r.last \in StoredNumbers
            OBVIOUS
        <2>1. CASE SendRequest
              BY <2>1, SendRequestIs
        <2>2. ASSUME Transmit \/ Acknowledge \/ (\E n \in Messages : ReceiveAgain(n))
              PROVE  FALSE
              <3>1. \E n : r = Data(n) \/ r = Ack(n)
                    BY <2>2 DEF Transmit, Acknowledge, ReceiveAgain
              <3> QED BY <3>1 DEF Data, Ack
        <2>3. ASSUME NEW numbers, NEW flying \in SUBSET net, Resend(numbers, flying)
              PROVE  FALSE
              BY <2>3 DEF Resend, Data
        <2>4. ASSUME NEW found, Push(found)
              PROVE  FALSE
              BY <2>3, <2>4 DEF Push
        <2>5. ASSUME \/ \E packet \in net : HandleRequest(packet)
                     \/ GetUnacked \/ AddUnacked
              PROVE  FALSE
              BY <2>3, <2>4, <2>5 DEF HandleRequest, GetUnacked, AddUnacked
        <2>6. ASSUME net' \subseteq net
              PROVE  FALSE
              BY <2>6
        <2> QED BY <2>1, <2>2, <2>5, <2>6
                DEF Next, Gui, Reader, App, vars, receiver, Save, Record, Reload, Add, Poll,
                    HandleAck, Eager, PollReceiver, EagerRequest, ReceiveOther, Receive,
                    HalfMinute, Lose, CrashSender, CrashReceiver
  <1> QED BY <1>1, SpecIInv, PTL DEF Spec, AsksForMissing
-----------------------------------------------------------------------------
(* Types.  The log has no more than MAX_MESSAGES numbers, and none above   *)
(* that: each is one above the highest that was recorded, which is at most *)
(* the number of messages.                                                 *)

Fits == last_sent <= Len(sent) /\ \A n \in DOMAIN sent : sent[n] <= n

LogTypes ==
    /\ sent \in Seq(Numbers) /\ Len(sent) <= MAX_MESSAGES
    /\ acked \subseteq out /\ out \subseteq DOMAIN sent
    /\ last_sent \in Numbers \cup {0}
MemoryTypes ==
    /\ unacked_cache = NotCached \/ unacked_cache \subseteq Numbers
    /\ recent \subseteq Numbers
    /\ gui.at \in {"idle", "saved", "recorded", "load", "add"} /\ gui.found \subseteq Numbers
    /\ reader.at \in {"idle", "load", "add", "eager"} /\ reader.push \in BOOLEAN
    /\ reader.found \subseteq Numbers
ReceiverTypes ==
    /\ last_received \in Numbers \cup {0}
    /\ rcvd_cache = NotCached \/ rcvd_cache \subseteq Numbers
    /\ stored \in Seq(out) /\ ids \subseteq out
    /\ app.at \in {"idle", "ack", "eager"} /\ app.new \in BOOLEAN
    /\ app.message \in out \cup {0}
PacketType(packet) ==
    \/ packet.kind \in {"data", "ack"} /\ packet.message \in out
    \/ packet.kind = "request" /\ packet.last \in Numbers /\ packet.missing \subseteq Numbers
NetTypes == \A packet \in net : PacketType(packet)

TInv == IInv /\ Fits /\ TypeOK

LEMMA TypeParts ==
  /\ TypeOK <=> /\ LogTypes /\ MemoryTypes /\ ReceiverTypes /\ NetTypes
                /\ crashes \in 0 .. MAX_CRASHES
  /\ (/\ LogTypes' /\ MemoryTypes' /\ ReceiverTypes' /\ NetTypes'
      /\ crashes' \in 0 .. MAX_CRASHES) => TypeOK'
BY DEF TypeOK, LogTypes, MemoryTypes, ReceiverTypes, NetTypes, PacketType

\* What the threads hold when they wait.
LEMMA WaitingTypes ==
  /\ Waiting.at = "idle" /\ Waiting.push = TRUE /\ Waiting.found = {}
  /\ LET eager == [Waiting EXCEPT !.at = "eager"]
     IN  eager.at = "eager" /\ eager.push = TRUE /\ eager.found = {}
  /\ LET load == [Waiting EXCEPT !.at = "load"]
     IN  load.at = "load" /\ load.push = TRUE /\ load.found = {}
  /\ LET load == [Waiting EXCEPT !.at = "load", !.push = FALSE]
     IN  load.at = "load" /\ load.push = FALSE /\ load.found = {}
BY DEF Waiting

LEMMA RestingTypes ==
  /\ Resting.at = "idle" /\ Resting.message = 0 /\ Resting.new \in BOOLEAN
  /\ LET eager == [Resting EXCEPT !.at = "eager"]
     IN  eager.at = "eager" /\ eager.message = 0 /\ eager.new \in BOOLEAN
BY DEF Resting

\* The highest number is at most the number of messages.
LEMMA HighestFits ==
  ASSUME TInv
  PROVE  /\ HighestSent \in Nat /\ HighestSent <= Len(sent) /\ Len(sent) \in Nat
         /\ HighestSent <= MAX_MESSAGES /\ HighestSent \in Numbers \cup {0}
         /\ 1 .. HighestSent \subseteq Numbers
  <1>1. /\ Len(sent) \in Nat /\ DOMAIN sent = 1 .. Len(sent) /\ Len(sent) <= MAX_MESSAGES
        /\ MAX_MESSAGES \in Nat /\ last_sent \in Nat /\ last_sent <= Len(sent)
        /\ \A n \in DOMAIN sent : sent[n] \in Nat /\ sent[n] <= n
        BY ChatAssumption DEF TInv, IInv, LogInv, TypeOK, Fits
  <1>2. HighestSent \in Nat /\ HighestSent <= Len(sent)
    <2>1. CASE last_sent > 0
          BY <1>1, <2>1 DEF HighestSent
    <2>2. CASE ~ last_sent > 0
      <3>1. HighestSent = HighestOf(SentNumbers)
            BY <2>2 DEF HighestSent, SentNumbers
      <3>2. SentNumbers \in SUBSET Nat /\ HasMax(SentNumbers \cup {0})
            BY <1>1 DEF SentNumbers, TInv, IInv, LogInv
      <3>3. HighestOf(SentNumbers) \in Nat /\ HighestOf(SentNumbers) \in SentNumbers \cup {0}
            BY <3>2, HighestOfIs
      <3>4. \A x \in SentNumbers : x <= Len(sent)
            BY <1>1 DEF SentNumbers
      <3> QED BY <1>1, <3>1, <3>3, <3>4
    <2> QED BY <2>1, <2>2
  <1> QED BY <1>1, <1>2 DEF Numbers

\* The steps of the sender that leave the log alone.
LEMMA LogTypesKept ==
  ASSUME TInv, sent' = sent, last_sent' \in {last_sent, HighestSent},
         acked' \subseteq out', out \subseteq out', out' \subseteq DOMAIN sent
  PROVE  LogTypes' /\ Fits'
BY HighestFits DEF TInv, TypeOK, LogTypes, Fits

\* More is transmitted, and the receiver does nothing.
LEMMA ReceiverTypesKept ==
  ASSUME TInv, UNCHANGED receiver, out \subseteq out'
  PROVE  ReceiverTypes'
  <1>1. /\ UNCHANGED <<stored, last_received, rcvd_cache, ids, app>>
        /\ stored \in Seq(out) /\ Seq(out) \subseteq Seq(out')
        BY DEF TInv, TypeOK, receiver
  <1> QED BY <1>1 DEF TInv, TypeOK, ReceiverTypes

LEMMA NetTypesKept ==
  ASSUME TInv, out \subseteq out',
         \A packet \in net' : packet \in net \/ PacketType(packet)'
  PROVE  NetTypes'
BY DEF TInv, TypeOK, NetTypes, PacketType

\* What is resent has a number, and was or is now transmitted.
LEMMA ResendTypes ==
  ASSUME TInv, NEW numbers \in SUBSET Numbers, NEW flying \in SUBSET net,
         Resend(numbers, flying)
  PROVE  /\ out \subseteq out' /\ out' \subseteq DOMAIN sent
         /\ recent' \subseteq Numbers
         /\ \A packet \in net' : packet \in net \/ PacketType(packet)'
  <1> DEFINE again == {Latest(seq) : seq \in numbers \ recent} \ {0}
  <1>1. /\ net' = flying \cup {Data(n) : n \in again}
        /\ out' = out \cup again
        /\ recent' = recent \cup {sent[n] : n \in again}
        BY DEF Resend
  <1>2. again \subseteq DOMAIN sent
    <2>1. Numbers \subseteq Nat
          BY DEF Numbers
    <2> QED BY <2>1, LatestIs DEF TInv, IInv
  <1> HIDE DEF again
  <1>3. \A n \in again : sent[n] \in Numbers
        BY <1>2 DEF TInv, TypeOK
  <1>4. ASSUME NEW packet \in net'
        PROVE  packet \in net \/ PacketType(packet)'
        BY <1>1 DEF PacketType, Data
  <1> QED BY <1>1, <1>2, <1>3, <1>4 DEF TInv, TypeOK

\* What is not acked are numbers.
LEMMA UnackedTypes == ASSUME TInv PROVE Unacked \subseteq Numbers
BY HighestFits DEF Unacked

-----------------------------------------------------------------------------
LEMMA SaveTypes ==
  ASSUME TInv, Save
  PROVE  TypeOK' /\ Fits'
  <1> DEFINE new == HighestSent + 1
  <1>1. /\ sent' = Append(sent, new) /\ last_sent' = HighestSent /\ Len(sent) < MAX_MESSAGES
        /\ gui' = [Idle EXCEPT !.at = "saved"]
        /\ UNCHANGED <<acked, unacked_cache, recent, reader, receiver, net, out, crashes>>
        BY DEF Save
  <1>2. /\ Len(sent) \in Nat /\ HighestSent \in Nat /\ HighestSent <= Len(sent)
        /\ HighestSent \in Numbers \cup {0}
        /\ MAX_MESSAGES \in Nat /\ sent \in Seq(Numbers)
        BY HighestFits, ChatAssumption DEF TInv, TypeOK
  <1>3. new \in Numbers /\ new <= Len(sent) + 1
        BY <1>1, <1>2 DEF Numbers
  <1> HIDE DEF new
  <1>4. /\ sent' \in Seq(Numbers) /\ Len(sent') = Len(sent) + 1
        /\ DOMAIN sent' = 1 .. Len(sent) + 1
        /\ \A n \in 1 .. Len(sent) : sent'[n] = sent[n]
        /\ sent'[Len(sent) + 1] = new
        /\ DOMAIN sent = 1 .. Len(sent)
        BY <1>1, <1>2, <1>3
  <1>5. Fits'
        BY <1>1, <1>2, <1>3, <1>4 DEF TInv, Fits
  <1>6. LogTypes'
        BY <1>1, <1>2, <1>4 DEF TInv, TypeOK, LogTypes
  <1>7. MemoryTypes'
        BY <1>1 DEF TInv, TypeOK, MemoryTypes, Idle
  <1>8. ReceiverTypes' /\ NetTypes'
        BY <1>1, ReceiverTypesKept, NetTypesKept
  <1>9. crashes' \in 0 .. MAX_CRASHES
        BY <1>1 DEF TInv, TypeOK
  <1> QED BY <1>5, <1>6, <1>7, <1>8, <1>9, TypeParts

LEMMA RecordTypes ==
  ASSUME TInv, Record
  PROVE  TypeOK' /\ Fits'
  <1> DEFINE top == sent[Len(sent)]
  <1>1. /\ last_sent' = Max({last_sent, top}) /\ gui' = [Idle EXCEPT !.at = "recorded"]
        /\ UNCHANGED <<sent, acked, unacked_cache, recent, reader, receiver, net, out, crashes>>
        /\ sent # <<>>
        BY DEF Record, TInv, IInv, GuiInv
  <1>2. /\ Len(sent) \in Nat /\ Len(sent) \in DOMAIN sent /\ last_sent \in Nat
        /\ last_sent \in Numbers \cup {0} /\ last_sent <= Len(sent)
        /\ top \in Numbers /\ top \in Nat /\ top <= Len(sent)
    <2>1. /\ sent \in Seq(Numbers) /\ sent # <<>> /\ last_sent \in Nat
          /\ last_sent \in Numbers \cup {0} /\ last_sent <= Len(sent)
          /\ \A n \in DOMAIN sent : sent[n] <= n
          BY <1>1 DEF TInv, IInv, LogInv, TypeOK, Fits
    <2>2. Len(sent) \in Nat /\ Len(sent) \in DOMAIN sent
          BY <2>1
    <2>3. top \in Numbers /\ top <= Len(sent)
          BY <2>1, <2>2
    <2>4. top \in Nat
          BY <2>3 DEF Numbers
    <2> HIDE DEF top
    <2> QED BY <2>1, <2>2, <2>3, <2>4
  <1> HIDE DEF top
  <1>3. last_sent' \in {last_sent, top}
        BY <1>1, <1>2, MaxOfTwo
  <1>4. LogTypes' /\ Fits'
        BY <1>1, <1>2, <1>3 DEF TInv, TypeOK, LogTypes, Fits
  <1>5. MemoryTypes'
        BY <1>1 DEF TInv, TypeOK, MemoryTypes, Idle
  <1>6. ReceiverTypes' /\ NetTypes'
        BY <1>1, ReceiverTypesKept, NetTypesKept
  <1>7. crashes' \in 0 .. MAX_CRASHES
        BY <1>1 DEF TInv, TypeOK
  <1> QED BY <1>4, <1>5, <1>6, <1>7, TypeParts

LEMMA TransmitTypes ==
  ASSUME TInv, Transmit
  PROVE  TypeOK' /\ Fits'
  <1> DEFINE n == Len(sent)
  <1>1. /\ net' = net \cup {Data(n)} /\ out' = out \cup {n}
        /\ unacked_cache' = NotCached /\ gui' = [Idle EXCEPT !.at = "load"]
        /\ UNCHANGED <<sent, acked, last_sent, recent, reader, receiver, crashes>>
        /\ sent # <<>>
        BY DEF Transmit, senderStore, TInv, IInv, GuiInv
  <1>2. n \in DOMAIN sent
        BY <1>1 DEF TInv, IInv, LogInv
  <1> HIDE DEF n
  <1>3. LogTypes' /\ Fits'
        BY <1>1, <1>2, LogTypesKept DEF TInv, TypeOK
  <1>4. MemoryTypes'
        BY <1>1 DEF TInv, TypeOK, MemoryTypes, Idle
  <1>5. \A packet \in net' : packet \in net \/ PacketType(packet)'
        BY <1>1 DEF PacketType, Data
  <1>6. ReceiverTypes' /\ NetTypes'
        BY <1>1, <1>5, ReceiverTypesKept, NetTypesKept
  <1>7. crashes' \in 0 .. MAX_CRASHES
        BY <1>1 DEF TInv, TypeOK
  <1> QED BY <1>3, <1>4, <1>6, <1>7, TypeParts

\* The steps of the sender that transmit nothing and log nothing.
LEMMA QuietTypes ==
  ASSUME TInv, sent' = sent, last_sent' \in {last_sent, HighestSent}, acked' \subseteq out,
         UNCHANGED <<receiver, out>>, net' \subseteq net, MemoryTypes',
         crashes' \in 0 .. MAX_CRASHES
  PROVE  TypeOK' /\ Fits'
  <1>1. LogTypes' /\ Fits'
        BY LogTypesKept DEF TInv, TypeOK
  <1>2. ReceiverTypes' /\ NetTypes'
        BY ReceiverTypesKept, NetTypesKept
  <1> QED BY <1>1, <1>2, TypeParts

LEMMA ReloadTypes ==
  ASSUME TInv, Reload \/ Add
  PROVE  TypeOK' /\ Fits'
  <1>1. /\ sent' = sent /\ last_sent' \in {last_sent, HighestSent} /\ acked' = acked
        /\ UNCHANGED <<recent, reader, receiver, net, out, crashes>>
        BY DEF Reload, Add, senderStore
  <1>2. MemoryTypes'
    <2>1. /\ unacked_cache' \in {unacked_cache, gui.found}
          /\ gui' \in {[at |-> "add", found |-> Unacked], Idle}
          BY DEF Reload, Add
    <2> QED BY <1>1, <2>1, UnackedTypes DEF TInv, TypeOK, MemoryTypes, Idle
  <1> QED BY <1>1, <1>2, QuietTypes DEF TInv, TypeOK

LEMMA ReaderQuietTypes ==
  ASSUME TInv, \/ Poll \/ Eager \/ HalfMinute \/ CrashSender
               \/ \E n \in Messages : HandleAck(n)
  PROVE  TypeOK' /\ Fits'
  <1>1. UNCHANGED <<sent, last_sent, receiver, out>> /\ net' \subseteq net
        BY DEF Poll, Eager, HalfMinute, CrashSender, HandleAck, senderStore
  <1>2. acked' \subseteq out
    <2>1. ASSUME NEW n \in Messages, Ack(n) \in net PROVE n \in out
          BY <2>1 DEF TInv, TypeOK, Ack
    <2> QED BY <2>1 DEF TInv, TypeOK, Poll, Eager, HalfMinute, CrashSender, HandleAck, senderStore
  <1>3. crashes' \in 0 .. MAX_CRASHES
    <2>1. crashes \in 0 .. MAX_CRASHES /\ MAX_CRASHES \in Nat
          BY ChatAssumption DEF TInv, TypeOK
    <2> QED BY <2>1 DEF Poll, Eager, HalfMinute, CrashSender, HandleAck
  <1>4. MemoryTypes'
    <2>1. /\ unacked_cache' \in {unacked_cache, NotCached} /\ recent' \in {recent, {}}
          /\ gui' \in {gui, Idle}
          /\ reader' \in {reader, Waiting, [Waiting EXCEPT !.at = "load"],
                          [Waiting EXCEPT !.at = "eager"],
                          [Waiting EXCEPT !.at = "load", !.push = FALSE]}
          BY DEF Poll, Eager, HalfMinute, CrashSender, HandleAck, senderMemory
    <2>2. MemoryTypes
          BY TypeParts DEF TInv
    <2>3. /\ unacked_cache' = NotCached \/ unacked_cache' \subseteq Numbers
          /\ recent' \subseteq Numbers
          BY <2>1, <2>2 DEF MemoryTypes
    <2>4. /\ gui'.at \in {"idle", "saved", "recorded", "load", "add"}
          /\ gui'.found \subseteq Numbers
          BY <2>1, <2>2 DEF MemoryTypes, Idle
    <2>5. /\ reader'.at \in {"idle", "load", "add", "eager"} /\ reader'.push \in BOOLEAN
          /\ reader'.found \subseteq Numbers
      <3>1. CASE reader' = reader
            BY <2>2, <3>1 DEF MemoryTypes
      <3>2. CASE reader' # reader
            BY <2>1, <3>2, WaitingTypes
      <3> QED BY <3>1, <3>2
    <2> QED BY <2>3, <2>4, <2>5 DEF MemoryTypes
  <1> QED BY <1>1, <1>2, <1>3, <1>4, QuietTypes

\* The steps that resend.
LEMMA ResentTypes ==
  ASSUME TInv, sent' = sent, last_sent' \in {last_sent, HighestSent}, acked' = acked,
         unacked_cache' = NotCached \/ unacked_cache' \subseteq Numbers,
         UNCHANGED <<gui, receiver, crashes>>,
         reader' = Waiting \/ reader' = [Waiting EXCEPT !.at = "eager"],
         NEW numbers \in SUBSET Numbers, NEW flying \in SUBSET net,
         Resend(numbers, flying)
  PROVE  TypeOK' /\ Fits'
  <1>1. /\ out \subseteq out' /\ out' \subseteq DOMAIN sent
        /\ recent' \subseteq Numbers
        /\ \A packet \in net' : packet \in net \/ PacketType(packet)'
        BY ResendTypes
  <1>2. acked' \subseteq out'
        BY <1>1 DEF TInv, TypeOK
  <1>3. LogTypes' /\ Fits'
        BY <1>1, <1>2, LogTypesKept
  <1>4. ReceiverTypes' /\ NetTypes'
        BY <1>1, ReceiverTypesKept, NetTypesKept
  <1>5. MemoryTypes'
    <2>1. MemoryTypes
          BY TypeParts DEF TInv
    <2>2. /\ reader'.at \in {"idle", "load", "add", "eager"} /\ reader'.push \in BOOLEAN
          /\ reader'.found \subseteq Numbers
          BY WaitingTypes
    <2> QED BY <1>1, <2>1, <2>2 DEF MemoryTypes
  <1>6. crashes' \in 0 .. MAX_CRASHES
        BY DEF TInv, TypeOK
  <1> QED BY <1>3, <1>4, <1>5, <1>6, TypeParts

LEMMA HandleRequestTypes ==
  ASSUME TInv, NEW r \in net, HandleRequest(r)
  PROVE  TypeOK' /\ Fits'
  <1> DEFINE asked == (r.last + 1 .. HighestSent) \cup r.missing
  <1>1. /\ Resend(Newest(asked, MAX_RESEND), net \ {r}) /\ r.kind = "request"
        /\ last_sent' = HighestSent /\ reader' = [Waiting EXCEPT !.at = "eager"]
        /\ UNCHANGED <<sent, acked, unacked_cache, gui, receiver, crashes>>
        BY DEF HandleRequest
  <1>2. r.last \in Nat /\ r.missing \subseteq Numbers
        BY <1>1 DEF TInv, TypeOK, Numbers
  <1>3. r.last + 1 .. HighestSent \subseteq Numbers
        BY <1>2, HighestFits DEF Numbers
  <1>4. Newest(asked, MAX_RESEND) \in SUBSET Numbers
        BY <1>2, <1>3, NewestIsPart
  <1>5. unacked_cache = NotCached \/ unacked_cache \subseteq Numbers
        BY DEF TInv, TypeOK
  <1> HIDE DEF asked
  <1> QED BY <1>1, <1>4, <1>5, ResentTypes

LEMMA PushTypes ==
  ASSUME TInv, sent' = sent, last_sent' \in {last_sent, HighestSent}, acked' = acked,
         unacked_cache' = NotCached \/ unacked_cache' \subseteq Numbers,
         UNCHANGED <<gui, receiver, crashes>>,
         NEW found \in SUBSET Numbers, Push(found)
  PROVE  TypeOK' /\ Fits'
  <1>1. CASE reader.push
    <2>1. Resend(Newest(found, MAX_SEND), net) /\ reader' = Waiting
          BY <1>1 DEF Push
    <2>2. Newest(found, MAX_SEND) \in SUBSET Numbers
          BY NewestIsPart
    <2> QED BY <2>1, <2>2, ResentTypes
  <1>2. CASE ~ reader.push
    <2>1. reader' = [Waiting EXCEPT !.at = "eager"] /\ UNCHANGED <<net, out, recent>>
          BY <1>2 DEF Push
    <2>2. MemoryTypes'
          BY <2>1 DEF TInv, TypeOK, MemoryTypes, Waiting
    <2>3. acked' \subseteq out /\ crashes' \in 0 .. MAX_CRASHES
          BY DEF TInv, TypeOK
    <2> QED BY <2>1, <2>2, <2>3, QuietTypes
  <1> QED BY <1>1, <1>2

LEMMA GetUnackedTypes ==
  ASSUME TInv, GetUnacked \/ AddUnacked
  PROVE  TypeOK' /\ Fits'
  <1>1. /\ sent' = sent /\ last_sent' \in {last_sent, HighestSent} /\ acked' = acked
        /\ UNCHANGED <<gui, receiver, crashes>>
        BY DEF GetUnacked, AddUnacked, senderStore
  <1>2. /\ unacked_cache = NotCached \/ unacked_cache \subseteq Numbers
        /\ reader.found \subseteq Numbers /\ acked \subseteq out
        /\ crashes \in 0 .. MAX_CRASHES
        BY DEF TInv, TypeOK
  <1>3. CASE AddUnacked
    <2>1. unacked_cache' = reader.found /\ Push(reader.found)
          BY <1>3 DEF AddUnacked
    <2> QED BY <1>1, <1>2, <2>1, PushTypes
  <1>4. CASE GetUnacked
    <2>1. unacked_cache' = unacked_cache
          BY <1>4 DEF GetUnacked
    <2>2. CASE Push(unacked_cache \ NotCached)
      <3>1. unacked_cache \ NotCached \in SUBSET Numbers
            BY <1>2
      <3> QED BY <1>1, <1>2, <2>1, <2>2, <3>1, PushTypes
    <2>3. CASE /\ reader' = [reader EXCEPT !.at = "add", !.found = Unacked]
               /\ UNCHANGED <<net, out, recent>>
      <3>1. reader \in ReaderType
            BY DEF TInv, IInv, NumbersInv
      <3>2. reader'.at = "add" /\ reader'.push = reader.push /\ reader'.found = Unacked
            BY <2>3, <3>1 DEF ReaderType
      <3>3. MemoryTypes'
            BY <1>1, <2>1, <2>3, <3>2, UnackedTypes DEF TInv, TypeOK, MemoryTypes
      <3> QED BY <1>1, <1>2, <2>3, <3>3, QuietTypes
    <2> QED BY <1>4, <2>2, <2>3 DEF GetUnacked
  <1> QED BY <1>3, <1>4

-----------------------------------------------------------------------------
LEMMA StoredAreNumbers ==
  ASSUME TInv
  PROVE  StoredNumbers \subseteq Numbers
  <1>1. \A i \in DOMAIN stored : stored[i] \in DOMAIN sent
        BY DEF TInv, TypeOK, IInv, ReceiverInv
  <1> QED BY <1>1 DEF TInv, TypeOK, StoredNumbers

LEMMA LoadedTypes ==
  ASSUME TInv
  PROVE  Loaded = NotCached \/ Loaded \subseteq Numbers
BY StoredAreNumbers DEF Loaded, TInv, TypeOK

LEMMA SendRequestTypes ==
  ASSUME TInv, SendRequest
  PROVE  /\ last_received' \in Numbers \cup {0}
         /\ rcvd_cache' = NotCached \/ rcvd_cache' \subseteq Numbers
         /\ \A packet \in net' : packet \in net \/
               /\ packet.kind = "request"
               /\ packet.last \in Numbers /\ packet.missing \subseteq Numbers
  <1>1. last_received' \in Numbers \cup {0}
        BY SendRequestIs, StoredAreNumbers DEF TInv
  <1>2. rcvd_cache' = NotCached \/ rcvd_cache' \subseteq Numbers
        BY LoadedTypes DEF SendRequest, TInv, TypeOK
  <1>3. ASSUME NEW packet \in net' \ net
        PROVE  /\ packet.kind = "request"
               /\ packet.last \in Numbers /\ packet.missing \subseteq Numbers
    <2>1. packet.kind = "request" /\ packet.last \in Numbers
          BY SendRequestIs, StoredAreNumbers DEF TInv
    <2>2. packet.missing = Missing
          BY DEF SendRequest, Request
    <2>3. HighestReceived \in Nat /\ HighestReceived \in Numbers \cup {0}
          BY HighestReceivedIs, HighestSentIs, StoredAreNumbers DEF TInv, IInv, Numbers
    <2>4. 1 .. HighestReceived - 1 \subseteq Numbers
          BY <2>3, ChatAssumption DEF Numbers
    <2> QED BY <2>1, <2>2, <2>4 DEF Missing
  <1> QED BY <1>1, <1>2, <1>3

\* The steps of the receiver.
LEMMA ReceiverStepTypes ==
  ASSUME TInv, UNCHANGED <<senderStore, senderMemory, out>>, ReceiverTypes',
         crashes' \in 0 .. MAX_CRASHES,
         \A packet \in net' : packet \in net \/ PacketType(packet)'
  PROVE  TypeOK' /\ Fits'
  <1>1. UNCHANGED <<sent, acked, last_sent, unacked_cache, recent, gui, reader>>
        BY DEF senderStore, senderMemory
  <1>2. LogTypes' /\ Fits' /\ MemoryTypes'
        BY <1>1 DEF TInv, TypeOK, LogTypes, Fits, MemoryTypes
  <1>3. NetTypes'
        BY NetTypesKept
  <1> QED BY <1>2, <1>3, TypeParts

LEMMA RequestTypes ==
  ASSUME TInv, PollReceiver \/ EagerRequest
  PROVE  TypeOK' /\ Fits'
  <1>1. /\ UNCHANGED <<senderStore, senderMemory, out, stored, ids, crashes>>
        /\ app' \in {app, Resting}
        /\ SendRequest \/ UNCHANGED <<net, last_received, rcvd_cache>>
        BY DEF PollReceiver, EagerRequest
  <1>2. /\ last_received' \in Numbers \cup {0}
        /\ rcvd_cache' = NotCached \/ rcvd_cache' \subseteq Numbers
        BY <1>1, SendRequestTypes DEF TInv, TypeOK
  <1>3. \A packet \in net' : packet \in net \/ PacketType(packet)'
        BY <1>1, SendRequestTypes DEF PacketType
  <1>4. ReceiverTypes'
    <2>1. ReceiverTypes
          BY TypeParts DEF TInv
    <2>2. /\ app'.at \in {"idle", "ack", "eager"} /\ app'.new \in BOOLEAN
          /\ app'.message \in out \cup {0}
          BY <1>1, <2>1, RestingTypes DEF ReceiverTypes
    <2>3. out' = out /\ stored' = stored /\ ids' = ids
          BY <1>1
    <2> QED BY <1>2, <2>1, <2>2, <2>3 DEF ReceiverTypes
  <1>5. crashes' \in 0 .. MAX_CRASHES
        BY <1>1 DEF TInv, TypeOK
  <1> QED BY <1>1, <1>3, <1>4, <1>5, ReceiverStepTypes

LEMMA ReceiverQuietTypes ==
  ASSUME TInv,
         \/ ReceiveOther \/ CrashReceiver
         \/ \E n \in Messages : ReceiveAgain(n)
         \/ \E packet \in net : Lose(packet)
  PROVE  TypeOK' /\ Fits'
  <1>1. /\ UNCHANGED <<senderStore, senderMemory, stored, last_received, out>>
        /\ app' \in {app, Resting} /\ rcvd_cache' \in {rcvd_cache, NotCached}
        /\ ids' \in {ids, {}}
        BY DEF ReceiveOther, CrashReceiver, ReceiveAgain, Lose, receiver
  <1>2. ReceiverTypes'
    <2>1. ReceiverTypes
          BY TypeParts DEF TInv
    <2>2. /\ app'.at \in {"idle", "ack", "eager"} /\ app'.new \in BOOLEAN
          /\ app'.message \in out \cup {0}
          BY <1>1, <2>1, RestingTypes DEF ReceiverTypes
    <2>3. /\ rcvd_cache' = NotCached \/ rcvd_cache' \subseteq Numbers
          /\ ids' \subseteq out
          BY <1>1, <2>1 DEF ReceiverTypes
    <2>4. out' = out /\ stored' = stored /\ last_received' = last_received
          BY <1>1
    <2> QED BY <2>1, <2>2, <2>3, <2>4 DEF ReceiverTypes
  <1>3. crashes' \in 0 .. MAX_CRASHES
    <2>1. crashes \in 0 .. MAX_CRASHES /\ MAX_CRASHES \in Nat
          BY ChatAssumption DEF TInv, TypeOK
    <2> QED BY <2>1 DEF ReceiveOther, CrashReceiver, ReceiveAgain, Lose
  <1>4. ASSUME NEW packet \in net' PROVE packet \in net \/ PacketType(packet)'
    <2>1. packet \in net \/ \E n \in ids : packet = Ack(n)
          BY DEF ReceiveOther, CrashReceiver, ReceiveAgain, Lose
    <2>2. ids \subseteq out'
          BY <1>1 DEF TInv, TypeOK
    <2> QED BY <2>1, <2>2 DEF PacketType, Ack
  <1> QED BY <1>1, <1>2, <1>3, <1>4, ReceiverStepTypes

LEMMA ReceiveTypes ==
  ASSUME TInv, NEW n \in Messages, Receive(n)
  PROVE  TypeOK' /\ Fits'
  <1>1. /\ UNCHANGED <<senderStore, senderMemory, last_received, out, crashes>>
        /\ net' = net \ {Data(n)} /\ Data(n) \in net
        /\ ids' = ids \cup {n} /\ rcvd_cache' = Loaded
        /\ stored' = stored \/ stored' = Append(stored, n)
        /\ \E saved \in BOOLEAN : app' = [at |-> "ack", message |-> n, new |-> saved]
        BY DEF Receive
  <1>2. n \in out
        BY <1>1 DEF TInv, TypeOK, Data
  <1>3. stored' \in Seq(out)
    <2>1. stored \in Seq(out)
          BY DEF TInv, TypeOK
    <2>2. Append(stored, n) \in Seq(out)
          BY <1>2, <2>1
    <2> QED BY <1>1, <2>1, <2>2
  <1>4. ReceiverTypes'
        BY <1>1, <1>2, <1>3, LoadedTypes DEF TInv, TypeOK, ReceiverTypes
  <1>5. crashes' \in 0 .. MAX_CRASHES
        BY <1>1 DEF TInv, TypeOK
  <1> QED BY <1>1, <1>4, <1>5, ReceiverStepTypes

LEMMA AcknowledgeTypes ==
  ASSUME TInv, Acknowledge
  PROVE  TypeOK' /\ Fits'
  <1>1. /\ UNCHANGED <<senderStore, senderMemory, stored, rcvd_cache, ids, out, crashes>>
        /\ net' = net \cup {Ack(app.message)} /\ app' = [Resting EXCEPT !.at = "eager"]
        /\ last_received' = IF app.new THEN Max({last_received, sent[app.message]})
                            ELSE last_received
        /\ app.message \in out
        BY DEF Acknowledge, TInv, IInv, ReceiverInv
  <1>2. /\ last_received \in Numbers \cup {0} /\ sent[app.message] \in Numbers
        /\ Numbers \subseteq Nat
    <2>1. app.message \in DOMAIN sent /\ sent \in Seq(Numbers)
          BY <1>1 DEF TInv, TypeOK
    <2>2. sent[app.message] \in Numbers
          BY <2>1
    <2>3. Numbers \subseteq Nat
          BY DEF Numbers
    <2> QED BY <2>2, <2>3 DEF TInv, TypeOK
  <1>3. last_received' \in {last_received, sent[app.message]}
    <2>1. last_received \in Nat /\ sent[app.message] \in Nat
      <3>1. 0 \in Nat
            OBVIOUS
      <3> QED BY <1>2, <3>1
    <2> QED BY <1>1, <2>1, MaxOfTwo
  <1>4. ReceiverTypes'
        BY <1>1, <1>2, <1>3 DEF TInv, TypeOK, ReceiverTypes, Resting
  <1>5. \A packet \in net' : packet \in net \/ PacketType(packet)'
        BY <1>1 DEF PacketType, Ack
  <1>6. crashes' \in 0 .. MAX_CRASHES
        BY <1>1 DEF TInv, TypeOK
  <1> QED BY <1>1, <1>4, <1>5, <1>6, ReceiverStepTypes

LEMMA InitTypes == Init => TypeOK /\ Fits
  <1> SUFFICES ASSUME Init PROVE TypeOK /\ Fits
      OBVIOUS
  <1>1. EXCHANGED \in Nat /\ MAX_MESSAGES \in Nat /\ EXCHANGED < MAX_MESSAGES
        /\ MAX_CRASHES \in Nat
        BY ChatAssumption
  <1>2. /\ sent = [n \in 1 .. EXCHANGED |-> n] /\ last_sent = EXCHANGED /\ stored = sent
        /\ last_received = EXCHANGED /\ out = 1 .. EXCHANGED /\ acked = 1 .. EXCHANGED
        BY DEF Init
  <1>3. /\ sent \in Seq(Numbers) /\ DOMAIN sent = 1 .. EXCHANGED /\ Len(sent) = EXCHANGED
        /\ stored \in Seq(out) /\ EXCHANGED \in Numbers \cup {0}
        /\ \A n \in DOMAIN sent : sent[n] = n
        BY <1>1, <1>2 DEF Numbers
  <1>4. Fits /\ LogTypes
        BY <1>1, <1>2, <1>3 DEF Fits, LogTypes
  <1>5. MemoryTypes
        BY DEF Init, MemoryTypes, Idle, Waiting
  <1>6. ReceiverTypes
        BY <1>2, <1>3 DEF Init, ReceiverTypes, Resting
  <1>7. NetTypes /\ crashes \in 0 .. MAX_CRASHES
        BY <1>1 DEF Init, NetTypes
  <1> QED BY <1>4, <1>5, <1>6, <1>7, TypeParts

LEMMA NextTInv == TInv /\ [Next]_vars => TInv'
  <1> SUFFICES ASSUME TInv, [Next]_vars PROVE TypeOK' /\ Fits'
      BY NextIInv DEF TInv
  <1>1. CASE Gui
        BY <1>1, SaveTypes, RecordTypes, TransmitTypes, ReloadTypes DEF Gui
  <1>2. CASE \/ Poll \/ Eager \/ HalfMinute \/ CrashSender
             \/ \E n \in Messages : HandleAck(n)
        BY <1>2, ReaderQuietTypes
  <1>3. CASE \E packet \in net : HandleRequest(packet)
        BY <1>3, HandleRequestTypes
  <1>4. CASE GetUnacked \/ AddUnacked
        BY <1>4, GetUnackedTypes
  <1>5. CASE PollReceiver \/ EagerRequest
        BY <1>5, RequestTypes
  <1>6. CASE \/ ReceiveOther \/ CrashReceiver
             \/ \E n \in Messages : ReceiveAgain(n)
             \/ \E packet \in net : Lose(packet)
        BY <1>6, ReceiverQuietTypes
  <1>7. CASE \E n \in Messages : Receive(n)
        BY <1>7, ReceiveTypes
  <1>8. CASE Acknowledge
        BY <1>8, AcknowledgeTypes
  <1>9. CASE UNCHANGED vars
    <2>1. UNCHANGED <<sent, acked, last_sent, unacked_cache, recent, gui, reader, stored,
                      last_received, rcvd_cache, ids, app, net, out, crashes>>
          BY <1>9 DEF vars, senderStore, senderMemory, receiver
    <2> QED BY <2>1 DEF TInv, TypeOK, Fits
  <1> QED BY <1>1, <1>2, <1>3, <1>4, <1>5, <1>6, <1>7, <1>8, <1>9
          DEF Next, Reader, App

\* Every variable has its type, for any number of messages and crashes; in
\* particular what is acked, or stored, was transmitted, and no number is above
\* the number of messages in the log.
THEOREM TypeCorrect == Spec => []TypeOK
  <1>1. Init => TInv
        BY InitIInv, InitTypes DEF TInv
  <1>2. TInv => TypeOK
        BY DEF TInv
  <1> QED BY <1>1, <1>2, NextTInv, PTL DEF Spec
=============================================================================
