-------------------------- MODULE ConnectionsProofs --------------------------
(***************************************************************************)
(* Proofs about the server's connections, for any number of clients and    *)
(* packets.  Order rests on the queue and the batch being one sequence:    *)
(* packets enter it at one end, taken in order, and leave at the other,    *)
(* handled in order.  That a client whose connection has ended is          *)
(* forgotten rests on its CLIENT_CONNECT being its first packet: once it   *)
(* has been handled, the client is never added to connected_clients_       *)
(* again.                                                                  *)
(***************************************************************************)
EXTENDS Connections, SequenceTheorems, TLAPS

USE MaxSentAssumption

\* The main thread is kicking c
Kicks(c) ==
    /\ main.at \in {"notifying", "noticing", "kicking", "kicked", "leaving", "telling", "erasing"}
    /\ main.client = c

\* CLIENT_CONNECT of a client that is known, or being kicked, has been handled
KnownWasHandled == \A c \in Clients : c \in online \/ Kicks(c) => handled[c] > 0

\* A client without an entry whose CLIENT_CONNECT is still to come has been
\* reported, or is about to be
Overtaken ==
    \A c \in Clients \ tcp :
        taken[c] > 0 /\ handled[c] = 0 => c \in early \/ io = At("broken", c)

Counted == \A c \in Clients : handled[c] <= taken[c] /\ taken[c] <= sent[c]

IInv ==
    /\ TypeOK
    /\ Counted
    /\ InOrder
    /\ Listening
    /\ KnownWasHandled
    /\ Overtaken
    /\ ForgottenUnlessEarly

------------------------------------------------------------------------------
(* Sequences of packets                                                    *)

\* A packet that is read next goes to the end.
LEMMA OrderedAppend ==
    ASSUME NEW pending \in Seq(Packet), NEW done \in [Clients -> 0..MaxSent],
           NEW read \in [Clients -> 0..MaxSent], NEW c \in Clients,
           Ordered(pending, done, read), read[c] < MaxSent, done[c] <= read[c]
    PROVE  Ordered(Append(pending, [from |-> c, no |-> read[c] + 1]), done,
                   [read EXCEPT ![c] = @ + 1])
  <1> DEFINE p == [from |-> c, no |-> read[c] + 1]
             longer == Append(pending, p)
             after == [read EXCEPT ![c] = @ + 1]
             last == Len(pending) + 1
  <1>1. /\ Len(pending) \in Nat /\ DOMAIN pending = 1..Len(pending)
        /\ \A i \in DOMAIN pending : pending[i] \in Packet
    OBVIOUS
  <1>2. /\ DOMAIN longer = 1..last
        /\ longer[last] = p
        /\ \A i \in DOMAIN pending : longer[i] = pending[i]
    BY <1>1
  <1>3. p.from = c /\ p.no = read[c] + 1
    OBVIOUS
  <1>4. ASSUME NEW i \in DOMAIN pending, pending[i].from = c
        PROVE  pending[i].no <= read[c]
    <2>1. pending[i] = [from |-> c, no |-> pending[i].no] /\ pending[i].no \in 1..MaxSent
      BY <1>1, <1>4 DEF Packet
    <2> QED
      BY <2>1 DEF Ordered
  <1>5. ASSUME NEW i \in DOMAIN longer, NEW j \in DOMAIN longer, i < j,
               longer[i].from = longer[j].from
        PROVE  longer[i].no < longer[j].no
    <2>1. i \in DOMAIN pending
      BY <1>1, <1>2, <1>5
    <2>2. CASE j = last
      <3>1. pending[i].from = c
        BY <1>2, <1>3, <1>5, <2>1, <2>2
      <3>2. pending[i].no <= read[c] /\ pending[i].no \in Nat /\ read[c] \in Nat
        BY <1>1, <1>4, <2>1, <3>1 DEF Packet
      <3>3. longer[i].no = pending[i].no /\ longer[j].no = read[c] + 1
        BY <1>2, <1>3, <2>1, <2>2
      <3> QED
        BY <3>2, <3>3
    <2>3. CASE j # last
      <3>1. j \in DOMAIN pending
        BY <1>1, <1>2, <2>3
      <3> QED
        BY <1>2, <1>5, <2>1, <3>1 DEF Ordered
    <2> QED
      BY <2>2, <2>3
  <1>6. ASSUME NEW d \in Clients, NEW n \in 1..MaxSent
        PROVE  done[d] < n /\ n <= after[d] <=> \E i \in DOMAIN longer : longer[i] = [from |-> d, no |-> n]
    <2>1. (\E i \in DOMAIN longer : longer[i] = [from |-> d, no |-> n])
            <=> (\E i \in DOMAIN pending : pending[i] = [from |-> d, no |-> n]) \/ p = [from |-> d, no |-> n]
      <3>1. /\ \A i \in DOMAIN longer : i = last \/ i \in DOMAIN pending
            /\ DOMAIN pending \subseteq DOMAIN longer /\ last \in DOMAIN longer
        BY <1>1, <1>2
      <3> HIDE DEF longer, p, last
      <3> QED
        BY <1>2, <3>1
    <2>2. p = [from |-> d, no |-> n] <=> d = c /\ n = read[c] + 1
      OBVIOUS
    <2>3. done[d] < n /\ n <= after[d]
            <=> (done[d] < n /\ n <= read[d]) \/ (d = c /\ n = read[c] + 1)
      OBVIOUS
    <2> QED
      BY <2>1, <2>2, <2>3 DEF Ordered
  <1> QED
    BY <1>5, <1>6 DEF Ordered

\* The first packet is the next one of its client to be handled.
LEMMA OrderedTail ==
    ASSUME NEW pending \in Seq(Packet), NEW done \in [Clients -> 0..MaxSent],
           NEW read \in [Clients -> 0..MaxSent],
           Ordered(pending, done, read), pending # <<>>
    PROVE  LET first == Head(pending) IN
           /\ first.from \in Clients
           /\ first.no = done[first.from] + 1
           /\ done[first.from] < read[first.from]
           /\ Ordered(Tail(pending), [done EXCEPT ![first.from] = @ + 1], read)
  <1> DEFINE first == Head(pending)
             c == first.from
             rest == Tail(pending)
             after == [done EXCEPT ![c] = @ + 1]
  <1>1. /\ Len(pending) \in Nat /\ Len(pending) > 0 /\ DOMAIN pending = 1..Len(pending)
        /\ \A i \in DOMAIN pending : pending[i] \in Packet
        /\ first = pending[1] /\ 1 \in DOMAIN pending
    OBVIOUS
  <1>2. /\ c \in Clients /\ first.no \in 1..MaxSent
        /\ first = [from |-> c, no |-> first.no]
    BY <1>1 DEF Packet
  <1>3. done[c] < first.no /\ first.no <= read[c]
    BY <1>1, <1>2 DEF Ordered
  <1>4. /\ DOMAIN rest = 1..(Len(pending) - 1)
        /\ \A i \in DOMAIN rest : rest[i] = pending[i + 1]
    BY <1>1
  <1>5. first.no = done[c] + 1
    <2> SUFFICES ASSUME first.no # done[c] + 1
                 PROVE  FALSE
      OBVIOUS
    <2>1. done[c] + 1 \in 1..MaxSent /\ done[c] + 1 < first.no /\ done[c] + 1 <= read[c]
      BY <1>2, <1>3
    <2>2. PICK i \in DOMAIN pending : pending[i] = [from |-> c, no |-> done[c] + 1]
      BY <1>2, <1>3, <2>1 DEF Ordered
    <2>3. i # 1 /\ 1 < i
      BY <1>1, <1>2, <2>1, <2>2
    <2>4. pending[1].no < pending[i].no
      BY <1>1, <2>2, <2>3 DEF Ordered
    <2> QED
      BY <1>1, <1>2, <2>1, <2>2, <2>4
  <1>6. ASSUME NEW i \in DOMAIN rest, NEW j \in DOMAIN rest, i < j, rest[i].from = rest[j].from
        PROVE  rest[i].no < rest[j].no
    <2>1. i + 1 \in DOMAIN pending /\ j + 1 \in DOMAIN pending /\ i + 1 < j + 1
      BY <1>1, <1>4, <1>6
    <2> QED
      BY <1>4, <1>6, <2>1 DEF Ordered
  <1>7. ASSUME NEW d \in Clients, NEW n \in 1..MaxSent
        PROVE  after[d] < n /\ n <= read[d] <=> \E i \in DOMAIN rest : rest[i] = [from |-> d, no |-> n]
    <2>1. (\E i \in DOMAIN pending : pending[i] = [from |-> d, no |-> n])
            <=> first = [from |-> d, no |-> n] \/ \E i \in DOMAIN rest : rest[i] = [from |-> d, no |-> n]
      <3>1. \A i \in DOMAIN pending : i = 1 \/ (i - 1 \in DOMAIN rest /\ rest[i - 1] = pending[i])
        BY <1>1, <1>4
      <3>2. \A i \in DOMAIN rest : i + 1 \in DOMAIN pending /\ rest[i] = pending[i + 1]
        BY <1>1, <1>4
      <3> QED
        BY <1>1, <3>1, <3>2
    <2>2. first = [from |-> d, no |-> n] <=> d = c /\ n = done[c] + 1
      BY <1>2, <1>5
    <2>3. ASSUME NEW i \in DOMAIN rest
          PROVE  rest[i] # first
      <3>1. i + 1 \in DOMAIN pending /\ 1 < i + 1 /\ rest[i] = pending[i + 1]
        BY <1>1, <1>4
      <3>2. pending[i + 1] \in Packet
        BY <1>1, <3>1
      <3>3. CASE pending[i + 1].from = c
        <4>1. pending[1].no < pending[i + 1].no
          BY <1>1, <3>1, <3>3 DEF Ordered
        <4> QED
          BY <1>1, <1>2, <3>1, <3>2, <4>1 DEF Packet
      <3>4. CASE pending[i + 1].from # c
        BY <3>1, <3>4
      <3> QED
        BY <3>3, <3>4
    <2>4. after[d] < n /\ n <= read[d]
            <=> (done[d] < n /\ n <= read[d]) /\ ~(d = c /\ n = done[c] + 1)
      BY <1>2
    <2> QED
      BY <2>1, <2>2, <2>3, <2>4 DEF Ordered
  <1> QED
    BY <1>2, <1>3, <1>5, <1>6, <1>7 DEF Ordered

\* Queue and batch are one sequence.
LEMMA OneSequence ==
    ASSUME NEW b \in Seq(Packet), NEW q \in Seq(Packet)
    PROVE  /\ b \o q \in Seq(Packet)
           /\ b = <<>> => b \o q = q \o <<>>
           /\ \A p \in Packet : b \o Append(q, p) = Append(b \o q, p)
           /\ b # <<>> => /\ Tail(b) \in Seq(Packet) /\ Head(b) \in Packet
                          /\ b \o q # <<>>
                          /\ Head(b \o q) = Head(b)
                          /\ Tail(b \o q) = Tail(b) \o q
  <1>1. b \o q \in Seq(Packet)
    OBVIOUS
  <1>2. b = <<>> => b \o q = q \o <<>>
    OBVIOUS
  <1>3. ASSUME NEW p \in Packet
        PROVE  b \o Append(q, p) = Append(b \o q, p)
    OBVIOUS
  <1>4. ASSUME b # <<>>
        PROVE  /\ Tail(b) \in Seq(Packet) /\ Head(b) \in Packet
               /\ b \o q # <<>>
               /\ Head(b \o q) = Head(b)
               /\ Tail(b \o q) = Tail(b) \o q
    <2>1. Len(b) \in Nat /\ Len(b) > 0
      BY <1>4
    <2>2. Tail(b) \in Seq(Packet) /\ Head(b) \in Packet
      BY <2>1
    <2>3. b \o q # <<>> /\ Head(b \o q) = Head(b)
      BY <2>1
    <2>4. Tail(b \o q) = Tail(b) \o q
      BY <2>1
    <2> QED
      BY <2>2, <2>3, <2>4
  <1> QED
    BY <1>1, <1>2, <1>3, <1>4

------------------------------------------------------------------------------
(* The induction                                                           *)

LEMMA InitIInv == Init => IInv
  <1> SUFFICES ASSUME Init PROVE IInv
    OBVIOUS
  <1>1. TypeOK
    BY DEF Init, TypeOK
  <1>2. InOrder
    BY DEF Init, InOrder, Ordered
  <1>3. Counted /\ Listening /\ KnownWasHandled /\ Overtaken /\ ForgottenUnlessEarly
    BY DEF Init, Counted, Listening, KnownWasHandled, Kicks, Serving,
       Overtaken, ForgottenUnlessEarly
  <1> QED
    BY <1>1, <1>2, <1>3 DEF IInv

\* The packet at the head of the batch is the next one of its client.
LEMMA HeadIsNext ==
    ASSUME IInv, TakePacket
    PROVE  /\ Head(batch) \in Packet
           /\ Head(batch).from \in Clients
           /\ Head(batch).no = handled[Head(batch).from] + 1
           /\ handled[Head(batch).from] < taken[Head(batch).from]
           /\ handled' = [handled EXCEPT ![Head(batch).from] = @ + 1]
           /\ handled' \in [Clients -> 0..MaxSent] /\ batch' \in Seq(Packet)
           /\ InOrder'
  <1>1. /\ batch \in Seq(Packet) /\ queue \in Seq(Packet) /\ batch # <<>>
        /\ handled \in [Clients -> 0..MaxSent] /\ taken \in [Clients -> 0..MaxSent]
        /\ Ordered(batch \o queue, handled, taken)
    BY DEF IInv, TypeOK, InOrder, TakePacket
  <1>2. /\ batch \o queue \in Seq(Packet) /\ batch \o queue # <<>>
        /\ Head(batch \o queue) = Head(batch) /\ Head(batch) \in Packet
        /\ Tail(batch) \in Seq(Packet)
        /\ Tail(batch \o queue) = Tail(batch) \o queue
    BY <1>1, OneSequence
  <1>3. /\ Head(batch).from \in Clients
        /\ Head(batch).no = handled[Head(batch).from] + 1
        /\ handled[Head(batch).from] < taken[Head(batch).from]
        /\ Ordered(Tail(batch) \o queue, [handled EXCEPT ![Head(batch).from] = @ + 1], taken)
    BY <1>1, <1>2, OrderedTail
  <1>4. /\ batch' = Tail(batch) /\ queue' = queue /\ taken' = taken
        /\ handled' = [handled EXCEPT ![Head(batch).from] = @ + 1]
    BY DEF TakePacket, socketVars
  <1>5. handled' \in [Clients -> 0..MaxSent] /\ batch' \in Seq(Packet)
    BY <1>1, <1>2, <1>3, <1>4
  <1> QED
    BY <1>2, <1>3, <1>4, <1>5 DEF InOrder

\* What the steps of Next are, one by one.
LEMMA Steps ==
    ASSUME [Next]_vars
    PROVE  \/ \E c \in Clients :
                 \/ PeerSends(c) \/ PeerGoes(c) \/ Accept(c) \/ ReadPacket(c)
                 \/ StartReceive(c) \/ ReadBreaks(c) \/ ReadOfErased(c)
           \/ ReportBroken \/ IoSends \/ IoWriteEnds \/ IoForgets
           \/ Receive \/ HandleConnect \/ HandleRequest \/ HandleUnknown
           \/ Send \/ SendEnds \/ Notify \/ NotifyEnds
           \/ KickErases \/ KickReports \/ MainTells \/ MainTellEnds \/ MainForgets
           \/ UNCHANGED vars
  BY DEF Next, Handler, Report, MainStep, Handling, Kicking

\* Every variable keeps its type.
LEMMA TypeNext == ASSUME IInv, [Next]_vars PROVE TypeOK'
  <1> USE DEF IInv, TypeOK, vars, peerVars, socketVars, At, Idle, Serving
  <1>1. ASSUME NEW c \in Clients, PeerSends(c) PROVE TypeOK'
    BY <1>1 DEF PeerSends
  <1>2. ASSUME NEW c \in Clients, PeerGoes(c) PROVE TypeOK'
    BY <1>2 DEF PeerGoes
  <1>3. ASSUME NEW c \in Clients, Accept(c) PROVE TypeOK'
    BY <1>3 DEF Accept
  <1>4. ASSUME NEW c \in Clients, ReadPacket(c) PROVE TypeOK'
    BY <1>4 DEF ReadPacket, Packet
  <1>5. ASSUME NEW c \in Clients, StartReceive(c) PROVE TypeOK'
    BY <1>5 DEF StartReceive
  <1>6. ASSUME NEW c \in Clients, ReadBreaks(c) PROVE TypeOK'
    BY <1>6 DEF ReadBreaks
  <1>7. ASSUME NEW c \in Clients, ReadOfErased(c) PROVE TypeOK'
    BY <1>7 DEF ReadOfErased
  <1>8. CASE ReportBroken
    BY <1>8 DEF ReportBroken
  <1>9. CASE IoSends
    BY <1>9 DEF IoSends
  <1>10. CASE IoWriteEnds
    BY <1>10 DEF IoWriteEnds
  <1>11. CASE IoForgets
    BY <1>11 DEF IoForgets
  <1>12. CASE Receive
    BY <1>12 DEF Receive
  <1>13. CASE HandleConnect
    BY <1>13, HeadIsNext DEF HandleConnect, TakePacket
  <1>14. CASE HandleRequest
    <2>1. handled' \in [Clients -> 0..MaxSent] /\ batch' \in Seq(Packet)
      BY <1>14, HeadIsNext DEF HandleRequest
    <2>2. main' = Serving \/ \E c \in Clients : main' \in {At("sending", c), At("notifying", c)}
      BY <1>14 DEF HandleRequest
    <2>3. main' \in {Serving} \cup [at : {"sending", "notifying"}, client : Clients]
      BY <2>2
    <2>4. UNCHANGED <<peer, sent, taken, tcp, reading, queue, io, online, early>>
      BY <1>14 DEF HandleRequest, TakePacket
    <2> QED
      BY <2>1, <2>3, <2>4
  <1>15. CASE HandleUnknown
    BY <1>15, HeadIsNext DEF HandleUnknown, TakePacket
  <1>16. CASE Send
    BY <1>16 DEF Send, Writes
  <1>17. CASE SendEnds
    BY <1>17 DEF SendEnds, WriteEnds
  <1>18. CASE Notify
    BY <1>18 DEF Notify, Writes
  <1>19. CASE NotifyEnds
    BY <1>19 DEF NotifyEnds, WriteEnds
  <1>20. CASE KickErases
    BY <1>20 DEF KickErases
  <1>21. CASE KickReports
    BY <1>21 DEF KickReports
  <1>22. CASE MainTells
    BY <1>22 DEF MainTells
  <1>23. CASE MainTellEnds
    BY <1>23 DEF MainTellEnds, WriteEnds
  <1>24. CASE MainForgets
    BY <1>24 DEF MainForgets
  <1>25. CASE UNCHANGED vars
    BY <1>25
  <1> QED
    BY <1>1, <1>2, <1>3, <1>4, <1>5, <1>6, <1>7, <1>8, <1>9, <1>10, <1>11,
       <1>12, <1>13, <1>14, <1>15, <1>16, <1>17, <1>18, <1>19, <1>20, <1>21,
       <1>22, <1>23, <1>24, <1>25, Steps

\* Packets are sent, then read, then handled.
LEMMA CountedNext == ASSUME IInv, [Next]_vars PROVE Counted'
  <1> USE DEF IInv, TypeOK, At, Idle, Serving, Counted
  <1>1. ASSUME NEW c \in Clients, PeerSends(c) PROVE Counted'
    BY <1>1 DEF PeerSends, socketVars
  <1>2. ASSUME NEW c \in Clients, ReadPacket(c) PROVE Counted'
    BY <1>2 DEF ReadPacket, peerVars, socketVars
  <1>3. CASE HandleConnect \/ HandleRequest \/ HandleUnknown
    <2>1. TakePacket
      BY <1>3 DEF HandleConnect, HandleRequest, HandleUnknown
    <2>2. /\ Head(batch).from \in Clients
          /\ handled[Head(batch).from] < taken[Head(batch).from]
          /\ handled' = [handled EXCEPT ![Head(batch).from] = @ + 1]
      BY <2>1, HeadIsNext, Zenon
    <2>3. UNCHANGED <<sent, taken>>
      BY <2>1 DEF TakePacket, peerVars, socketVars
    <2>4. /\ handled \in [Clients -> Nat] /\ taken \in [Clients -> Nat]
          /\ \A c \in Clients : handled[c] <= taken[c] /\ taken[c] <= sent[c]
      OBVIOUS
    <2> QED
      BY ONLY <2>2, <2>3, <2>4 DEF Counted
  <1>4. ASSUME NEW c \in Clients,
               PeerGoes(c) \/ Accept(c) \/ StartReceive(c) \/ ReadBreaks(c) \/
               ReadOfErased(c)
        PROVE  Counted'
    <2>1. UNCHANGED <<sent, taken, handled>>
      BY <1>4 DEF PeerGoes, Accept, StartReceive, ReadBreaks,
         ReadOfErased, peerVars, socketVars
    <2> QED
      BY <2>1
  <1>5. CASE \/ ReportBroken
           \/ IoSends
           \/ IoWriteEnds
           \/ IoForgets
           \/ Receive
           \/ Send
           \/ SendEnds
           \/ Notify
           \/ NotifyEnds
           \/ KickErases
           \/ KickReports
           \/ MainTells
           \/ MainTellEnds
           \/ MainForgets
           \/ UNCHANGED vars
    <2>1. UNCHANGED <<sent, taken, handled>>
      BY <1>5
      DEF
        ReportBroken, IoSends, IoWriteEnds, IoForgets, Receive, Send, Writes,
        SendEnds, WriteEnds, Notify, NotifyEnds, KickErases, KickReports,
        MainTells, MainTellEnds, MainForgets, peerVars, socketVars, vars
    <2> QED
      BY <2>1
  <1> QED
    BY <1>1, <1>2, <1>3, <1>4, <1>5, Steps

\* Packets keep their order.
LEMMA InOrderNext == ASSUME IInv, [Next]_vars PROVE InOrder'
  <1> USE DEF IInv, TypeOK, At, Idle, Serving, InOrder
  <1>1. ASSUME NEW c \in Clients, ReadPacket(c) PROVE InOrder'
    <2>1. /\ batch' \o queue' = Append(batch \o queue, [from |-> c, no |-> taken[c] + 1])
          /\ batch \o queue \in Seq(Packet)
      <3>1. [from |-> c, no |-> taken[c] + 1] \in Packet
        BY <1>1 DEF ReadPacket, Packet, Counted
      <3> QED
        BY <1>1, <3>1, OneSequence DEF ReadPacket
    <2>2. taken[c] < MaxSent /\ handled[c] <= taken[c]
      BY <1>1 DEF ReadPacket, Counted
    <2>3. Ordered(batch' \o queue', handled, [taken EXCEPT ![c] = @ + 1])
      <3> DEFINE pending == batch \o queue
      <3>1. /\ handled \in [Clients -> 0..MaxSent] /\ taken \in [Clients -> 0..MaxSent]
            /\ Ordered(pending, handled, taken)
        OBVIOUS
      <3> HIDE DEF pending, IInv, TypeOK, InOrder
      <3>2. Ordered(Append(pending, [from |-> c, no |-> taken[c] + 1]), handled,
                    [taken EXCEPT ![c] = @ + 1])
        BY <2>1, <2>2, <3>1, OrderedAppend DEF pending
      <3> QED
        BY <2>1, <3>2 DEF pending
    <2>4. handled' = handled /\ taken' = [taken EXCEPT ![c] = @ + 1]
      BY <1>1 DEF ReadPacket
    <2> QED
      BY <2>3, <2>4
  <1>2. CASE Receive
    <2>1. batch' \o queue' = batch \o queue
      BY <1>2, OneSequence DEF Receive
    <2> QED
      BY <1>2, <2>1 DEF Receive, socketVars
  <1>3. CASE HandleConnect \/ HandleRequest \/ HandleUnknown
    <2>1. TakePacket
      BY <1>3 DEF HandleConnect, HandleRequest, HandleUnknown
    <2> QED
      BY <2>1, HeadIsNext DEF TakePacket, peerVars, socketVars
  <1>4. ASSUME NEW c \in Clients,
               PeerSends(c) \/ PeerGoes(c) \/ Accept(c) \/ StartReceive(c) \/
               ReadBreaks(c) \/ ReadOfErased(c)
        PROVE  InOrder'
    <2>1. UNCHANGED <<batch, queue, taken, handled>>
      BY <1>4 DEF PeerSends, PeerGoes, Accept, StartReceive, ReadBreaks,
         ReadOfErased, peerVars, socketVars
    <2> QED
      BY <2>1
  <1>5. CASE \/ ReportBroken
           \/ IoSends
           \/ IoWriteEnds
           \/ IoForgets
           \/ Send
           \/ SendEnds
           \/ Notify
           \/ NotifyEnds
           \/ KickErases
           \/ KickReports
           \/ MainTells
           \/ MainTellEnds
           \/ MainForgets
           \/ UNCHANGED vars
    <2>1. UNCHANGED <<batch, queue, taken, handled>>
      BY <1>5
      DEF
        ReportBroken, IoSends, IoWriteEnds, IoForgets, Send, Writes,
        SendEnds, WriteEnds, Notify, NotifyEnds, KickErases, KickReports,
        MainTells, MainTellEnds, MainForgets, peerVars, socketVars, vars
    <2> QED
      BY <2>1
  <1> QED
    BY <1>1, <1>2, <1>3, <1>4, <1>5, Steps

\* Every client with an entry is listened to.
LEMMA ListeningNext == ASSUME IInv, [Next]_vars PROVE Listening'
  <1> USE DEF IInv, TypeOK, At, Idle, Serving, Listening
  <1>1. ASSUME NEW c \in Clients, Accept(c) PROVE Listening'
    BY <1>1 DEF Accept
  <1>2. ASSUME NEW c \in Clients, ReadPacket(c) PROVE Listening'
    BY <1>2 DEF ReadPacket
  <1>3. ASSUME NEW c \in Clients, StartReceive(c) PROVE Listening'
    BY <1>3 DEF StartReceive
  <1>4. ASSUME NEW c \in Clients, ReadBreaks(c) PROVE Listening'
    BY <1>4 DEF ReadBreaks
  <1>5. ASSUME NEW c \in Clients, ReadOfErased(c) PROVE Listening'
    BY <1>5 DEF ReadOfErased
  <1>6. CASE KickErases
    BY <1>6 DEF KickErases
  <1>7. ASSUME NEW c \in Clients, PeerSends(c) \/ PeerGoes(c)
        PROVE  Listening'
    <2>1. UNCHANGED <<tcp, reading>>
      BY <1>7 DEF PeerSends, PeerGoes, peerVars, socketVars
    <2> QED
      BY <2>1
  <1>8. CASE \/ ReportBroken
           \/ IoSends
           \/ IoWriteEnds
           \/ IoForgets
           \/ Receive
           \/ HandleConnect
           \/ HandleRequest
           \/ HandleUnknown
           \/ Send
           \/ SendEnds
           \/ Notify
           \/ NotifyEnds
           \/ KickReports
           \/ MainTells
           \/ MainTellEnds
           \/ MainForgets
           \/ UNCHANGED vars
    <2>1. UNCHANGED <<tcp, reading>>
      BY <1>8
      DEF
        ReportBroken, IoSends, IoWriteEnds, IoForgets, Receive,
        HandleConnect, TakePacket, HandleRequest, HandleUnknown, Send,
        Writes, SendEnds, WriteEnds, Notify, NotifyEnds, KickReports,
        MainTells, MainTellEnds, MainForgets, peerVars, socketVars, vars
    <2> QED
      BY <2>1
  <1> QED
    BY <1>1, <1>2, <1>3, <1>4, <1>5, <1>6, <1>7, <1>8, Steps

\* A client becomes known with its first packet.
LEMMA KnownNext == ASSUME IInv, [Next]_vars PROVE KnownWasHandled'
  <1> USE DEF IInv, TypeOK, At, Idle, Serving, KnownWasHandled, Kicks
  <1>1. CASE IoForgets
    BY <1>1 DEF IoForgets
  <1>2. CASE HandleConnect
    BY <1>2, HeadIsNext DEF HandleConnect, TakePacket
  <1>3. CASE HandleRequest
    <2>1. handled' = [handled EXCEPT ![Head(batch).from] = @ + 1] /\ Head(batch).from \in Clients
      BY <1>3, HeadIsNext DEF HandleRequest
    <2>2. \A c \in Clients : handled[c] \in Nat /\ (handled[c] > 0 => handled'[c] > 0)
      BY <2>1
    <2>3. online' = online
      BY <1>3 DEF HandleRequest
    <2>4. \/ main' = Serving
          \/ \E d \in Clients : main' = At("sending", d) \/ (d \in online /\ main' = At("notifying", d))
      BY <1>3 DEF HandleRequest
    <2>5. ASSUME NEW d \in Clients, Kicks(d)'
          PROVE  d \in online
      <3> HIDE DEF IInv, TypeOK
      <3>1. main'.at # "serving" /\ main'.at # "sending" /\ main'.client = d
        BY <2>5
      <3> QED
        BY <2>4, <3>1
    <2> QED
      BY <2>2, <2>3, <2>5
  <1>4. CASE HandleUnknown
    BY <1>4, HeadIsNext DEF HandleUnknown, TakePacket
  <1>5. CASE Send
    BY <1>5 DEF Send, Writes
  <1>6. CASE SendEnds
    BY <1>6 DEF SendEnds, WriteEnds
  <1>7. CASE Notify
    BY <1>7 DEF Notify, Writes
  <1>8. CASE NotifyEnds
    BY <1>8 DEF NotifyEnds, WriteEnds
  <1>9. CASE KickErases
    BY <1>9 DEF KickErases
  <1>10. CASE KickReports
    BY <1>10 DEF KickReports
  <1>11. CASE MainTells
    BY <1>11 DEF MainTells
  <1>12. CASE MainTellEnds
    BY <1>12 DEF MainTellEnds, WriteEnds
  <1>13. CASE MainForgets
    BY <1>13 DEF MainForgets
  <1>14. ASSUME NEW c \in Clients,
                PeerSends(c) \/ PeerGoes(c) \/ Accept(c) \/ ReadPacket(c) \/
                StartReceive(c) \/ ReadBreaks(c) \/ ReadOfErased(c)
        PROVE  KnownWasHandled'
    <2>1. UNCHANGED <<online, main, handled>>
      BY <1>14 DEF PeerSends, PeerGoes, Accept, ReadPacket, StartReceive,
         ReadBreaks, ReadOfErased, peerVars, socketVars
    <2> QED
      BY <2>1
  <1>15. CASE \/ ReportBroken
           \/ IoSends
           \/ IoWriteEnds
           \/ Receive
           \/ UNCHANGED vars
    <2>1. UNCHANGED <<online, main, handled>>
      BY <1>15
      DEF
        ReportBroken, IoSends, IoWriteEnds, Receive, peerVars, socketVars,
        vars
    <2> QED
      BY <2>1
  <1> QED
    BY <1>1, <1>2, <1>3, <1>4, <1>5, <1>6, <1>7, <1>8, <1>9, <1>10, <1>11,
       <1>12, <1>13, <1>14, <1>15, Steps

\* A report that overtakes CLIENT_CONNECT is remembered.
LEMMA OvertakenNext == ASSUME IInv, [Next]_vars PROVE Overtaken'
  <1> USE DEF IInv, TypeOK, At, Idle, Serving, Overtaken
  <1>1. ASSUME NEW c \in Clients, Accept(c) PROVE Overtaken'
    BY <1>1 DEF Accept
  <1>2. ASSUME NEW c \in Clients, ReadPacket(c) PROVE Overtaken'
    BY <1>2 DEF ReadPacket
  <1>3. ASSUME NEW c \in Clients, ReadBreaks(c) PROVE Overtaken'
    BY <1>3 DEF ReadBreaks
  <1>4. CASE ReportBroken
    BY <1>4 DEF ReportBroken, peerVars, socketVars
  <1>5. CASE IoSends
    BY <1>5 DEF IoSends, peerVars, socketVars
  <1>6. CASE IoWriteEnds
    BY <1>6 DEF IoWriteEnds, peerVars, socketVars
  <1>7. CASE IoForgets
    BY <1>7 DEF IoForgets, peerVars, socketVars
  <1>8. CASE HandleConnect \/ HandleRequest \/ HandleUnknown
    <2>1. TakePacket
      BY <1>8 DEF HandleConnect, HandleRequest, HandleUnknown
    <2> QED
      BY <2>1, HeadIsNext DEF TakePacket, peerVars, socketVars
  <1>9. CASE KickErases
    BY <1>9 DEF KickErases, KnownWasHandled, Kicks
  <1>10. ASSUME NEW c \in Clients,
                PeerSends(c) \/ PeerGoes(c) \/ StartReceive(c) \/
                ReadOfErased(c)
        PROVE  Overtaken'
    <2>1. UNCHANGED <<tcp, taken, handled, early, io>>
      BY <1>10 DEF PeerSends, PeerGoes, StartReceive, ReadOfErased, peerVars, socketVars
    <2> QED
      BY <2>1
  <1>11. CASE \/ Receive
           \/ Send
           \/ SendEnds
           \/ Notify
           \/ NotifyEnds
           \/ KickReports
           \/ MainTells
           \/ MainTellEnds
           \/ MainForgets
           \/ UNCHANGED vars
    <2>1. UNCHANGED <<tcp, taken, handled, early, io>>
      BY <1>11
      DEF
        Receive, Send, Writes, SendEnds, WriteEnds, Notify, NotifyEnds,
        KickReports, MainTells, MainTellEnds, MainForgets, peerVars,
        socketVars, vars
    <2> QED
      BY <2>1
  <1> QED
    BY <1>1, <1>2, <1>3, <1>4, <1>5, <1>6, <1>7, <1>8, <1>9, <1>10, <1>11, Steps

\* Nobody else outlives the connection.
LEMMA ForgottenNext == ASSUME IInv, [Next]_vars PROVE ForgottenUnlessEarly'
  <1> USE DEF IInv, TypeOK, At, Idle, Serving, ForgottenUnlessEarly, Ending
  <1>1. ASSUME NEW c \in Clients, Accept(c) PROVE ForgottenUnlessEarly'
    BY <1>1 DEF Accept
  <1>2. ASSUME NEW c \in Clients, ReadBreaks(c) PROVE ForgottenUnlessEarly'
    BY <1>2 DEF ReadBreaks
  <1>3. CASE ReportBroken
    BY <1>3 DEF ReportBroken, socketVars
  <1>4. CASE IoSends
    BY <1>4 DEF IoSends, peerVars, socketVars
  <1>5. CASE IoWriteEnds
    BY <1>5 DEF IoWriteEnds, peerVars, socketVars
  <1>6. CASE IoForgets
    BY <1>6 DEF IoForgets, peerVars, socketVars
  <1>7. CASE HandleConnect
    BY <1>7, HeadIsNext DEF HandleConnect, TakePacket, Overtaken, peerVars, socketVars
  <1>8. CASE HandleRequest
    BY <1>8 DEF HandleRequest, TakePacket, peerVars, socketVars
  <1>9. CASE HandleUnknown
    BY <1>9 DEF HandleUnknown, TakePacket, peerVars, socketVars
  <1>10. CASE Send
    BY <1>10 DEF Send, Writes, peerVars, socketVars
  <1>11. CASE SendEnds
    BY <1>11 DEF SendEnds, WriteEnds, peerVars, socketVars
  <1>12. CASE Notify
    BY <1>12 DEF Notify, Writes, peerVars, socketVars
  <1>13. CASE NotifyEnds
    BY <1>13 DEF NotifyEnds, WriteEnds, peerVars, socketVars
  <1>14. CASE KickErases
    BY <1>14 DEF KickErases, peerVars, socketVars
  <1>15. CASE KickReports
    BY <1>15 DEF KickReports, peerVars, socketVars
  <1>16. CASE MainTells
    BY <1>16 DEF MainTells, peerVars, socketVars
  <1>17. CASE MainTellEnds
    BY <1>17 DEF MainTellEnds, WriteEnds, peerVars, socketVars
  <1>18. CASE MainForgets
    BY <1>18 DEF MainForgets, peerVars, socketVars
  <1>19. ASSUME NEW c \in Clients,
                PeerSends(c) \/ PeerGoes(c) \/ ReadPacket(c) \/ StartReceive(c) \/
                ReadOfErased(c)
        PROVE  ForgottenUnlessEarly'
    <2>1. UNCHANGED <<tcp, online, early, io, main>>
      BY <1>19 DEF PeerSends, PeerGoes, ReadPacket, StartReceive,
         ReadOfErased, peerVars, socketVars
    <2> QED
      BY <2>1
  <1>20. CASE \/ Receive
           \/ UNCHANGED vars
    <2>1. UNCHANGED <<tcp, online, early, io, main>>
      BY <1>20
      DEF
        Receive, peerVars, socketVars, vars
    <2> QED
      BY <2>1
  <1> QED
    BY <1>1, <1>2, <1>3, <1>4, <1>5, <1>6, <1>7, <1>8, <1>9, <1>10, <1>11,
       <1>12, <1>13, <1>14, <1>15, <1>16, <1>17, <1>18, <1>19, <1>20, Steps

LEMMA NextIInv == ASSUME IInv, [Next]_vars PROVE IInv'
  BY TypeNext, CountedNext, InOrderNext, ListeningNext, KnownNext, OvertakenNext,
     ForgottenNext
  DEF IInv

LEMMA AlwaysIInv == Spec => []IInv
  BY InitIInv, NextIInv, PTL DEF Spec

------------------------------------------------------------------------------
(* Theorems                                                                *)

\* Every variable of AsioNetworkPlugin and Server keeps its type.
THEOREM ConnectionsTypeCorrect == Spec => []TypeOK
  BY AlwaysIInv, PTL DEF IInv

\* receive() and process_packets handle every packet read by the receive
\* handlers once, in the order its client sent it, whatever disconnects.
THEOREM ConnectionsInOrder == Spec => []InOrder
  BY AlwaysIInv, PTL DEF IInv

\* start_tcp_receive is called again after every packet: no client in
\* tcp_clients_ is left without a read.
THEOREM ConnectionsListening == Spec => []Listening
  BY AlwaysIInv, PTL DEF IInv

\* on_tcp_client_disconnected and disconnect_client leave no client in
\* connected_clients_ whose connection has ended, but one whose end the
\* network thread reported before the main thread handled CLIENT_CONNECT.
THEOREM ConnectionsForgotten == Spec => []ForgottenUnlessEarly
  BY AlwaysIInv, PTL DEF IInv
==============================================================================
