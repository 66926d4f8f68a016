----------------------------- MODULE Connections -----------------------------
(***************************************************************************)
(* TCP connections of the server, from the sockets to the handlers.        *)
(*                                                                         *)
(* Two threads share AsioNetworkPlugin.  The network thread runs the io    *)
(* context: it accepts, reads packets into received_packets_ and reports   *)
(* broken connections by calling Server::on_tcp_client_disconnected        *)
(* itself.  The main thread takes the packets once a tick, handles them    *)
(* and sends; an administrator's command makes it disconnect a client.     *)
(*                                                                         *)
(* tcp_clients_mutex_ is held across a blocking write, so holding it is    *)
(* part of the state.  callback_mutex_ is held across the callback, but    *)
(* once the server runs only the network thread takes it; the other        *)
(* mutexes are held over a few assignments and are part of the steps they  *)
(* protect.  The threads read and write connected_clients_ without a       *)
(* common mutex: its accesses are separate steps here, and whether the     *)
(* container survives two of them at once is not asked.  UDP, the timeout  *)
(* check (the server never calls update() of the plugin) and shutting down *)
(* are left out.                                                           *)
(***************************************************************************)
EXTENDS Naturals, Sequences

CONSTANTS
    Clients,   \* client ids: a connection gets a fresh one
    MaxSent    \* bound: packets a client sends

ASSUME MaxSentAssumption == MaxSent \in Nat \ {0}

VARIABLES
    peer,     \* the program at the other end: not yet there, there, gone
    sent,     \* how many packets it has written; the first is CLIENT_CONNECT
    taken,    \* how many of them have been read off the socket
    tcp,      \* tcp_clients_: the clients it has an entry for
    reading,  \* async_read outstanding, start_tcp_receive posted, or neither
    queue,    \* received_packets_
    io,       \* where the network thread is, and for which client
    main,     \* where the main thread is, and for which client
    batch,    \* what receive() returned and process_packets has not handled
    handled,  \* how many packets of each client have been handled
    online,   \* connected_clients_
    early     \* clients reported broken before their CLIENT_CONNECT was handled

peerVars == <<peer, sent>>
socketVars == <<taken, tcp, reading>>
vars == <<peerVars, socketVars, queue, io, main, batch, handled, online, early>>

Idle == [at |-> "idle"]          \* the network thread runs no handler
Serving == [at |-> "serving"]    \* the main thread is between two packets
At(where, c) == [at |-> where, client |-> c]
Packet == [from : Clients, no : 1..MaxSent]

TypeOK ==
    /\ peer \in [Clients -> {"away", "up", "gone"}]
    /\ sent \in [Clients -> 0..MaxSent]
    /\ taken \in [Clients -> 0..MaxSent]
    /\ handled \in [Clients -> 0..MaxSent]
    /\ reading \in [Clients -> {"none", "pending", "posted"}]
    /\ queue \in Seq(Packet) /\ batch \in Seq(Packet)
    /\ io \in {Idle} \cup [at : {"broken", "leaving", "writing", "erasing"}, client : Clients]
    /\ main \in {Serving} \cup
           [at : {"sending", "writing", "notifying", "noticing", "kicking", "kicked",
                  "leaving", "telling", "erasing"}, client : Clients]
    /\ tcp \subseteq Clients /\ online \subseteq Clients /\ early \subseteq Clients

Init ==
    /\ peer = [c \in Clients |-> "away"]
    /\ sent = [c \in Clients |-> 0]
    /\ taken = [c \in Clients |-> 0]
    /\ handled = [c \in Clients |-> 0]
    /\ reading = [c \in Clients |-> "none"]
    /\ queue = <<>> /\ batch = <<>>
    /\ io = Idle /\ main = Serving
    /\ tcp = {} /\ online = {} /\ early = {}

\* tcp_clients_mutex_ is free.  A thread that needs it waits without having
\* done anything yet, so waiting is not a state of its own.
TcpFree == io.at # "writing" /\ main.at \notin {"writing", "noticing", "telling"}

------------------------------------------------------------------------------
(* The programs at the other end                                           *)

PeerSends(c) ==
    /\ peer[c] = "up"
    /\ sent[c] < MaxSent
    /\ sent' = [sent EXCEPT ![c] = @ + 1]
    /\ UNCHANGED <<peer, socketVars, queue, io, main, batch, handled, online, early>>

\* The connection is closed or reset by the peer, or breaks
PeerGoes(c) ==
    /\ peer[c] = "up"
    /\ peer' = [peer EXCEPT ![c] = "gone"]
    /\ UNCHANGED <<sent, socketVars, queue, io, main, batch, handled, online, early>>

------------------------------------------------------------------------------
(* The network thread: one handler at a time                               *)

\* handle_tcp_accept
Accept(c) ==
    /\ io = Idle /\ TcpFree
    /\ peer[c] = "away"
    /\ peer' = [peer EXCEPT ![c] = "up"]
    /\ tcp' = tcp \cup {c}
    /\ reading' = [reading EXCEPT ![c] = "pending"]
    /\ UNCHANGED <<sent, taken, queue, io, main, batch, handled, online, early>>

\* mutant of ReadPacket: the next read is not started
ReadPacket_LastRead(c) ==
    /\ io = Idle /\ TcpFree
    /\ reading[c] = "pending" /\ c \in tcp /\ taken[c] < sent[c]
    /\ taken' = [taken EXCEPT ![c] = @ + 1]
    /\ queue' = Append(queue, [from |-> c, no |-> taken[c] + 1])
    /\ reading' = [reading EXCEPT ![c] = "none"]
    /\ UNCHANGED <<peerVars, tcp, io, main, batch, handled, online, early>>

\* mutant of ReadPacket: the packet goes in front of the others
ReadPacket_Front(c) ==
    /\ io = Idle /\ TcpFree
    /\ reading[c] = "pending" /\ c \in tcp /\ taken[c] < sent[c]
    /\ taken' = [taken EXCEPT ![c] = @ + 1]
    /\ queue' = <<[from |-> c, no |-> taken[c] + 1]>> \o queue
    /\ reading' = [reading EXCEPT ![c] = "posted"]
    /\ UNCHANGED <<peerVars, tcp, io, main, batch, handled, online, early>>

\* Header and payload have been read: push the packet, post the next read
ReadPacket(c) ==
    /\ io = Idle /\ TcpFree
    /\ reading[c] = "pending" /\ c \in tcp /\ taken[c] < sent[c]
    /\ taken' = [taken EXCEPT ![c] = @ + 1]
    /\ queue' = Append(queue, [from |-> c, no |-> taken[c] + 1])
    /\ reading' = [reading EXCEPT ![c] = "posted"]
    /\ UNCHANGED <<peerVars, tcp, io, main, batch, handled, online, early>>

\* start_tcp_receive: nothing more is read for a client without an entry
StartReceive(c) ==
    /\ io = Idle /\ TcpFree
    /\ reading[c] = "posted"
    /\ reading' = [reading EXCEPT ![c] = IF c \in tcp THEN "pending" ELSE "none"]
    /\ UNCHANGED <<peerVars, taken, tcp, queue, io, main, batch, handled, online, early>>

\* The read fails: handle_tcp_disconnect erases the entry.  What the peer sent
\* before it went may be lost.
ReadBreaks(c) ==
    /\ io = Idle /\ TcpFree
    /\ reading[c] = "pending" /\ c \in tcp /\ peer[c] = "gone"
    /\ reading' = [reading EXCEPT ![c] = "none"]
    /\ tcp' = tcp \ {c}
    /\ io' = At("broken", c)
    /\ UNCHANGED <<peerVars, taken, queue, main, batch, handled, online, early>>

\* The main thread closed the socket: whatever the read returns, there is no entry
ReadOfErased(c) ==
    /\ io = Idle /\ TcpFree
    /\ reading[c] = "pending" /\ c \notin tcp
    /\ reading' = [reading EXCEPT ![c] = "none"]
    /\ UNCHANGED <<peerVars, taken, tcp, queue, io, main, batch, handled, online, early>>

\* handle_tcp_disconnect calls on_tcp_client_disconnected, which returns when
\* the client is unknown and otherwise takes it out of its lobby, if it is in one
ReportBroken ==
    /\ io.at = "broken"
    /\ IF io.client \in online
       THEN \E next \in {"leaving", "erasing"} : io' = At(next, io.client)
       ELSE io' = Idle
    /\ early' = IF handled[io.client] = 0 THEN early \cup {io.client} ELSE early
    /\ UNCHANGED <<peerVars, socketVars, queue, main, batch, handled, online>>

\* leave_lobby tells the other players: one send stands for all.  A send to a
\* client without an entry does not block.
IoSends ==
    /\ io.at = "leaving" /\ TcpFree
    /\ \E next \in {"writing", "erasing"} : io' = At(next, io.client)
    /\ UNCHANGED <<peerVars, socketVars, queue, main, batch, handled, online, early>>

IoWriteEnds ==
    /\ io.at = "writing"
    /\ io' = At("erasing", io.client)
    /\ UNCHANGED <<peerVars, socketVars, queue, main, batch, handled, online, early>>

\* mutant of IoForgets: the client stays in connected_clients_
IoForgets_Kept ==
    /\ io.at = "erasing"
    /\ io' = Idle
    /\ UNCHANGED <<peerVars, socketVars, queue, main, batch, handled, online, early>>

IoForgets ==
    /\ io.at = "erasing"
    /\ online' = online \ {io.client}
    /\ io' = Idle
    /\ UNCHANGED <<peerVars, socketVars, queue, main, batch, handled, early>>

------------------------------------------------------------------------------
(* The main thread                                                         *)

\* The tick after the packets, and the next one's receive()
Receive ==
    /\ main = Serving /\ batch = <<>>
    /\ batch' = queue
    /\ queue' = <<>>
    /\ UNCHANGED <<peerVars, socketVars, io, main, handled, online, early>>

TakePacket ==
    /\ main = Serving /\ batch # <<>>
    /\ batch' = Tail(batch)
    /\ handled' = [handled EXCEPT ![Head(batch).from] = @ + 1]
    /\ UNCHANGED <<peerVars, socketVars, queue, io, early>>

\* on_client_connect, answered by SERVER_ACCEPT
HandleConnect ==
    /\ TakePacket
    /\ Head(batch).no = 1
    /\ online' = online \cup {Head(batch).from}
    /\ main' = At("sending", Head(batch).from)

\* Any other handler: it may answer, tell other clients (one send stands for
\* all), or run the kick command of an administrator on a known client
HandleRequest ==
    /\ TakePacket
    /\ Head(batch).no > 1
    /\ Head(batch).from \in online
    /\ \/ main' = Serving
       \/ \E c \in Clients : main' = At("sending", c)
       \/ \E c \in online : main' = At("notifying", c)
    /\ UNCHANGED online

\* mutant of HandleUnknown: the packet is looked at for ever
HandleUnknown_NotTaken ==
    /\ main = Serving /\ batch # <<>>
    /\ Head(batch).no > 1
    /\ Head(batch).from \notin online
    /\ UNCHANGED vars

\* Every handler but on_client_connect ignores a client it does not know
HandleUnknown ==
    /\ TakePacket
    /\ Head(batch).no > 1
    /\ Head(batch).from \notin online
    /\ UNCHANGED <<main, online>>

\* send_tcp_to takes the mutex and writes when the client has an entry
Writes(before, during, after) ==
    /\ main.at = before /\ TcpFree
    /\ main' = IF main.client \in tcp THEN At(during, main.client) ELSE after
    /\ UNCHANGED <<peerVars, socketVars, queue, io, batch, handled, online, early>>

WriteEnds(during, after) ==
    /\ main.at = during
    /\ main' = after
    /\ UNCHANGED <<peerVars, socketVars, queue, io, batch, handled, online, early>>

Send == Writes("sending", "writing", Serving)
SendEnds == WriteEnds("writing", Serving)
Notify == Writes("notifying", "noticing", At("kicking", main.client))
NotifyEnds == WriteEnds("noticing", At("kicking", main.client))

\* kick_player: disconnect_client closes the socket and erases the entry
KickErases ==
    /\ main.at = "kicking" /\ TcpFree
    /\ tcp' = tcp \ {main.client}
    /\ main' = At("kicked", main.client)
    /\ UNCHANGED <<peerVars, taken, reading, queue, io, batch, handled, online, early>>

\* ... and calls on_tcp_client_disconnected, found or not; the administrator
\* gets an answer
KickReports ==
    /\ main.at = "kicked"
    /\ \/ main.client \in online /\ \E next \in {"leaving", "erasing"} : main' = At(next, main.client)
       \/ main.client \notin online /\ \E admin \in Clients : main' = At("sending", admin)
    /\ UNCHANGED <<peerVars, socketVars, queue, io, batch, handled, online, early>>

MainTells ==
    /\ main.at = "leaving" /\ TcpFree
    /\ \E next \in {"telling", "erasing"} : main' = At(next, main.client)
    /\ UNCHANGED <<peerVars, socketVars, queue, io, batch, handled, online, early>>

MainTellEnds == WriteEnds("telling", At("erasing", main.client))

MainForgets ==
    /\ main.at = "erasing"
    /\ online' = online \ {main.client}
    /\ \E admin \in Clients : main' = At("sending", admin)
    /\ UNCHANGED <<peerVars, socketVars, queue, io, batch, handled, early>>

------------------------------------------------------------------------------
Handler(c) == ReadPacket(c) \/ StartReceive(c) \/ ReadBreaks(c) \/ ReadOfErased(c)
Report == ReportBroken \/ IoSends \/ IoWriteEnds \/ IoForgets
Handling == HandleConnect \/ HandleRequest \/ HandleUnknown
Kicking == Notify \/ NotifyEnds \/ KickErases \/ KickReports \/ MainTells \/ MainTellEnds \/ MainForgets
MainStep == Receive \/ Handling \/ Send \/ SendEnds \/ Kicking

Next ==
    \/ \E c \in Clients : PeerSends(c) \/ PeerGoes(c) \/ Accept(c) \/ Handler(c)
    \/ Report
    \/ MainStep

Spec == Init /\ [][Next]_vars

\* Each thread runs on, the io context keeps no completed read waiting for ever
\* (they queue in order of completion), a thread that waits for the mutex gets
\* it, and a blocking write ends: the peer reads or its connection breaks.
FairSpec ==
    /\ Spec
    /\ SF_vars(MainStep)
    /\ SF_vars(Report)
    /\ \A c \in Clients : SF_vars(Handler(c))

------------------------------------------------------------------------------
(* Properties                                                              *)

\* pending holds the packets of each client that were taken and not handled,
\* each once, in order.
Ordered(pending, done, read) ==
    /\ \A i, j \in DOMAIN pending :
           i < j /\ pending[i].from = pending[j].from => pending[i].no < pending[j].no
    /\ \A c \in Clients, n \in 1..MaxSent :
           done[c] < n /\ n <= read[c] <=> \E i \in DOMAIN pending : pending[i] = [from |-> c, no |-> n]

\* Every packet read from a client is handled once, in the order it was sent,
\* also when its connection breaks or it is kicked meanwhile.
InOrder == Ordered(batch \o queue, handled, taken)

\* A client with an entry is listened to: one read is outstanding or about to
\* be started, so neither its packets nor its end are missed.
Listening == \A c \in tcp : reading[c] # "none"

\* One of the threads is at the end of c's connection
Ending(c) ==
    \/ io # Idle /\ io.client = c
    \/ main.at \in {"kicked", "leaving", "telling", "erasing"} /\ main.client = c

\* A client whose connection has ended does not stay in connected_clients_,
\* unless its end was reported before its CLIENT_CONNECT was handled.
ForgottenUnlessEarly == \A c \in online \ tcp : c \in early \/ Ending(c)

\* The main thread comes back for more packets for ever: the threads, the
\* blocking writes and the callbacks do not lock each other out.
MainLoops == []<>(main = Serving /\ batch = <<>>)
==============================================================================
