------------------------------- MODULE UdpGw -------------------------------
(***************************************************************************)
(* The udpgw client of tun2socks: UdpGwClient, which gives every pair of   *)
(* UDP addresses a connection with an id and a queue of packets, and       *)
(* SocksUdpGwClient, which keeps one TCP connection to the udpgw server    *)
(* (the link) and opens it again whenever it is lost.                      *)
(*                                                                         *)
(* Packets of all connections pass through one pipe: fair queue,           *)
(* inactivity monitor, connector, and, while there is a link, a sender     *)
(* that writes them to the stream.  A packet stays at the head of its      *)
(* queue until it has been written.                                        *)
(*                                                                         *)
(* An action is an event of the reactor with all the jobs it sets off.     *)
(* Jobs run last-in first-out, so that they have all run before the next   *)
(* event, or the job that reports it, is handled.                          *)
(***************************************************************************)
EXTENDS Integers, Sequences, FiniteSets, SequencesExt

CONSTANTS
    Locals, Remotes,        \* UDP addresses of the apps, and of their peers
    NoAddr,                 \* no pair of them
    max_connections,
    send_buffer_size,       \* packets of any size a connection can queue
    KeepaliveFlow, NoFlow,  \* not connection ids
    MaxBuffered,            \* bound: packets a connection can queue if they are short
    MaxSubmitted,           \* bound on the packets the apps send
    MaxAnswers              \* bound on answers on their way from the server

\* max_connections after UdpGwClient_Init has limited it to the range of an id.
MaxConnections == IF max_connections > 65536 THEN 65536 ELSE max_connections

Conids == 0..MaxConnections - 1

Conaddr == [local_addr : Locals, remote_addr : Remotes]

ASSUME NamesAssumption == /\ NoAddr \notin Conaddr
                          /\ KeepaliveFlow \notin Int /\ NoFlow \notin Int
                          /\ KeepaliveFlow # NoFlow

ASSUME SizesAssumption == /\ max_connections \in Nat \ {0}
                          /\ send_buffer_size \in Nat \ {0}
                          /\ MaxBuffered \in Nat /\ MaxBuffered >= send_buffer_size
                          /\ MaxSubmitted \in Nat /\ MaxAnswers \in Nat

VARIABLES
    con,                \* connections_tree_by_conid: [Conids -> the conaddr, or NoAddr]
    by_conaddr,         \* connections_tree_by_conaddr: pairs of a conaddr and its id
    list,               \* connections_list, the least recently used first
    next_conid,
    queue,              \* [Conids -> the packets of send_ppflow, the one in the pipe included]
    keepalive_sending,
    pipe,               \* fair queue, monitor, connector and sender
    have_server,
    link,               \* SocksUdpGwClient: have_socks, socks_up, and the reconnect timer
    freed,              \* SocksUdpGwClient_Free() was called
    answers,            \* answers on their way, each with the pair the server had for its id
    server,             \* history: [Conids -> what the server last got for an id on this link]
    accepted, written,  \* history: [Conids -> packets queued so far; number of the last written]
    rebindLost          \* history: ids whose first packet for a new pair ever found the queue full

tables == <<con, by_conaddr, list, next_conid>>
vars == <<tables, queue, keepalive_sending, pipe, have_server, link, freed, answers,
          server, accepted, written, rebindLost>>

\* conaddr.local_addr is not sent; rebind is UDPGW_CLIENT_FLAG_REBIND; n (history)
\* numbers the packets of an id.
Packet == [conaddr : Conaddr, rebind : BOOLEAN, n : Nat]

\* sending: sending_flow, whose packet the connector has.  timer: that of the monitor.
\* output: the connector has an output.  stream: what that output, the sender, has left.
Pipe == [sending : Conids \cup {KeepaliveFlow, NoFlow}, timer : BOOLEAN,
         output : BOOLEAN, stream : {"idle", "whole", "part"}]

Link == [have_socks : BOOLEAN, socks_up : BOOLEAN, timer : BOOLEAN]

-----------------------------------------------------------------------------
(* The pipe *)

Waiting(q, keepalive) == {c \in Conids : q[c] # <<>>}
                           \cup (IF keepalive THEN {KeepaliveFlow} ELSE {})

Pass_KeepsTimer(p, f) == [p EXCEPT !.sending = f,
                                   !.stream = IF p.output THEN "whole" ELSE "idle"]

\* The packet of flow f goes through the monitor, which stops its timer, into the
\* connector, and on to the sender if there is one.
Pass(p, f) == [p EXCEPT !.sending = f, !.timer = FALSE,
                        !.stream = IF p.output THEN "whole" ELSE "idle"]

\* The fair queue takes the packet of a waiting flow when it has none.  (Which one, its
\* virtual time decides.)
schedule(p, q, keepalive) ==
    IF p.sending # NoFlow \/ Waiting(q, keepalive) = {}
    THEN {p} ELSE {Pass(p, f) : f \in Waiting(q, keepalive)}

\* The sender has written all of the packet: connector and fair queue are free, the
\* monitor restarts its timer.
Finished(p) == [p EXCEPT !.sending = NoFlow, !.timer = TRUE, !.stream = "idle"]

ConnectOutput_WaitsForPacket(p) == [p EXCEPT !.output = TRUE]

ConnectOutput(p) == [p EXCEPT !.output = TRUE,
                              !.stream = IF p.sending = NoFlow THEN "idle" ELSE "whole"]

\* The connector keeps its packet; what the sender had written of it is forgotten.
DisconnectOutput(p) == [p EXCEPT !.output = FALSE, !.stream = "idle"]

-----------------------------------------------------------------------------
(* Packets from the device *)

\* The buffer has blocks for send_buffer_size packets of full length, and for more if
\* they are shorter.
StartPacket(q, fits) == /\ Len(q) < send_buffer_size => fits
                        /\ Len(q) = MaxBuffered => ~fits

\* Queue a packet on connection c, or drop it when its queue is full.
connection_send(c, conaddr, rebind) ==
    \E fits \in BOOLEAN :
        LET packet == [conaddr |-> conaddr, rebind |-> rebind, n |-> accepted[c] + 1] IN
        /\ StartPacket(queue[c], fits)
        /\ queue' = IF fits THEN [queue EXCEPT ![c] = Append(@, packet)] ELSE queue
        /\ accepted' = IF fits THEN [accepted EXCEPT ![c] = @ + 1] ELSE accepted
        /\ rebindLost' = IF rebind /\ ~fits THEN rebindLost \cup {c} ELSE rebindLost
        /\ pipe' \in schedule(pipe, queue', keepalive_sending)
        /\ UNCHANGED <<keepalive_sending, have_server, link, freed, answers, server,
                       written>>

find_connection_by_conaddr(conaddr) == {c \in Conids : <<conaddr, c>> \in by_conaddr}

\* The first id without a connection, from next_conid on and around.  (If there were
\* none, the search would not end.)
find_unused_conid ==
    {c \in Conids :
        /\ con[c] = NoAddr
        /\ \A d \in Conids : con[d] = NoAddr =>
               (c - next_conid) % MaxConnections <= (d - next_conid) % MaxConnections}

MoveToEnd(c) == \E i \in DOMAIN list :
                    list[i] = c /\ list' = Append(RemoveAt(list, i), c)

\* The number of packets submitted is bounded by what was queued, since a packet that
\* is dropped changes little: MaxSubmitted bounds the former.
MaySubmit == FoldFunction(LAMBDA a, b : a + b, 0, accepted) < MaxSubmitted

SubmitToConnection(conaddr) ==
    \E c \in find_connection_by_conaddr(conaddr) :
        /\ MoveToEnd(c)
        /\ connection_send(c, conaddr, FALSE)
        /\ UNCHANGED <<con, by_conaddr, next_conid>>

reuse_connection_KeepsOldPair(conaddr) ==
    LET c == Head(list) IN
    /\ by_conaddr' = by_conaddr \cup {<<conaddr, c>>}
    /\ con' = [con EXCEPT ![c] = conaddr]
    /\ MoveToEnd(c)
    /\ connection_send(c, conaddr, TRUE)
    /\ UNCHANGED next_conid

reuse_connection_Silent(conaddr) ==
    LET c == Head(list) IN
    /\ by_conaddr' = (by_conaddr \ {<<con[c], c>>}) \cup {<<conaddr, c>>}
    /\ con' = [con EXCEPT ![c] = conaddr]
    /\ MoveToEnd(c)
    /\ connection_send(c, conaddr, FALSE)
    /\ UNCHANGED next_conid

\* The pair takes the id, and the queue, of the least recently used connection.
reuse_connection(conaddr) ==
    LET c == Head(list) IN
    /\ by_conaddr' = (by_conaddr \ {<<con[c], c>>}) \cup {<<conaddr, c>>}
    /\ con' = [con EXCEPT ![c] = conaddr]
    /\ MoveToEnd(c)
    /\ connection_send(c, conaddr, TRUE)
    /\ UNCHANGED next_conid

SubmitByReuse(conaddr) == /\ find_connection_by_conaddr(conaddr) = {}
                          /\ Len(list) = MaxConnections
                          /\ reuse_connection(conaddr)

\* connection_init(), and its first job, which sends the packet.
connection_init(conaddr) ==
    \E c \in find_unused_conid :
        /\ con' = [con EXCEPT ![c] = conaddr]
        /\ by_conaddr' = by_conaddr \cup {<<conaddr, c>>}
        /\ list' = Append(list, c)
        /\ next_conid' = c
        /\ connection_send(c, conaddr, TRUE)

\* The allocation of the connection, or of its buffer, fails.
connection_init_fails ==
    /\ next_conid' \in {next_conid} \cup find_unused_conid
    /\ UNCHANGED <<con, by_conaddr, list, queue, keepalive_sending, pipe, have_server, link,
                   freed, answers, server, accepted, written, rebindLost>>

SubmitToNew(conaddr) == /\ find_connection_by_conaddr(conaddr) = {}
                        /\ Len(list) < MaxConnections
                        /\ connection_init(conaddr) \/ connection_init_fails

SubmitPacket(conaddr) == /\ ~freed /\ MaySubmit
                         /\ \/ SubmitToConnection(conaddr)
                            \/ SubmitByReuse(conaddr)
                            \/ SubmitToNew(conaddr)

-----------------------------------------------------------------------------
(* The stream to the server *)

\* write() takes a part of the packet.
WritePart == /\ ~freed /\ pipe.stream = "whole"
             /\ pipe' = [pipe EXCEPT !.stream = "part"]
             /\ UNCHANGED <<tables, queue, keepalive_sending, have_server, link, freed,
                            answers, server, accepted, written, rebindLost>>

\* write() takes the rest of a packet of connection c.
PacketWritten(c) ==
    /\ ~freed /\ pipe.stream # "idle" /\ pipe.sending = c
    /\ queue' = [queue EXCEPT ![c] = Tail(@)]
    /\ pipe' \in schedule(Finished(pipe), queue', keepalive_sending)
    /\ server' = [server EXCEPT ![c] = Head(queue[c]).conaddr]
    /\ written' = [written EXCEPT ![c] = Head(queue[c]).n]
    /\ UNCHANGED <<tables, keepalive_sending, have_server, link, freed, answers, accepted,
                   rebindLost>>

\* keepalive_if_handler_done(), when write() takes the rest of the keepalive.
KeepaliveWritten ==
    /\ ~freed /\ pipe.stream # "idle" /\ pipe.sending = KeepaliveFlow
    /\ keepalive_sending' = FALSE
    /\ pipe' \in schedule(Finished(pipe), queue, FALSE)
    /\ UNCHANGED <<tables, queue, have_server, link, freed, answers, server, accepted,
                   written, rebindLost>>

\* timer_handler() of the monitor restarts the timer and calls send_monitor_handler().
KeepaliveTimer ==
    /\ ~freed /\ pipe.timer
    /\ ~keepalive_sending
    /\ keepalive_sending' = TRUE
    /\ pipe' \in schedule(pipe, queue, TRUE)
    /\ UNCHANGED <<tables, queue, have_server, link, freed, answers, server, accepted,
                   written, rebindLost>>

\* The server answers an app it got a packet from on this link.
ServerAnswers(c) ==
    /\ have_server /\ server[c] # NoAddr /\ Len(answers) < MaxAnswers
    /\ answers' = Append(answers, [conid |-> c, conaddr |-> server[c]])
    /\ UNCHANGED <<tables, queue, keepalive_sending, pipe, have_server, link, freed, server,
                   accepted, written, rebindLost>>

\* recv_interface_handler_send(): the answer names an id and the peer's address.  The
\* packet given to the device changes nothing here.
Receive ==
    /\ have_server /\ answers # <<>>
    /\ answers' = Tail(answers)
    /\ LET a == Head(answers) IN
       IF con[a.conid] # NoAddr /\ con[a.conid].remote_addr = a.conaddr.remote_addr
       THEN MoveToEnd(a.conid)
       ELSE UNCHANGED list
    /\ UNCHANGED <<con, by_conaddr, next_conid, queue, keepalive_sending, pipe, have_server,
                   link, freed, server, accepted, written, rebindLost>>

-----------------------------------------------------------------------------
(* The link *)

\* BSocksClient_Init() succeeds or fails; then the timer is set again.
try_connect(ok) == link' = [link EXCEPT !.have_socks = ok, !.timer = ~ok,
                                        !.socks_up = IF ok THEN FALSE ELSE @]

reconnect_timer_handler ==
    /\ ~freed /\ link.timer
    /\ \E ok \in BOOLEAN : try_connect(ok)
    /\ UNCHANGED <<tables, queue, keepalive_sending, pipe, have_server, freed, answers,
                   server, accepted, written, rebindLost>>

\* UdpGwClient_ConnectServer(): the server starts with no ids.
SocksUp ==
    /\ ~freed /\ link.have_socks /\ ~link.socks_up
    /\ link' = [link EXCEPT !.socks_up = TRUE]
    /\ have_server' = TRUE
    /\ pipe' = ConnectOutput(pipe)
    /\ UNCHANGED <<tables, queue, keepalive_sending, freed, answers, server, accepted,
                   written, rebindLost>>

SocksUpFails_NoTimer ==
    /\ ~freed /\ link.have_socks /\ ~link.socks_up
    /\ link' = [link EXCEPT !.have_socks = FALSE]
    /\ UNCHANGED <<tables, queue, keepalive_sending, pipe, have_server, freed, answers,
                   server, accepted, written, rebindLost>>

\* UdpGwClient_ConnectServer() fails, because PacketProtoDecoder_Init() does.
SocksUpFails ==
    /\ ~freed /\ link.have_socks /\ ~link.socks_up
    /\ link' = [link EXCEPT !.have_socks = FALSE, !.timer = TRUE]
    /\ UNCHANGED <<tables, queue, keepalive_sending, pipe, have_server, freed, answers,
                   server, accepted, written, rebindLost>>

free_socks_CountsPacketAsSent ==
    /\ link' = [link EXCEPT !.have_socks = FALSE, !.timer = TRUE]
    /\ IF link.socks_up
       THEN /\ have_server' = FALSE
            /\ answers' = <<>>
            /\ server' = [c \in Conids |-> NoAddr]
            /\ queue' = IF pipe.sending \in Conids
                        THEN [queue EXCEPT ![pipe.sending] = Tail(@)] ELSE queue
            /\ pipe' \in IF pipe.sending \in Conids
                         THEN schedule(Finished(DisconnectOutput(pipe)), queue',
                                       keepalive_sending)
                         ELSE {DisconnectOutput(pipe)}
       ELSE UNCHANGED <<have_server, pipe, answers, server, queue>>
    /\ UNCHANGED <<tables, keepalive_sending, freed, accepted, written, rebindLost>>

\* free_socks(), with UdpGwClient_DisconnectServer() if socks_up; then the timer is set.
\* What was on its way from the server, and what the server knew, is lost.
free_socks ==
    /\ link' = [link EXCEPT !.have_socks = FALSE, !.timer = TRUE]
    /\ IF link.socks_up
       THEN /\ have_server' = FALSE
            /\ pipe' = DisconnectOutput(pipe)
            /\ answers' = <<>>
            /\ server' = [c \in Conids |-> NoAddr]
       ELSE UNCHANGED <<have_server, pipe, answers, server>>
    /\ UNCHANGED <<tables, queue, keepalive_sending, freed, accepted, written, rebindLost>>

\* BSOCKSCLIENT_EVENT_ERROR and ERROR_CLOSED: the handshake or the connection failed, or
\* the server closed it.
SocksError == ~freed /\ link.have_socks /\ free_socks

\* udpgw_handler_servererror(): the server sent a packet that is too long.
DecoderError == ~freed /\ have_server /\ free_socks

\* SocksUdpGwClient_Free(), when tun2socks exits.
Free ==
    /\ ~freed
    /\ freed' = TRUE
    /\ link' = [link EXCEPT !.have_socks = FALSE, !.timer = FALSE]
    /\ con' = [c \in Conids |-> NoAddr] /\ by_conaddr' = {} /\ list' = <<>>
    /\ queue' = [c \in Conids |-> <<>>]
    /\ have_server' = FALSE
    /\ pipe' = [sending |-> NoFlow, timer |-> FALSE, output |-> FALSE, stream |-> "idle"]
    /\ answers' = <<>>
    /\ server' = [c \in Conids |-> NoAddr]
    /\ UNCHANGED <<next_conid, keepalive_sending, accepted, written, rebindLost>>

-----------------------------------------------------------------------------
\* SocksUdpGwClient_Init(), which tries to connect.
Init ==
    /\ con = [c \in Conids |-> NoAddr] /\ by_conaddr = {} /\ list = <<>>
    /\ next_conid = 0
    /\ queue = [c \in Conids |-> <<>>]
    /\ keepalive_sending = FALSE
    /\ pipe = [sending |-> NoFlow, timer |-> TRUE, output |-> FALSE, stream |-> "idle"]
    /\ have_server = FALSE
    /\ \E ok \in BOOLEAN : link = [have_socks |-> ok, socks_up |-> FALSE, timer |-> ~ok]
    /\ freed = FALSE
    /\ answers = <<>>
    /\ server = [c \in Conids |-> NoAddr]
    /\ accepted = [c \in Conids |-> 0] /\ written = [c \in Conids |-> 0]
    /\ rebindLost = {}

Write == WritePart \/ (\E c \in Conids : PacketWritten(c)) \/ KeepaliveWritten

Next == \/ \E conaddr \in Conaddr : SubmitPacket(conaddr)
        \/ Write \/ KeepaliveTimer
        \/ (\E c \in Conids : ServerAnswers(c)) \/ Receive
        \/ reconnect_timer_handler \/ SocksUp \/ SocksUpFails \/ SocksError \/ DecoderError
        \/ Free

Spec == Init /\ [][Next]_vars

\* Timers run out.  The server can be reached, a connection made to it, and a packet
\* written, if that is tried often enough.
Fairness == /\ WF_vars(reconnect_timer_handler) /\ WF_vars(KeepaliveTimer)
            /\ SF_vars(reconnect_timer_handler /\ try_connect(TRUE))
            /\ SF_vars(SocksUp) /\ SF_vars(\E c \in Conids : PacketWritten(c))
            /\ SF_vars(KeepaliveWritten)

FairSpec == Spec /\ Fairness

-----------------------------------------------------------------------------
(* Properties *)

\* Every field keeps the range its declaration and its uses give it; the blocks of a
\* buffer are not overrun.
TypeOK ==
    /\ con \in [Conids -> Conaddr \cup {NoAddr}]
    /\ by_conaddr \subseteq Conaddr \X Conids
    /\ list \in Seq(Conids)
    /\ next_conid \in Conids
    /\ queue \in [Conids -> Seq(Packet)]
    /\ \A c \in Conids : Len(queue[c]) <= MaxBuffered
    /\ pipe \in Pipe
    /\ link \in Link
    /\ {keepalive_sending, have_server, freed} \subseteq BOOLEAN
    /\ answers \in Seq([conid : Conids, conaddr : Conaddr])
    /\ server \in [Conids -> Conaddr \cup {NoAddr}]
    /\ accepted \in [Conids -> Nat] /\ written \in [Conids -> Nat]
    /\ rebindLost \subseteq Conids

\* The two trees and the list hold the same connections, each pair of addresses once.
\* (A reuse that forgets one of them would find a connection under an old address.)
TablesAgree ==
    /\ by_conaddr = {<<con[c], c>> : c \in {d \in Conids : con[d] # NoAddr}}
    /\ \A c, d \in Conids : con[c] = con[d] /\ con[c] # NoAddr => c = d
    /\ ToSet(list) = {c \in Conids : con[c] # NoAddr}
    /\ IsInjective(list)

\* There is a connection to the server, or an attempt at one, or the timer for the next
\* attempt runs, and never two of these; UdpGwClient and the connector know which.
LinkAgrees ==
    ~freed => /\ link.timer <=> ~link.have_socks
              /\ have_server <=> link.have_socks /\ link.socks_up
              /\ pipe.output <=> have_server

\* Whatever waits to be sent is being sent: the fair queue holds a packet when a flow has
\* one, and the sender works on it when there is a link, also when the packet is
\* older than the link.
NothingStalls ==
    ~freed => /\ pipe.sending = NoFlow <=> Waiting(queue, keepalive_sending) = {}
              /\ pipe.sending # NoFlow => pipe.sending \in Waiting(queue, keepalive_sending)
              /\ pipe.stream # "idle" <=> pipe.output /\ pipe.sending # NoFlow

\* The timer of the monitor runs exactly while nothing is sent, so that a keepalive is
\* never offered to its flow while that is busy.
KeepaliveWhenIdle == ~freed => (pipe.timer <=> pipe.sending = NoFlow)

\* Queues, stages and timer of the pipe agree: neither is inductive without the other.
PipeAgrees == NothingStalls /\ KeepaliveWhenIdle

\* No packet that was queued is lost, sent twice or overtaken when the link is lost and
\* made again: those of an id are written in the order they were queued, each to one link.
WrittenInOrder ==
    ~freed => \A c \in Conids :
        /\ Len(queue[c]) = accepted[c] - written[c]
        /\ \A i \in DOMAIN queue[c] : queue[c][i].n = written[c] + i

\* The server is told (REBIND) when it gets the first packet of a pair of addresses under
\* an id it knew for another; except under an id for which, now or earlier, that packet
\* was dropped because the queue was full.
RebindAnnounced ==
    [][\A c \in Conids :
          server[c] # NoAddr /\ server'[c] # server[c] /\ server'[c] # NoAddr
            => Head(queue[c]).rebind \/ c \in rebindLost]_vars

\* Every queue becomes empty, however often the link is lost meanwhile.
QueuesDrain == \A c \in Conids : queue[c] # <<>> ~> queue[c] = <<>>
=============================================================================
