---------------------------- MODULE SocksClient -----------------------------
(***************************************************************************)
(* BSocksClient: the SOCKS 5 handshake that comes before every relayed     *)
(* connection, and before the one to the udpgw server.                     *)
(*                                                                         *)
(* One buffer serves for everything that is sent and received, and one     *)
(* callback of each kind decides by the state what comes next.  Messages   *)
(* are written and read in pieces.  The server may send what it likes,     *)
(* also ahead of time; it may close or fail at any moment, and so may the  *)
(* user.  What is sent is known by its name; what is received, byte by     *)
(* byte, as far as the client looks at it.                                 *)
(***************************************************************************)
EXTENDS Integers, Sequences, SequencesExt

CONSTANTS
    auth_info,      \* the methods that are offered
    PasswordFits,   \* name and password have lengths SOCKS can express
    MessageLen,     \* the length of what is sent
    MaxMessages     \* bound on what the server sends

Methods == {"none", "password"}

ASSUME SocksClientAssumption ==
    /\ auth_info \subseteq Methods /\ PasswordFits \in BOOLEAN
    /\ MessageLen \in Nat \ {0} /\ MaxMessages \in Nat

VARIABLES
    state,
    buffer,         \* its size, 0 without
    content,        \* what was received into it
    out, out_left,  \* the message that is sent from it, and how much is to be written
    recv_len, recv_total,   \* the receiver; recv_total = 0 when it is not asked
    stream,         \* bytes from the server that were not read
    fin, fault,     \* the server has closed its side; the connection failed
    messages,       \* what the server has sent, see MaxMessages
    sent, read,     \* history: of the handshake
    events          \* history: what the user was told

control == <<state, buffer, content, out, out_left, recv_len, recv_total, sent, read, events>>
server == <<fin, fault, messages>>
vars == <<control, stream, server>>

HelloLen == 2
PasswordReplyLen == 2
ReplyHeaderLen == 3
AddrLen(atyp) == IF atyp = "4" THEN 1 ELSE 2

-----------------------------------------------------------------------------
\* Steps of the callbacks.  Each sets all of control.

NoIO == out' = "none" /\ out_left' = 0 /\ recv_len' = 0 /\ recv_total' = 0

\* BSocksClient_Free, by the user whenever it likes, and when it was told of an error.
Free(told) ==
    /\ state' = "freed" /\ buffer' = 0 /\ content' = <<>> /\ NoIO
    /\ events' = events \o told

report_error(error) == Free(<<error>>)

Send(message, next) ==
    /\ state' = next
    /\ buffer' = MessageLen /\ content' = <<>>
    /\ out' = message /\ out_left' = MessageLen
    /\ recv_len' = 0 /\ recv_total' = 0
    /\ UNCHANGED events

start_receive(size, already, total, next) ==
    /\ state' = next
    /\ buffer' = size /\ content' = already
    /\ recv_len' = 0 /\ recv_total' = total
    /\ out' = "none" /\ out_left' = 0
    /\ UNCHANGED events

\* reserve_buffer may fail.
Reserving(step) == step \/ report_error("ERROR")

-----------------------------------------------------------------------------
\* What the callbacks do when a message has been sent, or received as c.

HelloSent == Reserving(start_receive(HelloLen, <<>>, HelloLen, "SENT_HELLO"))

RequestSent_RoomForV4 ==
    Reserving(start_receive(ReplyHeaderLen + AddrLen("4"), <<>>, ReplyHeaderLen, "SENT_REQUEST"))

\* Room for the longer of the two addresses.
RequestSent ==
    Reserving(start_receive(ReplyHeaderLen + AddrLen("6"), <<>>, ReplyHeaderLen, "SENT_REQUEST"))

PasswordSent == Reserving(start_receive(PasswordReplyLen, <<>>, PasswordReplyLen, "SENT_PASSWORD"))

send_handler_done ==
    CASE state = "SENDING_HELLO" -> HelloSent
      [] state = "SENDING_PASSWORD" -> PasswordSent
      [] state = "SENDING_REQUEST" -> RequestSent

auth_finished == Reserving(Send("request", "SENDING_REQUEST"))

HelloReceived(c) ==
    IF c[1] # "5" \/ c[2] \notin auth_info THEN report_error("ERROR")
    ELSE IF c[2] = "none" THEN auth_finished
    ELSE IF PasswordFits THEN Reserving(Send("password", "SENDING_PASSWORD"))
    ELSE report_error("ERROR")

PasswordReceived_VersionOnly(c) ==
    IF c[1] # "1" THEN report_error("ERROR") ELSE auth_finished

PasswordReceived(c) ==
    IF c[1] # "1" \/ c[2] # "0" THEN report_error("ERROR") ELSE auth_finished

ReplyReceived(c) ==
    IF c[1] # "5" \/ c[2] # "0" \/ c[3] \notin {"4", "6"} THEN report_error("ERROR")
    ELSE start_receive(buffer, c, AddrLen(c[3]), "RECEIVED_REPLY_HEADER")

\* The streams of the handshake are replaced by those of the user.
Up ==
    /\ state' = "UP" /\ buffer' = 0 /\ content' = <<>> /\ NoIO
    /\ events' = Append(events, "UP")

Received(c) ==
    CASE state = "SENT_HELLO" -> HelloReceived(c)
      [] state = "SENT_PASSWORD" -> PasswordReceived(c)
      [] state = "SENT_REQUEST" -> ReplyReceived(c)
      [] state = "RECEIVED_REPLY_HEADER" -> Up

-----------------------------------------------------------------------------
\* Callbacks

\* The connector is done.  The user that is told may free the client at once.
connector_handler(is_error) ==
    /\ state = "CONNECTING"
    /\ IF is_error THEN report_error("ERROR")
       ELSE \/ /\ state' = "CONNECTED_HANDLER" /\ events' = Append(events, "CONNECTED")
               /\ UNCHANGED <<buffer, content, out, out_left, recv_len, recv_total>>
            \/ Free(<<"CONNECTED">>)
    /\ UNCHANGED <<sent, read, stream, server>>

\* The job that was set before the user was told runs before the connection is looked at.
continue_job_handler ==
    /\ state = "CONNECTED_HANDLER"
    /\ IF auth_info = {} THEN report_error("ERROR")
       ELSE Reserving(Send("hello", "SENDING_HELLO"))
    /\ UNCHANGED <<sent, read, stream, server>>

\* The connection has taken n bytes.
Write(n) ==
    /\ n \in 1..out_left /\ ~fault
    /\ IF n < out_left
       THEN /\ out_left' = out_left - n
            /\ UNCHANGED <<state, buffer, content, out, recv_len, recv_total, events, sent>>
       ELSE send_handler_done /\ sent' = Append(sent, out)
    /\ UNCHANGED <<read, stream, server>>

\* The rest is asked for.
do_receive(n) == recv_len' = recv_len + n /\ UNCHANGED recv_total

\* The connection has read n bytes.
recv_handler_done(n) ==
    /\ n \in 1..recv_total - recv_len /\ n <= Len(stream)
    /\ stream' = SubSeq(stream, n + 1, Len(stream))
    /\ read' = read \o SubSeq(stream, 1, n)
    /\ LET c == content \o SubSeq(stream, 1, n) IN
       IF recv_len + n < recv_total
       THEN /\ content' = c /\ do_receive(n)
            /\ UNCHANGED <<state, buffer, out, out_left, events>>
       ELSE Received(c)
    /\ UNCHANGED <<sent, server>>

\* A tunnel that ends is told from a handshake that does not.
ClosedEvent == IF state = "UP" THEN "ERROR_CLOSED" ELSE "ERROR"

\* The user has asked for data, once the client is up.
connection_handler_closed ==
    /\ fin /\ ~fault /\ stream = <<>>
    /\ recv_total > 0 \/ state = "UP"
    /\ report_error(ClosedEvent)
    /\ UNCHANGED <<sent, read, stream, server>>

connection_handler_error ==
    /\ fault /\ state \notin {"CONNECTING", "CONNECTED_HANDLER", "freed"}
    /\ report_error("ERROR")
    /\ UNCHANGED <<sent, read, stream, server>>

UserFrees ==
    /\ state # "freed"
    /\ Free(<<>>)
    /\ UNCHANGED <<sent, read, stream, server>>

-----------------------------------------------------------------------------
\* The server

Addr(n) == [i \in 1..n |-> "a"]

Replies ==
    {<<"5", "none">>, <<"5", "password">>, <<"5", "x">>, <<"x", "none">>,
     <<"1", "0">>, <<"1", "x">>, <<"x", "0">>,
     <<"5", "0", "4">> \o Addr(AddrLen("4")), <<"5", "0", "6">> \o Addr(AddrLen("6")),
     <<"5", "0", "x">>, <<"5", "x", "4">>, <<"x", "0", "4">>}

ServerSends(reply) ==
    /\ state \notin {"CONNECTING", "freed"} /\ ~fin /\ ~fault /\ messages < MaxMessages
    /\ stream' = stream \o reply /\ messages' = messages + 1
    /\ UNCHANGED <<control, fin, fault>>

ServerCloses ==
    /\ state \notin {"CONNECTING", "freed"} /\ ~fin
    /\ fin' = TRUE
    /\ UNCHANGED <<control, stream, fault, messages>>

ConnectionFails ==
    /\ state \notin {"CONNECTING", "freed"} /\ ~fault
    /\ fault' = TRUE
    /\ UNCHANGED <<control, stream, fin, messages>>

Init ==
    /\ state = "CONNECTING" /\ buffer = 0 /\ content = <<>>
    /\ out = "none" /\ out_left = 0 /\ recv_len = 0 /\ recv_total = 0
    /\ stream = <<>> /\ fin = FALSE /\ fault = FALSE /\ messages = 0
    /\ sent = <<>> /\ read = <<>> /\ events = <<>>

SomeWrite == \E n \in 1..MessageLen : Write(n)
SomeRead == \E n \in 1..ReplyHeaderLen : recv_handler_done(n)

Next ==
    \/ \E is_error \in BOOLEAN : connector_handler(is_error)
    \/ continue_job_handler \/ SomeWrite \/ SomeRead
    \/ connection_handler_closed \/ connection_handler_error \/ UserFrees
    \/ \E reply \in Replies : ServerSends(reply)
    \/ ServerCloses \/ ConnectionFails

Spec == Init /\ [][Next]_vars

-----------------------------------------------------------------------------
(***************************************************************************)
(* Properties                                                              *)
(***************************************************************************)

Sending == {"SENDING_HELLO", "SENDING_PASSWORD", "SENDING_REQUEST"}
Receiving == {"SENT_HELLO", "SENT_PASSWORD", "SENT_REQUEST", "RECEIVED_REPLY_HEADER"}

\* The receiver has less than it asked for, and nothing is in progress without a buffer.
TypeOK ==
    /\ state \in Sending \cup Receiving \cup {"CONNECTING", "CONNECTED_HANDLER", "UP", "freed"}
    /\ out \in {"none", "hello", "password", "request"} /\ out_left \in 0..MessageLen
    /\ recv_total \in 0..ReplyHeaderLen /\ (recv_total > 0 => recv_len \in 0..recv_total - 1)
    /\ {fin, fault} \subseteq BOOLEAN /\ messages \in 0..MaxMessages
    /\ buffer = 0 => out = "none" /\ recv_total = 0

\* The one buffer is never asked to hold two things, and what is being received fits behind
\* what was: no callback reallocates or overwrites it under an operation that uses it.
BufferFits ==
    /\ out # "none" => recv_total = 0 /\ content = <<>> /\ out_left <= buffer
    /\ Len(content) + (recv_total - recv_len) <= buffer

\* A handshake that is neither over nor given up is sending or waiting for an answer, exactly
\* one of them: no callback leaves the client with nothing to wake it up.
NeverIdle ==
    /\ state \in Sending => out # "none" /\ recv_total = 0
    /\ state \in Receiving => out = "none" /\ recv_total > recv_len

\* The buffer and the two streams are used for one thing at a time, and always for one.
HandshakeAgrees == TypeOK /\ BufferFits /\ NeverIdle

AnsweredTo(method, atyp) ==
    <<"5", method>> \o (IF method = "password" THEN <<"1", "0">> ELSE <<>>)
                    \o <<"5", "0", atyp>> \o Addr(AddrLen(atyp))

Asked(method) ==
    IF method = "password" THEN <<"hello", "password", "request">> ELSE <<"hello", "request">>

\* The client is up only after the server has agreed to a method that was offered, accepted
\* the password if it chose that, and granted the request; and it has read just these answers,
\* to the byte, so that the tunnel begins with the first byte that follows.
UpMeansAgreed ==
    state = "UP" =>
        \E method \in auth_info, atyp \in {"4", "6"} :
            /\ read = AnsweredTo(method, atyp) /\ sent = Asked(method)
            /\ method = "password" => PasswordFits

\* What the user is told is in the order that tun2socks and SocksUdpGwClient rely on: up once
\* and after connected, closed only when it was up (the assert of client_socks_handler), and
\* nothing after an error.
EventsInOrder ==
    \E last \in {<<>>, <<"ERROR">>} :
        \/ events \in {last, <<"CONNECTED">> \o last, <<"CONNECTED", "UP">> \o last}
        \/ events = <<"CONNECTED", "UP", "ERROR_CLOSED">>

\* What the user is told is true, and comes when the user expects it.
UserCanRely == UpMeansAgreed /\ EventsInOrder
=============================================================================
