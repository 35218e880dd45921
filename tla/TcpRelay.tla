------------------------------ MODULE TcpRelay ------------------------------
(***************************************************************************)
(* The TCP half of tun2socks: struct tcp_client of tun2socks.c, which      *)
(* relays one TCP connection accepted by lwIP to one SOCKS connection, and *)
(* the part of the lwIP pcb (tcp_in.c, tcp.c, tcp_out.c) the relay reads   *)
(* and drives.                                                             *)
(*                                                                         *)
(* Everything runs on one thread.  lwIP calls the relay from inside        *)
(* tcp_input(), and three of the callbacks run the reactor jobs they have  *)
(* just caused (SYNC_COMMIT) before they return to lwIP, so that the       *)
(* client can be freed, and the pcb aborted, while tcp_input() still holds *)
(* the pcb.  `input' is what tcp_input() has in hand, and one action is    *)
(* one callback, one job or one step of tcp_input() between two callbacks. *)
(*                                                                         *)
(* A byte is its position in its stream, counted from 1: the app's bytes   *)
(* are 1, 2, ... in the order the relay is given them, and so are the      *)
(* server's.                                                               *)
(***************************************************************************)
EXTENDS Integers, Sequences

CONSTANTS
    Clients,        \* slots for simultaneous connections
    NoClient,       \* not one of them
    TcpWnd,         \* TCP_WND: lwIP's receive window, and sizeof(client->buf)
    SndBuf,         \* TCP_SND_BUF: lwIP's send buffer
    SocksRecvBuf,   \* CLIENT_SOCKS_RECV_BUF_SIZE
    UpBytes,        \* bound: bytes the app sends on one connection
    DownBytes       \* bound: bytes the server sends on one connection

ASSUME SizesAssumption ==
    /\ TcpWnd \in Nat \ {0}
    /\ SndBuf \in Nat \ {0}
    /\ SocksRecvBuf \in Nat \ {0}
    /\ UpBytes \in Nat
    /\ DownBytes \in Nat

ASSUME ClientsAssumption == NoClient \notin Clients

VARIABLES
    cl,             \* [Clients -> the client's struct and its pcb]
    net,            \* [Clients -> how far the two streams have got at both ends]
    input,          \* the segment tcp_input() is working on
    running         \* FALSE once main() has left the event loop

vars == <<cl, net, input, running>>

\* CLOSING stands for every state after our FIN, TIME_WAIT for the state after
\* the reset that tcp_close() sends from ESTABLISHED, TO_FREE for a pcb whose
\* memory tcp_input() is to free (TF_CLOSED).
PcbStates == {"FREED", "ESTABLISHED", "CLOSE_WAIT", "CLOSING", "TIME_WAIT", "TO_FREE"}

Buffer(n) == {s \in Seq(Nat) : Len(s) <= n}

Client ==
    [alloc : BOOLEAN, client_closed : BOOLEAN, socks_up : BOOLEAN,
     socks_closed : BOOLEAN, aborted : BOOLEAN,
     buf : Buffer(TcpWnd),              \* client->buf[0 .. buf_used)
     rbuf : Buffer(SocksRecvBuf),       \* socks_recv_buf[_sent .. _used), empty if _used = -1
     sending : Nat,                     \* length given to the SOCKS sender, 0 if idle
     receiving : BOOLEAN,               \* a SOCKS receive is in progress
     waiting : BOOLEAN,                 \* socks_recv_waiting
     pending : Int,                     \* socks_recv_tcp_pending
     dead : {"off", "alive", "aborted", "freed"},   \* client->dead_aborted
     pcb : PcbStates,
     rcv_wnd : Int,
     sndq : Buffer(SndBuf),             \* written and not acknowledged
     cb : SUBSET {"err", "recv", "sent"},   \* callbacks registered in the pcb
     ok : BOOLEAN]                      \* no ASSERT has failed, no data was refused

Net == [app_sent : Nat, srv_got : Nat, srv_sent : Nat, app_got : Nat]

\* The "...sync" stages are inside BReactor_Synchronize(), called from the
\* callback of that stage.
Stages == {"acceptsync", "sent", "sentsync", "recv", "recvsync", "fin"}

NoInput == [stage |-> "idle", conn |-> NoClient, acked |-> 0, len |-> 0, fin |-> FALSE]

Segment == [stage : Stages, conn : Clients, acked : Nat, len : Nat, fin : BOOLEAN]

Input == {NoInput} \cup Segment

Bytes(from, n) == [k \in 1..n |-> from + k]

Drop_One(s, n) == SubSeq(s, 2, Len(s))

Drop(s, n) == SubSeq(s, n + 1, Len(s))

Lesser(m, n) == IF m < n THEN m ELSE n

\* A slot whose struct is new (used) or not allocated, around a given pcb.
Slot(used, pcb, rcv_wnd, sndq, cb, dead, ok) ==
    [alloc |-> used, client_closed |-> ~used, socks_up |-> FALSE,
     socks_closed |-> ~used, aborted |-> FALSE, buf |-> <<>>, rbuf |-> <<>>,
     sending |-> 0, receiving |-> FALSE, waiting |-> FALSE, pending |-> 0,
     dead |-> dead, pcb |-> pcb, rcv_wnd |-> rcv_wnd, sndq |-> sndq, cb |-> cb,
     ok |-> ok]

\* Also what listener_accept_func() leaves behind when it fails.
FreeSlot == Slot(FALSE, "FREED", TcpWnd, <<>>, {}, "off", TRUE)

\* What listener_accept_func() sets up before its SYNC_COMMIT.
AcceptedSlot == Slot(TRUE, "ESTABLISHED", TcpWnd, <<>>, {"err", "recv"}, "alive", TRUE)

-----------------------------------------------------------------------------
(* lwIP, as far as the relay calls it. *)

\* tcp_close() resets the connection, and drops what was queued, if the app's
\* data was not all tcp_recved().  It never fails: when there is no memory for
\* the FIN, lwIP retries.
tcp_close(c) ==
    IF c.pcb \notin {"ESTABLISHED", "CLOSE_WAIT"} THEN c
    ELSE IF c.rcv_wnd = TcpWnd THEN [c EXCEPT !.pcb = "CLOSING"]
    ELSE IF c.pcb = "ESTABLISHED" THEN [c EXCEPT !.pcb = "TIME_WAIT", !.sndq = <<>>]
    ELSE [c EXCEPT !.pcb = "TO_FREE", !.sndq = <<>>]

tcp_abort(c) == [c EXCEPT !.pcb = "FREED", !.sndq = <<>>]

tcp_recved(c, n) == [c EXCEPT !.rcv_wnd = Lesser(@ + n, TcpWnd)]

-----------------------------------------------------------------------------
(* tun2socks.c: the helpers that take a client apart. *)

ASSERT(c, condition) == [c EXCEPT !.ok = @ /\ condition]

\* DEAD_KILL_WITH: has an effect only between DEAD_ENTER and DEAD_LEAVE.
DeadKill(c, how) == [c EXCEPT !.dead = IF @ = "off" THEN "off" ELSE how]

FreeSocksClient_KeepsReceive(c) == [c EXCEPT !.socks_closed = TRUE, !.sending = 0]

\* BSocksClient_Free and socks_closed = 1: cancels the stream operations.
FreeSocksClient(c) ==
    [c EXCEPT !.socks_closed = TRUE, !.sending = 0, !.receiving = FALSE]

\* The memory is gone: the slot keeps only what lwIP and the callback on the
\* stack still have.
Freed(c) == Slot(FALSE, c.pcb, c.rcv_wnd, c.sndq, c.cb, c.dead, c.ok)

client_dealloc_KillsAborted(c) ==
    Freed(DeadKill(ASSERT(c, c.alloc /\ c.client_closed /\ c.socks_closed), "freed"))

client_dealloc(c) ==
    LET a == ASSERT(c, c.alloc /\ c.client_closed /\ c.socks_closed)
    IN  Freed(IF a.aborted THEN a ELSE DeadKill(a, "freed"))

\* Called with the pcb already taken care of.  Its call of client_free_socks()
\* is made with client_closed set, where that function frees SOCKS and deallocates.
client_handle_freed_client(c) ==
    LET d == [ASSERT(c, ~c.client_closed) EXCEPT !.client_closed = TRUE]
    IN  IF d.buf # <<>> /\ ~d.socks_closed THEN d
        ELSE client_dealloc(IF d.socks_closed THEN d ELSE FreeSocksClient(d))

RemoveCallbacks(c) == [c EXCEPT !.cb = {}]

client_free_client(c) == client_handle_freed_client(tcp_close(RemoveCallbacks(c)))

client_abort_pcb(c) ==
    DeadKill([tcp_abort(ASSERT(c, ~c.aborted)) EXCEPT !.aborted = TRUE], "aborted")

client_abort_client_KeepsOpen(c) == client_abort_pcb(RemoveCallbacks(c))

client_abort_client(c) ==
    client_handle_freed_client(client_abort_pcb(RemoveCallbacks(c)))

client_free_socks_IgnoresPending(c) ==
    LET a == ASSERT(c, ~c.socks_closed)
        d == FreeSocksClient(IF a.socks_up /\ ~a.client_closed
                             THEN [a EXCEPT !.cb = @ \ {"recv"}] ELSE a)
    IN  IF d.socks_up /\ d.rbuf # <<>> /\ ~d.client_closed THEN d
        ELSE IF d.client_closed THEN client_dealloc(d) ELSE client_free_client(d)

client_free_socks(c) ==
    LET a == ASSERT(c, ~c.socks_closed)
        d == FreeSocksClient(IF a.socks_up /\ ~a.client_closed
                             THEN [a EXCEPT !.cb = @ \ {"recv"}] ELSE a)
    IN  IF d.socks_up /\ (d.rbuf # <<>> \/ d.pending > 0) /\ ~d.client_closed THEN d
        ELSE IF d.client_closed THEN client_dealloc(d) ELSE client_free_client(d)

client_murder(c) ==
    LET d == IF c.client_closed THEN c
             ELSE [client_abort_pcb(RemoveCallbacks(c)) EXCEPT !.client_closed = TRUE]
    IN  client_dealloc(FreeSocksClient(d))

-----------------------------------------------------------------------------
(* tun2socks.c: the two directions. *)

client_send_to_socks(c) ==
    [ASSERT(c, ~c.socks_closed /\ c.socks_up /\ c.buf # <<>> /\ c.sending = 0)
        EXCEPT !.sending = Len(c.buf)]

client_socks_send_handler_done_NoRecved(c, n) ==
    LET d == [c EXCEPT !.buf = Drop(@, n), !.sending = 0]
    IN  IF d.buf # <<>> THEN client_send_to_socks(d)
        ELSE IF d.client_closed THEN client_free_socks(d) ELSE d

client_socks_send_handler_done_NoFree(c, n) ==
    LET b == [c EXCEPT !.buf = Drop(@, n), !.sending = 0]
        d == IF b.client_closed THEN b ELSE tcp_recved(b, n)
    IN  IF d.buf # <<>> THEN client_send_to_socks(d) ELSE d

\* n bytes from the front of buf were written to the SOCKS server.
client_socks_send_handler_done(c, n) ==
    LET a == ASSERT(c, ~c.socks_closed /\ c.socks_up /\ n <= Len(c.buf))
        b == [a EXCEPT !.buf = Drop(@, n), !.sending = 0]
        d == IF b.client_closed THEN b ELSE tcp_recved(b, n)
    IN  IF d.buf # <<>> THEN client_send_to_socks(d)
        ELSE IF d.client_closed THEN client_free_socks(d) ELSE d

client_socks_recv_initiate(c) ==
    [ASSERT(c, /\ ~c.client_closed /\ ~c.socks_closed /\ c.socks_up
               /\ c.rbuf = <<>> /\ ~c.receiving) EXCEPT !.receiving = TRUE]

client_socks_recv_send_out_NoSndBuf(c, oom, fail) ==
    [c EXCEPT !.sndq = @ \o c.rbuf, !.rbuf = <<>>, !.pending = @ + Len(c.rbuf)]

\* The loop over tcp_write() moves all it can at once: after a write either
\* nothing is left in socks_recv_buf or nothing is left of the send buffer.
\* oom: tcp_write() returns ERR_MEM; fail: tcp_output() fails.
client_socks_recv_send_out(c, oom, fail) ==
    LET a == ASSERT(c, /\ ~c.client_closed /\ c.socks_up /\ ~c.waiting
                       /\ c.rbuf # <<>>)
        n == Lesser(Len(a.rbuf), SndBuf - Len(a.sndq))
        d == IF n = 0 \/ oom THEN a
             ELSE [a EXCEPT !.sndq = @ \o SubSeq(a.rbuf, 1, n),
                            !.rbuf = Drop(@, n), !.pending = @ + n]
    IN  IF n > 0 /\ a.pcb \notin {"ESTABLISHED", "CLOSE_WAIT"} THEN client_abort_client(a)
        ELSE IF fail THEN client_abort_client(d)
        ELSE IF d.rbuf = <<>> THEN d
        ELSE IF d.pending = 0 THEN client_abort_client(d)
        ELSE [d EXCEPT !.waiting = TRUE]

\* data arrived from the SOCKS server.
client_socks_recv_handler_done(c, data, oom, fail) ==
    LET a == [ASSERT(c, ~c.socks_closed /\ c.socks_up /\ c.rbuf = <<>>)
                EXCEPT !.receiving = FALSE]
        d == client_socks_recv_send_out([a EXCEPT !.rbuf = data, !.waiting = FALSE],
                                        oom, fail)
    IN  IF a.client_closed THEN a
        ELSE IF d.client_closed \/ d.rbuf # <<>> THEN d
        ELSE client_socks_recv_initiate(d)

\* client_socks_handler(), BSOCKSCLIENT_EVENT_UP.
SocksUpEvent(c) ==
    LET a == [ASSERT(c, ~c.socks_up /\ ~c.socks_closed)
                EXCEPT !.socks_up = TRUE, !.rbuf = <<>>, !.pending = 0,
                       !.cb = IF c.client_closed THEN @ ELSE @ \cup {"sent"}]
        d == IF a.buf # <<>> THEN client_send_to_socks(a) ELSE a
    IN  IF d.client_closed THEN d ELSE client_socks_recv_initiate(d)

client_sent_func_NoInitiate(c, len, oom) ==
    LET a == [c EXCEPT !.pending = @ - len]
        d == client_socks_recv_send_out([a EXCEPT !.waiting = FALSE], oom, FALSE)
    IN  IF a.rbuf # <<>> THEN d
        ELSE IF a.socks_closed /\ a.pending = 0 THEN client_free_client(a) ELSE a

\* The part of client_sent_func() before its SYNC_COMMIT.  Inside tcp_input()
\* tcp_output() returns at once, so that it cannot fail.
client_sent_func(c, len, oom) ==
    LET a == ASSERT([c EXCEPT !.pending = @ - len],
                    ~c.client_closed /\ c.socks_up /\ len <= c.pending)
        b == client_socks_recv_send_out([ASSERT(a, a.waiting) EXCEPT !.waiting = FALSE],
                                        oom, FALSE)
        d == IF b.client_closed THEN b ELSE ASSERT(b, b.pending > 0)
    IN  IF a.rbuf # <<>>
        THEN IF d.client_closed \/ d.socks_closed \/ d.rbuf # <<>> THEN d
             ELSE client_socks_recv_initiate(d)
        ELSE IF a.socks_closed /\ a.pending = 0 THEN client_free_client(a) ELSE a

\* client_recv_func() for data, before its SYNC_COMMIT.  ("no buffer for data
\* !?!", where it returns ERR_MEM, clears ok.)
client_recv_func(c, data) ==
    LET a == ASSERT(c, ~c.client_closed)
        d == [a EXCEPT !.buf = @ \o data]
    IN  IF Len(data) > TcpWnd - Len(a.buf) THEN ASSERT(a, FALSE)
        ELSE IF a.buf = <<>> /\ d.socks_up THEN client_send_to_socks(d) ELSE d

-----------------------------------------------------------------------------
(* tcp_input(), for one connection at a time. *)

Idle == input.stage = "idle"

DeadEnter(c) == [c EXCEPT !.dead = "alive"]

DeadLeave(c) == [c EXCEPT !.dead = "off"]

\* What tcp_input() does next: data, then the FIN, then it is done.
Rest(in) == IF in.len > 0 THEN [in EXCEPT !.stage = "recv"]
            ELSE IF in.fin THEN [in EXCEPT !.stage = "fin"]
            ELSE NoInput

FinLen(f) == IF f THEN 1 ELSE 0

\* tcp_process() and tcp_receive() accept n bytes and perhaps the FIN.
Receive(c, n, f) ==
    [c EXCEPT !.rcv_wnd = @ - n - FinLen(f),
              !.pcb = IF f /\ @ = "ESTABLISHED" THEN "CLOSE_WAIT" ELSE @]

\* The callback has left c, and tcp_input() goes on with `in'.  It touches the
\* pcb no more after ERR_ABRT; before the data and at the very end it frees a
\* pcb that is to be freed; it aborts a closed pcb that gets data.
GoOn(i, c, in, beforeData) ==
    LET stop == \/ c.dead = "aborted"
                \/ c.pcb = "TO_FREE" /\ (beforeData \/ Rest(in) = NoInput)
                \/ c.pcb \in {"CLOSING", "TIME_WAIT"} /\ beforeData /\ in.len > 0
    IN  /\ cl' = [cl EXCEPT ![i] = DeadLeave(IF stop THEN tcp_abort(c) ELSE c)]
        /\ input' = IF stop THEN NoInput ELSE Rest(in)
        /\ UNCHANGED running

\* The callback has run up to its SYNC_COMMIT.
Sync(i, c, in, stage) ==
    /\ cl' = [cl EXCEPT ![i] = c]
    /\ input' = [in EXCEPT !.stage = stage]
    /\ UNCHANGED running

\* listener_accept_func(), called by tcp_process(), up to its SYNC_COMMIT.  (When
\* it fails it returns ERR_MEM and lwIP drops the pcb: no state changes.)  The
\* segment may carry data and a FIN, which lwIP looks at after the callback.
listener_accept_func(i, n, f) ==
    /\ running /\ Idle
    /\ ~cl[i].alloc /\ cl[i].pcb = "FREED"
    /\ n + FinLen(f) <= TcpWnd /\ n <= UpBytes
    /\ net' = [net EXCEPT ![i] = [app_sent |-> 0, srv_got |-> 0,
                                  srv_sent |-> 0, app_got |-> 0]]
    /\ Sync(i, AcceptedSlot, [NoInput EXCEPT !.conn = i, !.len = n, !.fin = f], "acceptsync")

\* The callback's SYNC_COMMIT ends, and with it the callback.
SyncCommit ==
    LET i == input.conn IN
    /\ UNCHANGED net
    /\ \/ /\ input.stage = "acceptsync"
          /\ GoOn(i, IF cl[i].dead = "aborted" THEN cl[i]
                     ELSE Receive(cl[i], input.len, input.fin), input, TRUE)
       \/ input.stage = "sentsync" /\ GoOn(i, cl[i], input, TRUE)
       \/ input.stage = "recvsync" /\ GoOn(i, cl[i], input, FALSE)

\* A segment for a connection the relay may still own: it acknowledges a bytes
\* and brings n new ones and perhaps the FIN.
SegmentArrives(i, a, n, f) ==
    LET c == cl[i] IN
    /\ running /\ Idle
    /\ c.pcb \in {"ESTABLISHED", "CLOSE_WAIT"}
    /\ a <= Len(c.sndq)
    /\ n > 0 \/ f => c.pcb = "ESTABLISHED"
    /\ n + FinLen(f) <= c.rcv_wnd
    /\ net[i].app_sent + n <= UpBytes
    /\ a + n > 0 \/ f
    /\ cl' = [cl EXCEPT ![i] = Receive([c EXCEPT !.sndq = Drop(@, a)], n, f)]
    /\ net' = [net EXCEPT ![i].app_got = @ + a]
    /\ input' = [stage |-> "sent", conn |-> i, acked |-> a, len |-> n, fin |-> f]
    /\ UNCHANGED running

SentEvent(oom) ==
    LET i == input.conn
        c == cl[i]
        d == client_sent_func(DeadEnter(c), input.acked, oom)
        rest == [input EXCEPT !.acked = 0]
    IN  /\ input.stage = "sent"
        /\ UNCHANGED net
        /\ \/ /\ input.acked = 0 \/ "sent" \notin c.cb
              /\ GoOn(i, c, rest, TRUE)
           \/ /\ input.acked > 0 /\ "sent" \in c.cb
              /\ d.receiving /\ ~c.receiving
              /\ Sync(i, d, rest, "sentsync")
           \/ /\ input.acked > 0 /\ "sent" \in c.cb
              /\ ~d.receiving \/ c.receiving
              /\ GoOn(i, d, rest, TRUE)

\* Without a callback, tcp_recv_null() takes the data and drops it.
RecvEvent ==
    LET i == input.conn
        c == cl[i]
        d == client_recv_func(DeadEnter(c), Bytes(net[i].app_sent, input.len))
        rest == [input EXCEPT !.len = 0]
    IN  /\ input.stage = "recv"
        /\ net' = [net EXCEPT ![i].app_sent = @ + input.len]
        /\ \/ "recv" \notin c.cb /\ GoOn(i, tcp_recved(c, input.len), rest, FALSE)
           \/ /\ "recv" \in c.cb /\ d.sending > 0 /\ c.sending = 0
              /\ Sync(i, d, rest, "recvsync")
           \/ /\ "recv" \in c.cb /\ (d.sending = 0 \/ c.sending > 0)
              /\ GoOn(i, d, rest, FALSE)

\* client_recv_func() without data.
FinEvent ==
    LET i == input.conn
        c == [cl[i] EXCEPT !.rcv_wnd = IF @ = TcpWnd THEN @ ELSE @ + 1]
        rest == [input EXCEPT !.fin = FALSE]
    IN  /\ input.stage = "fin"
        /\ UNCHANGED net
        /\ \/ "recv" \notin c.cb /\ GoOn(i, c, rest, FALSE)
           \/ "recv" \in c.cb /\ GoOn(i, client_free_client(DeadEnter(c)), rest, FALSE)

\* A reset arrives, or tcp_slowtmr() gives up, or lwIP needs the pcb's memory.
PcbDies(i) ==
    LET d == RemoveCallbacks(tcp_abort(cl[i])) IN
    /\ running /\ Idle
    /\ cl[i].pcb \in {"ESTABLISHED", "CLOSE_WAIT"}
    /\ cl' = [cl EXCEPT ![i] = IF "err" \in cl[i].cb
                               THEN client_handle_freed_client(d) ELSE d]
    /\ UNCHANGED <<net, input, running>>

\* The app acknowledges bytes of a connection that only lwIP still knows.
OrphanAck(i, a) ==
    /\ running /\ Idle
    /\ cl[i].pcb = "CLOSING" /\ a <= Len(cl[i].sndq)
    /\ cl' = [cl EXCEPT ![i].sndq = Drop(@, a)]
    /\ net' = [net EXCEPT ![i].app_got = @ + a]
    /\ UNCHANGED <<input, running>>

\* Such a connection ends: its FIN is acknowledged, or it times out, or it is
\* reset, also because the app sent more data.
OrphanGone(i) ==
    /\ running /\ Idle
    /\ cl[i].pcb \in {"CLOSING", "TIME_WAIT"}
    /\ cl' = [cl EXCEPT ![i] = tcp_abort(cl[i])]
    /\ UNCHANGED <<net, input, running>>

-----------------------------------------------------------------------------
(* Jobs of the reactor. *)

\* A job runs from the event loop, or inside the SYNC_COMMIT of one of the
\* given stages if it was set there: the pending jobs are a stack, and
\* BReactor_Synchronize() runs what lies above the mark of the callback.  What
\* the job does to a pcb to be freed outside of tcp_input() is done at once.
Job(i, stages, c) ==
    /\ running
    /\ Idle \/ (input.stage \in stages /\ input.conn = i)
    /\ cl' = [cl EXCEPT ![i] = IF Idle /\ c.pcb = "TO_FREE" THEN tcp_abort(c) ELSE c]
    /\ UNCHANGED <<input, running>>

SendDone(i, n) ==
    /\ n <= cl[i].sending
    /\ Job(i, {"acceptsync", "recvsync"}, client_socks_send_handler_done(cl[i], n))
    /\ net' = [net EXCEPT ![i].srv_got = @ + n]

\* Inside tcp_input() for the pcb, tcp_output() returns at once.
RecvDone(i, n, oom, fail) ==
    /\ cl[i].receiving
    /\ fail => Idle
    /\ net[i].srv_sent + n <= DownBytes
    /\ Job(i, {"acceptsync", "sentsync"},
           client_socks_recv_handler_done(cl[i], Bytes(net[i].srv_sent, n), oom, fail))
    /\ net' = [net EXCEPT ![i].srv_sent = @ + n]

\* client_socks_handler(): the SOCKS handshake is done.
SocksUp(i) ==
    /\ ~cl[i].socks_closed /\ ~cl[i].socks_up
    /\ Job(i, {"acceptsync"}, SocksUpEvent(cl[i]))
    /\ UNCHANGED net

\* client_socks_handler(): BSOCKSCLIENT_EVENT_ERROR_CLOSED, end of file.
SocksEof(i) ==
    /\ cl[i].receiving
    /\ Job(i, {"acceptsync", "sentsync"}, client_free_socks(ASSERT(cl[i], cl[i].socks_up)))
    /\ UNCHANGED net

\* client_socks_handler(): BSOCKSCLIENT_EVENT_ERROR.
SocksError(i) ==
    /\ ~cl[i].socks_closed
    /\ Job(i, {"acceptsync", "sentsync", "recvsync"}, client_free_socks(cl[i]))
    /\ UNCHANGED net

\* A signal or a device error ends the event loop, and main() kills the clients.
Terminate ==
    /\ running /\ Idle
    /\ running' = FALSE
    /\ cl' = [i \in Clients |-> IF cl[i].alloc THEN client_murder(cl[i]) ELSE cl[i]]
    /\ UNCHANGED <<net, input>>

Exited == ~running /\ UNCHANGED vars

Init ==
    /\ cl = [i \in Clients |-> FreeSlot]
    /\ net = [i \in Clients |-> [app_sent |-> 0, srv_got |-> 0, srv_sent |-> 0, app_got |-> 0]]
    /\ input = NoInput
    /\ running = TRUE

TcpInputStep ==
    SyncCommit \/ (\E oom \in BOOLEAN : SentEvent(oom)) \/ RecvEvent \/ FinEvent

App(i) ==
    \/ \E n \in 0..TcpWnd, f \in BOOLEAN : listener_accept_func(i, n, f)
    \/ \E a \in 0..SndBuf, n \in 0..TcpWnd, f \in BOOLEAN : SegmentArrives(i, a, n, f)
    \/ PcbDies(i)
    \/ \E a \in 1..SndBuf : OrphanAck(i, a)
    \/ OrphanGone(i)

Socks(i) ==
    \/ \E n \in 1..TcpWnd : SendDone(i, n)
    \/ \E n \in 1..SocksRecvBuf, oom, fail \in BOOLEAN : RecvDone(i, n, oom, fail)
    \/ SocksUp(i)
    \/ SocksEof(i)
    \/ SocksError(i)

Next == TcpInputStep \/ (\E i \in Clients : App(i) \/ Socks(i)) \/ Terminate \/ Exited

Spec == Init /\ [][Next]_vars

\* What keeps a relay going.  tcp_input() is a function call: it returns.  lwIP
\* retransmits until the app acknowledges or the pcb is given up; the SOCKS
\* handshake ends one way or the other; the server keeps reading what is sent to
\* it.  Each has to wait for the event loop while another connection is in
\* tcp_input(), hence SF.
AckOrDie(i) ==
    /\ cl[i].sndq # <<>>
    /\ PcbDies(i) \/ \E a \in 1..SndBuf : SegmentArrives(i, a, 0, FALSE)

HandshakeEnds(i) == SocksUp(i) \/ (~cl[i].socks_up /\ SocksError(i))

Fairness == /\ WF_vars(TcpInputStep)
            /\ \A i \in Clients : /\ SF_vars(AckOrDie(i))
                                  /\ SF_vars(HandshakeEnds(i))
                                  /\ SF_vars(\E n \in 1..TcpWnd : SendDone(i, n))

FairSpec == Spec /\ Fairness

-----------------------------------------------------------------------------
(* Properties *)

\* Every field keeps the range the C declarations and their uses give it; no
\* buffer of the relay and no send queue of lwIP outgrows its array.
TypeOK == /\ cl \in [Clients -> Client]
          /\ net \in [Clients -> Net]
          /\ input \in Input
          /\ running \in BOOLEAN

Open(c) == c.alloc /\ ~c.client_closed

\* What tcp_input() has in hand for connection i.
InHand(i) == IF input.conn = i THEN input ELSE NoInput

\* No ASSERT of the client functions fails; the Android build compiles them out
\* (NDEBUG), so that after a failing one it would go on in the state it excludes.
AssertsHold == \A i \in Clients : cl[i].ok

\* As long as a client counts its pcb as its own (client_closed = 0), the pcb
\* exists, is not being closed by lwIP, and reports its end to client_err_func.
NoDanglingPcb ==
    \A i \in Clients :
        Open(cl[i]) => cl[i].pcb \in {"ESTABLISHED", "CLOSE_WAIT"} /\ "err" \in cl[i].cb

\* No pcb keeps a callback into a client that was freed or has let it go.
NoDanglingCallback == \A i \in Clients : cl[i].cb # {} => Open(cl[i])

\* Whoever goes first, the relay and lwIP never refer to what the other has freed.
NothingDangles == NoDanglingPcb /\ NoDanglingCallback

\* "Return ERR_ABRT if and only if tcp_abort was called from this callback":
\* while tcp_input() runs on a pcb, the pcb's memory is gone exactly if the
\* callback in progress is going to say so.
AbortIsReported ==
    ~Idle => (cl[input.conn].dead = "aborted" <=> cl[input.conn].pcb = "FREED")

\* The invariant behind these three, strong enough to be kept by every step.
\* A slot that is not allocated has no operation in progress; `aborted' and the
\* dead flag say so when the pcb is gone; and the dead flag is watched exactly
\* between DEAD_ENTER and DEAD_LEAVE.
Core(c) ==
    /\ ~c.alloc => c.client_closed /\ c.socks_closed /\ ~c.receiving /\ c.sending = 0
    /\ c.alloc /\ c.aborted => c.pcb = "FREED"
    /\ c.alloc /\ c.dead = "aborted" => c.aborted
    /\ c.dead # "off" => (c.dead = "aborted" <=> c.pcb = "FREED")

Owned(c) ==
    /\ Core(c)
    /\ Open(c) => c.pcb \in {"ESTABLISHED", "CLOSE_WAIT"} /\ "err" \in c.cb
    /\ c.cb # {} => Open(c)

Ownership ==
    \A i \in Clients :
        /\ Owned(cl[i])
        /\ cl[i].dead # "off" <=> InHand(i).stage \in {"acceptsync", "sentsync", "recvsync"}
        /\ InHand(i).stage \in {"sent", "recv", "fin"} => cl[i].pcb # "FREED"

\* The window offered to the app is the free part of client->buf, so that
\* client_recv_func never meets "no buffer for data" (which would clear ok).
\* What a segment brought has left the window when tcp_input() hands it over.
WindowIsFreeBuffer ==
    \A i \in Clients :
        LET in == InHand(i)
            held == IF in.stage = "acceptsync" THEN 0 ELSE in.len + FinLen(in.fin)
        IN  Open(cl[i]) => cl[i].rcv_wnd + Len(cl[i].buf) + held = TcpWnd

\* socks_recv_tcp_pending is what lwIP still holds unacknowledged, and
\* client_sent_func is there to hear of it.
PendingIsQueued ==
    \A i \in Clients : Open(cl[i]) /\ cl[i].socks_up =>
        /\ cl[i].pending = Len(cl[i].sndq) + InHand(i).acked
        /\ "sent" \in cl[i].cb

\* The two counters of the flow control agree with the buffers they are about.
CountersAgree == WindowIsFreeBuffer /\ PendingIsQueued

\* Between callbacks every client waits for something that will come: data for
\* the server is being sent; either a receive is in progress or what was received
\* waits for an acknowledgement that is due; a client that has lost one side still
\* has something to deliver to the other.
Wakeable(c) ==
    /\ c.socks_up /\ ~c.socks_closed => (c.sending > 0 <=> c.buf # <<>>)
    /\ Open(c) /\ c.socks_up /\ ~c.socks_closed => (c.receiving <=> c.rbuf = <<>>)
    /\ Open(c) /\ c.socks_up /\ c.rbuf # <<>> => c.waiting /\ c.pending > 0
    /\ Open(c) /\ c.socks_closed => c.socks_up /\ c.pending > 0
    /\ c.alloc /\ c.client_closed => c.buf # <<>> /\ ~c.socks_closed

NoClientIsStuck ==
    \A i \in Clients : InHand(i).stage = "idle" => Wakeable(cl[i])

\* Neither direction loses, repeats or reorders a byte as long as the relay
\* has both ends: what it holds continues what the other end already has.
BytesInOrder ==
    \A i \in Clients : Open(cl[i]) =>
        /\ ~cl[i].socks_closed =>
             cl[i].buf = Bytes(net[i].srv_got, net[i].app_sent - net[i].srv_got)
        /\ cl[i].sndq \o cl[i].rbuf = Bytes(net[i].app_got, net[i].srv_sent - net[i].app_got)

\* Unless the app closes first, the relay closes the app's connection (as opposed to
\* losing or aborting it) only when the app has acknowledged all that the server sent.
CloseAfterDelivery ==
    [][\A i \in Clients :
          Open(cl[i]) /\ InHand(i).stage # "fin" /\ cl'[i].pcb \in {"CLOSING", "TIME_WAIT", "TO_FREE"}
              => net'[i].app_got = net'[i].srv_sent]_vars

\* A client that has lost one of its sides delivers what it holds to the other
\* or fails: it does not stay allocated.
HalfClosedIsFreed ==
    \A i \in Clients :
        (cl[i].alloc /\ (cl[i].socks_closed \/ cl[i].client_closed)) ~> ~cl[i].alloc
=============================================================================
