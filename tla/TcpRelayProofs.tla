--------------------------- MODULE TcpRelayProofs ---------------------------
(***************************************************************************)
(* Proofs about TcpRelay, for any number of connections and any buffer     *)
(* sizes.  The operators of TcpRelay that stand for the C functions map a  *)
(* client to a client, so there is one typing lemma for each, and then one *)
(* step per action: first for the types and for who owns what, then for    *)
(* the flow of data.                                                       *)
(***************************************************************************)
EXTENDS TcpRelay, SequenceTheorems, TLAPS

-----------------------------------------------------------------------------
(* Buffers *)

LEMMA EmptyBuffer == ASSUME NEW n \in Nat PROVE <<>> \in Buffer(n)
BY DEF Buffer

LEMMA DropBuffer ==
    ASSUME NEW n \in Nat, NEW s \in Buffer(n), NEW k \in Nat
    PROVE  Drop(s, k) \in Buffer(n)
BY DEF Buffer, Drop

LEMMA PrefixBuffer ==
    ASSUME NEW s \in Seq(Nat), NEW k \in Nat, k <= Len(s)
    PROVE  SubSeq(s, 1, k) \in Seq(Nat) /\ Len(SubSeq(s, 1, k)) = k
OBVIOUS

LEMMA AppendBuffer ==
    ASSUME NEW n \in Nat, NEW s \in Buffer(n), NEW t \in Seq(Nat), Len(t) <= n - Len(s)
    PROVE  s \o t \in Buffer(n)
BY DEF Buffer

LEMMA BytesAreASequence ==
    ASSUME NEW from \in Nat, NEW n \in Nat
    PROVE  Bytes(from, n) \in Seq(Nat) /\ Len(Bytes(from, n)) = n
BY DEF Bytes

-----------------------------------------------------------------------------
(* A function of tun2socks.c or lwIP turns a client into a client. *)

LEMMA SizesAreNatural ==
    TcpWnd \in Nat /\ SndBuf \in Nat /\ SocksRecvBuf \in Nat
BY SizesAssumption

LEMMA LesserIsNatural ==
    ASSUME NEW m \in Nat, NEW n \in Nat
    PROVE  Lesser(m, n) \in Nat /\ Lesser(m, n) <= m /\ Lesser(m, n) <= n
BY DEF Lesser

LEMMA SlotType ==
    ASSUME NEW used \in BOOLEAN, NEW pcb \in PcbStates, NEW w \in Int,
           NEW q \in Buffer(SndBuf), NEW cb \in SUBSET {"err", "recv", "sent"},
           NEW d \in {"off", "alive", "aborted", "freed"}, NEW ok \in BOOLEAN
    PROVE  Slot(used, pcb, w, q, cb, d, ok) \in Client
<1>1. <<>> \in Buffer(TcpWnd) /\ <<>> \in Buffer(SocksRecvBuf)
  BY EmptyBuffer, SizesAreNatural
<1> QED
  BY <1>1 DEF Slot, Client, PcbStates

LEMMA UnusedSlotType ==
    ASSUME NEW pcb \in PcbStates, NEW w \in Int, NEW q \in Buffer(SndBuf),
           NEW cb \in SUBSET {"err", "recv", "sent"},
           NEW d \in {"off", "alive", "aborted", "freed"}, NEW ok \in BOOLEAN
    PROVE  Slot(FALSE, pcb, w, q, cb, d, ok) \in Client
<1> DEFINE used == FALSE
<1>1. used \in BOOLEAN
  OBVIOUS
<1> HIDE DEF used
<1>2. Slot(used, pcb, w, q, cb, d, ok) \in Client
  BY <1>1, SlotType
<1> QED
  BY <1>2 DEF used

LEMMA FreeSlotType == FreeSlot \in Client
<1>1. <<>> \in Buffer(SndBuf) /\ TcpWnd \in Int
  BY EmptyBuffer, SizesAreNatural
<1> QED
  BY <1>1, EmptyBuffer, SizesAreNatural DEF FreeSlot, Slot, Client, PcbStates

LEMMA AcceptedSlotType == AcceptedSlot \in Client
<1>1. <<>> \in Buffer(SndBuf) /\ TcpWnd \in Int
  BY EmptyBuffer, SizesAreNatural
<1> QED
  BY <1>1, EmptyBuffer, SizesAreNatural DEF AcceptedSlot, Slot, Client, PcbStates

LEMMA AssertType ==
    ASSUME NEW c \in Client, NEW p \in BOOLEAN PROVE ASSERT(c, p) \in Client
BY DEF ASSERT, Client

LEMMA tcp_closeType ==
    ASSUME NEW c \in Client PROVE tcp_close(c) \in Client
<1>1. <<>> \in Buffer(SndBuf)
  BY EmptyBuffer, SizesAreNatural
<1>2. /\ [c EXCEPT !.pcb = "CLOSING"] \in Client
      /\ [c EXCEPT !.pcb = "TIME_WAIT", !.sndq = <<>>] \in Client
      /\ [c EXCEPT !.pcb = "TO_FREE", !.sndq = <<>>] \in Client
  BY <1>1 DEF Client, PcbStates
<1> QED
  BY <1>2 DEF tcp_close

LEMMA tcp_abortType ==
    ASSUME NEW c \in Client PROVE tcp_abort(c) \in Client
<1>1. <<>> \in Buffer(SndBuf)
  BY EmptyBuffer, SizesAreNatural
<1> QED
  BY <1>1 DEF tcp_abort, Client, PcbStates

LEMMA tcp_recvedType ==
    ASSUME NEW c \in Client, NEW n \in Nat PROVE tcp_recved(c, n) \in Client
BY SizesAssumption DEF tcp_recved, Lesser, Client

LEMMA DeadKillType ==
    ASSUME NEW c \in Client, NEW how \in {"alive", "aborted", "freed"}
    PROVE  DeadKill(c, how) \in Client
BY DEF DeadKill, Client

LEMMA FreeSocksClientType ==
    ASSUME NEW c \in Client PROVE FreeSocksClient(c) \in Client
BY DEF FreeSocksClient, Client

LEMMA FreedType ==
    ASSUME NEW c \in Client PROVE Freed(c) \in Client
<1>1. /\ c.pcb \in PcbStates /\ c.rcv_wnd \in Int /\ c.sndq \in Buffer(SndBuf)
      /\ c.cb \in SUBSET {"err", "recv", "sent"} /\ c.ok \in BOOLEAN
      /\ c.dead \in {"off", "alive", "aborted", "freed"}
  BY DEF Client
<1>2. Slot(FALSE, c.pcb, c.rcv_wnd, c.sndq, c.cb, c.dead, c.ok) \in Client
  BY <1>1, UnusedSlotType
<1> QED
  BY <1>2 DEF Freed

LEMMA client_deallocType ==
    ASSUME NEW c \in Client PROVE client_dealloc(c) \in Client
<1> DEFINE a == ASSERT(c, c.alloc /\ c.client_closed /\ c.socks_closed)
<1>1. a \in Client
  BY DEF ASSERT, Client
<1> HIDE DEF a
<1>2. DeadKill(a, "freed") \in Client
  BY <1>1, DeadKillType
<1>3. client_dealloc(c) = Freed(IF a.aborted THEN a ELSE DeadKill(a, "freed"))
  BY DEF client_dealloc, a
<1> QED
  BY <1>1, <1>2, <1>3, FreedType

LEMMA client_handle_freed_clientType ==
    ASSUME NEW c \in Client PROVE client_handle_freed_client(c) \in Client
<1> DEFINE d == [ASSERT(c, ~c.client_closed) EXCEPT !.client_closed = TRUE]
<1>1. d \in Client
  BY DEF ASSERT, Client
<1> HIDE DEF d
<1>2. client_dealloc(d) \in Client /\ client_dealloc(FreeSocksClient(d)) \in Client
  BY <1>1, FreeSocksClientType, client_deallocType
<1>3. client_handle_freed_client(c) \in
          {d, client_dealloc(d), client_dealloc(FreeSocksClient(d))}
  BY DEF client_handle_freed_client, d
<1> QED
  BY <1>1, <1>2, <1>3
LEMMA RemoveCallbacksType ==
    ASSUME NEW c \in Client PROVE RemoveCallbacks(c) \in Client
BY DEF RemoveCallbacks, Client

LEMMA client_free_clientType ==
    ASSUME NEW c \in Client PROVE client_free_client(c) \in Client
BY RemoveCallbacksType, tcp_closeType, client_handle_freed_clientType
   DEF client_free_client

LEMMA client_abort_pcbType ==
    ASSUME NEW c \in Client PROVE client_abort_pcb(c) \in Client
<1> DEFINE b == tcp_abort(ASSERT(c, ~c.aborted))
           d == [b EXCEPT !.aborted = TRUE]
<1>1. ASSERT(c, ~c.aborted) \in Client
  BY DEF ASSERT, Client
<1>2. b \in Client
  BY <1>1, tcp_abortType
<1> HIDE DEF b
<1>3. d \in Client
  BY <1>2 DEF Client
<1> HIDE DEF d
<1>4. client_abort_pcb(c) = DeadKill(d, "aborted")
  BY DEF client_abort_pcb, b, d
<1> QED
  BY <1>3, <1>4, DeadKillType

LEMMA client_abort_clientType ==
    ASSUME NEW c \in Client PROVE client_abort_client(c) \in Client
BY RemoveCallbacksType, client_abort_pcbType, client_handle_freed_clientType
   DEF client_abort_client

LEMMA client_free_socksType ==
    ASSUME NEW c \in Client PROVE client_free_socks(c) \in Client
<1> DEFINE a == ASSERT(c, ~c.socks_closed)
           b == IF a.socks_up /\ ~a.client_closed
                THEN [a EXCEPT !.cb = @ \ {"recv"}] ELSE a
           d == FreeSocksClient(b)
<1>1. a \in Client
  BY DEF ASSERT, Client
<1> HIDE DEF a
<1>2. b \in Client
  BY <1>1 DEF Client
<1> HIDE DEF b
<1>3. d \in Client
  BY <1>2, FreeSocksClientType
<1> HIDE DEF d
<1>4. client_dealloc(d) \in Client /\ client_free_client(d) \in Client
  BY <1>3, client_deallocType, client_free_clientType
<1>5. client_free_socks(c) \in {d, client_dealloc(d), client_free_client(d)}
  BY DEF client_free_socks, a, b, d
<1> QED
  BY <1>3, <1>4, <1>5

LEMMA client_murderType ==
    ASSUME NEW c \in Client PROVE client_murder(c) \in Client
<1> DEFINE b == client_abort_pcb(RemoveCallbacks(c))
           d == IF c.client_closed THEN c ELSE [b EXCEPT !.client_closed = TRUE]
<1>1. b \in Client
  BY RemoveCallbacksType, client_abort_pcbType
<1> HIDE DEF b
<1>2. d \in Client
  BY <1>1 DEF Client
<1> HIDE DEF d
<1>3. client_murder(c) = client_dealloc(FreeSocksClient(d))
  BY DEF client_murder, b, d
<1> QED
  BY <1>2, <1>3, FreeSocksClientType, client_deallocType

LEMMA client_send_to_socksType ==
    ASSUME NEW c \in Client PROVE client_send_to_socks(c) \in Client
<1> DEFINE b == ASSERT(c, ~c.socks_closed /\ c.socks_up /\ c.buf # <<>> /\ c.sending = 0)
<1>1. b \in Client
  BY DEF ASSERT, Client
<1>2. Len(c.buf) \in Nat
  BY DEF Client, Buffer
<1> HIDE DEF b
<1>3. [b EXCEPT !.sending = Len(c.buf)] \in Client
  BY <1>1, <1>2 DEF Client
<1> QED
  BY <1>3 DEF client_send_to_socks, b

LEMMA client_socks_send_handler_doneType ==
    ASSUME NEW c \in Client, NEW n \in Nat
    PROVE  client_socks_send_handler_done(c, n) \in Client
<1> DEFINE a == ASSERT(c, ~c.socks_closed /\ c.socks_up /\ n <= Len(c.buf))
           b == [a EXCEPT !.buf = Drop(@, n), !.sending = 0]
           d == IF b.client_closed THEN b ELSE tcp_recved(b, n)
<1>1. a \in Client
  BY DEF ASSERT, Client
<1> HIDE DEF a
<1>2. Drop(a.buf, n) \in Buffer(TcpWnd)
  BY <1>1, DropBuffer, SizesAreNatural DEF Client
<1>3. b \in Client
  BY <1>1, <1>2 DEF Client
<1> HIDE DEF b
<1>4. d \in Client
  BY <1>3, tcp_recvedType
<1> HIDE DEF d
<1>5. client_send_to_socks(d) \in Client /\ client_free_socks(d) \in Client
  BY <1>4, client_send_to_socksType, client_free_socksType
<1>6. client_socks_send_handler_done(c, n) \in
          {d, client_send_to_socks(d), client_free_socks(d)}
  BY DEF client_socks_send_handler_done, a, b, d
<1> QED
  BY <1>4, <1>5, <1>6

LEMMA client_socks_recv_initiateType ==
    ASSUME NEW c \in Client PROVE client_socks_recv_initiate(c) \in Client
<1> DEFINE b == ASSERT(c, /\ ~c.client_closed /\ ~c.socks_closed /\ c.socks_up
                          /\ c.rbuf = <<>> /\ ~c.receiving)
<1>1. b \in Client
  BY DEF ASSERT, Client
<1> HIDE DEF b
<1>2. [b EXCEPT !.receiving = TRUE] \in Client
  BY <1>1 DEF Client
<1> QED
  BY <1>2 DEF client_socks_recv_initiate, b
\* n bytes have moved from socks_recv_buf to lwIP.
LEMMA WrittenType ==
    ASSUME NEW a \in Client, NEW n \in Nat, n <= Len(a.rbuf), n <= SndBuf - Len(a.sndq)
    PROVE  [a EXCEPT !.sndq = @ \o SubSeq(a.rbuf, 1, n),
                     !.rbuf = Drop(@, n), !.pending = @ + n] \in Client
<1>1. /\ a.rbuf \in Seq(Nat) /\ a.rbuf \in Buffer(SocksRecvBuf)
      /\ a.sndq \in Buffer(SndBuf) /\ Len(a.sndq) \in Nat
  BY DEF Client, Buffer
<1> DEFINE q == a.sndq \o SubSeq(a.rbuf, 1, n)
           r == Drop(a.rbuf, n)
<1>2. SubSeq(a.rbuf, 1, n) \in Seq(Nat) /\ Len(SubSeq(a.rbuf, 1, n)) = n
  BY <1>1, PrefixBuffer
<1>3. q \in Buffer(SndBuf)
  BY <1>1, <1>2, AppendBuffer, SizesAreNatural
<1>4. r \in Buffer(SocksRecvBuf)
  BY <1>1, DropBuffer, SizesAreNatural
<1> HIDE DEF q, r
<1>5. [a EXCEPT !.sndq = q, !.rbuf = r] \in Client
  BY <1>3, <1>4 DEF Client
<1>6. a.pending + n \in Int
  BY DEF Client
<1>7. [[a EXCEPT !.sndq = q, !.rbuf = r] EXCEPT !.pending = a.pending + n] \in Client
  BY <1>5, <1>6 DEF Client
<1> QED
  BY <1>7 DEF q, r

LEMMA client_socks_recv_send_outType ==
    ASSUME NEW c \in Client, NEW oom \in BOOLEAN, NEW fail \in BOOLEAN
    PROVE  client_socks_recv_send_out(c, oom, fail) \in Client
<1> DEFINE a == ASSERT(c, /\ ~c.client_closed /\ c.socks_up /\ ~c.waiting
                          /\ c.rbuf # <<>>)
           n == Lesser(Len(a.rbuf), SndBuf - Len(a.sndq))
           e == [a EXCEPT !.sndq = @ \o SubSeq(a.rbuf, 1, n),
                          !.rbuf = Drop(@, n), !.pending = @ + n]
           d == IF n = 0 \/ oom THEN a ELSE e
<1>1. a \in Client
  BY DEF ASSERT, Client
<1> HIDE DEF a
<1>2. /\ a.rbuf \in Seq(Nat) /\ Len(a.rbuf) \in Nat
      /\ a.sndq \in Buffer(SndBuf) /\ Len(a.sndq) \in Nat /\ SndBuf - Len(a.sndq) \in Nat
      /\ a.rbuf \in Buffer(SocksRecvBuf)
  BY <1>1, SizesAreNatural DEF Client, Buffer
<1>3. n \in Nat /\ n <= Len(a.rbuf) /\ n <= SndBuf - Len(a.sndq)
  BY <1>2, LesserIsNatural
<1> HIDE DEF n
<1>6. e \in Client
  BY <1>1, <1>2, <1>3, WrittenType
<1> HIDE DEF e
<1>7. d \in Client
  BY <1>1, <1>6
<1> HIDE DEF d
<1>8. [d EXCEPT !.waiting = TRUE] \in Client
  BY <1>7 DEF Client
<1>9. client_abort_client(a) \in Client /\ client_abort_client(d) \in Client
  BY <1>1, <1>7, client_abort_clientType
<1>10. client_socks_recv_send_out(c, oom, fail) \in
           {client_abort_client(a), client_abort_client(d), d, [d EXCEPT !.waiting = TRUE]}
  BY DEF client_socks_recv_send_out, a, n, d, e
<1> QED
  BY <1>7, <1>8, <1>9, <1>10

LEMMA client_socks_recv_handler_doneType ==
    ASSUME NEW c \in Client, NEW data \in Buffer(SocksRecvBuf),
           NEW oom \in BOOLEAN, NEW fail \in BOOLEAN
    PROVE  client_socks_recv_handler_done(c, data, oom, fail) \in Client
<1> DEFINE b == ASSERT(c, ~c.socks_closed /\ c.socks_up /\ c.rbuf = <<>>)
           a == [b EXCEPT !.receiving = FALSE]
           e == [a EXCEPT !.rbuf = data, !.waiting = FALSE]
           d == client_socks_recv_send_out(e, oom, fail)
<1>1. b \in Client
  BY DEF ASSERT, Client
<1> HIDE DEF b
<1>2. a \in Client
  BY <1>1 DEF Client
<1> HIDE DEF a
<1>3. e \in Client
  BY <1>2 DEF Client
<1> HIDE DEF e
<1>4. d \in Client
  BY <1>3, client_socks_recv_send_outType
<1> HIDE DEF d
<1>5. client_socks_recv_initiate(d) \in Client
  BY <1>4, client_socks_recv_initiateType
<1>6. client_socks_recv_handler_done(c, data, oom, fail) \in
          {a, d, client_socks_recv_initiate(d)}
  BY DEF client_socks_recv_handler_done, a, b, d, e
<1> QED
  BY <1>2, <1>4, <1>5, <1>6

LEMMA CallbacksType ==
    ASSUME NEW c \in Client, NEW k \in SUBSET {"err", "recv", "sent"}
    PROVE  [c EXCEPT !.cb = k] \in Client
BY DEF Client

LEMMA UpType ==
    ASSUME NEW b \in Client, NEW closed \in BOOLEAN
    PROVE  [b EXCEPT !.socks_up = TRUE, !.rbuf = <<>>, !.pending = 0,
                     !.cb = IF closed THEN @ ELSE @ \cup {"sent"}] \in Client
<1> DEFINE r == <<>>
           cb == IF closed THEN b.cb ELSE b.cb \cup {"sent"}
<1>1. r \in Buffer(SocksRecvBuf)
  BY EmptyBuffer, SizesAreNatural
<1>2. cb \in SUBSET {"err", "recv", "sent"}
  BY DEF Client
<1> HIDE DEF r, cb
<1> DEFINE e == [b EXCEPT !.socks_up = TRUE, !.rbuf = r]
<1>3. e \in Client
  BY <1>1 DEF Client
<1> HIDE DEF e
<1>4. [e EXCEPT !.pending = 0] \in Client
  BY <1>3 DEF Client
<1>5. [[e EXCEPT !.pending = 0] EXCEPT !.cb = cb] \in Client
  BY <1>2, <1>4, CallbacksType
<1> QED
  BY <1>5 DEF r, cb, e

LEMMA SocksUpEventType ==
    ASSUME NEW c \in Client PROVE SocksUpEvent(c) \in Client
<1> DEFINE b == ASSERT(c, ~c.socks_up /\ ~c.socks_closed)
           a == [b EXCEPT !.socks_up = TRUE, !.rbuf = <<>>, !.pending = 0,
                          !.cb = IF c.client_closed THEN @ ELSE @ \cup {"sent"}]
           d == IF a.buf # <<>> THEN client_send_to_socks(a) ELSE a
<1>1. b \in Client
  BY DEF ASSERT, Client
<1> HIDE DEF b
<1>2. a \in Client
  BY <1>1, UpType
<1> HIDE DEF a
<1>3. d \in Client
  BY <1>2, client_send_to_socksType
<1> HIDE DEF d
<1>4. client_socks_recv_initiate(d) \in Client
  BY <1>3, client_socks_recv_initiateType
<1>5. SocksUpEvent(c) \in {d, client_socks_recv_initiate(d)}
  BY DEF SocksUpEvent, a, b, d
<1> QED
  BY <1>3, <1>4, <1>5

LEMMA client_sent_funcType ==
    ASSUME NEW c \in Client, NEW len \in Nat, NEW oom \in BOOLEAN
    PROVE  client_sent_func(c, len, oom) \in Client
<1> DEFINE f == [c EXCEPT !.pending = @ - len]
           a == ASSERT(f, ~c.client_closed /\ c.socks_up /\ len <= c.pending)
           e == [ASSERT(a, a.waiting) EXCEPT !.waiting = FALSE]
           b == client_socks_recv_send_out(e, oom, FALSE)
           d == IF b.client_closed THEN b ELSE ASSERT(b, b.pending > 0)
<1>1. f \in Client
  BY DEF Client
<1> HIDE DEF f
<1>2. a \in Client
  BY <1>1 DEF ASSERT, Client
<1> HIDE DEF a
<1>3. e \in Client
  BY <1>2 DEF ASSERT, Client
<1> HIDE DEF e
<1>4. b \in Client
  BY <1>3, client_socks_recv_send_outType
<1> HIDE DEF b
<1>5. d \in Client
  BY <1>4 DEF ASSERT, Client
<1> HIDE DEF d
<1>6. client_socks_recv_initiate(d) \in Client /\ client_free_client(a) \in Client
  BY <1>2, <1>5, client_socks_recv_initiateType, client_free_clientType
<1>7. client_sent_func(c, len, oom) \in
          {a, d, client_socks_recv_initiate(d), client_free_client(a)}
  BY DEF client_sent_func, f, a, e, b, d
<1> QED
  BY <1>2, <1>5, <1>6, <1>7

LEMMA client_recv_funcType ==
    ASSUME NEW c \in Client, NEW data \in Seq(Nat)
    PROVE  client_recv_func(c, data) \in Client
<1> DEFINE a == ASSERT(c, ~c.client_closed)
           d == [a EXCEPT !.buf = @ \o data]
<1>1. a \in Client
  BY DEF ASSERT, Client
<1> HIDE DEF a
<1>2. CASE Len(data) > TcpWnd - Len(a.buf)
  <2>1. ASSERT(a, FALSE) \in Client
    BY <1>1, AssertType
  <2> QED
    BY <1>2, <2>1 DEF client_recv_func, a
<1>3. CASE ~(Len(data) > TcpWnd - Len(a.buf))
  <2>1. a.buf \in Buffer(TcpWnd) /\ Len(a.buf) \in Nat /\ Len(data) \in Nat
    BY <1>1 DEF Client, Buffer
  <2>2. a.buf \o data \in Buffer(TcpWnd)
    BY <1>3, <2>1, AppendBuffer, SizesAreNatural
  <2>3. d \in Client
    BY <1>1, <2>2 DEF Client
  <2> HIDE DEF d
  <2>4. client_send_to_socks(d) \in Client
    BY <2>3, client_send_to_socksType
  <2>5. client_recv_func(c, data) \in {d, client_send_to_socks(d)}
    BY <1>3 DEF client_recv_func, a, d
  <2> QED
    BY <2>3, <2>4, <2>5
<1> QED
  BY <1>2, <1>3
LEMMA DeadType ==
    ASSUME NEW c \in Client PROVE DeadEnter(c) \in Client /\ DeadLeave(c) \in Client
BY DEF DeadEnter, DeadLeave, Client

LEMMA ReceiveType ==
    ASSUME NEW c \in Client, NEW n \in Nat, NEW f \in BOOLEAN
    PROVE  Receive(c, n, f) \in Client
<1> DEFINE w == c.rcv_wnd - n - FinLen(f)
           p == IF f /\ c.pcb = "ESTABLISHED" THEN "CLOSE_WAIT" ELSE c.pcb
<1>1. w \in Int /\ p \in PcbStates
  BY DEF Client, FinLen, PcbStates
<1> HIDE DEF w, p
<1>2. [c EXCEPT !.rcv_wnd = w, !.pcb = p] \in Client
  BY <1>1 DEF Client
<1> QED
  BY <1>2 DEF Receive, w, p

LEMMA RestType == ASSUME NEW in \in Segment PROVE Rest(in) \in Input
BY DEF Rest, Input, Segment, Stages

-----------------------------------------------------------------------------
(* Every step keeps the types. *)

LEMMA BusyType ==
    ASSUME TypeOK, ~Idle
    PROVE  input \in Segment /\ input.conn \in Clients /\ cl[input.conn] \in Client
BY DEF TypeOK, Idle, Input, NoInput, Segment

LEMMA GoOnType ==
    ASSUME TypeOK, NEW i \in Clients, NEW c \in Client, NEW in \in Segment,
           NEW before \in BOOLEAN, GoOn(i, c, in, before), net' \in [Clients -> Net]
    PROVE  TypeOK'
<1>1. tcp_abort(c) \in Client
  BY tcp_abortType
<1>2. DeadLeave(c) \in Client /\ DeadLeave(tcp_abort(c)) \in Client
  BY <1>1, DeadType
<1>3. input' \in Input
  BY RestType DEF GoOn, Input
<1>4. cl' \in [Clients -> Client]
  BY <1>2 DEF GoOn, TypeOK
<1> QED
  BY <1>3, <1>4 DEF GoOn, TypeOK

LEMMA SyncType ==
    ASSUME TypeOK, NEW i \in Clients, NEW c \in Client, NEW in \in Segment,
           NEW stage \in Stages, Sync(i, c, in, stage), net' \in [Clients -> Net]
    PROVE  TypeOK'
BY DEF Sync, TypeOK, Input, Segment

LEMMA JobType ==
    ASSUME TypeOK, NEW i \in Clients, NEW c \in Client, NEW stages,
           Job(i, stages, c), net' \in [Clients -> Net]
    PROVE  TypeOK'
<1>1. tcp_abort(c) \in Client
  BY tcp_abortType
<1> QED
  BY <1>1 DEF Job, TypeOK
LEMMA NetType ==
    ASSUME TypeOK, NEW i \in Clients, NEW n \in Nat
    PROVE  /\ [net EXCEPT ![i].app_sent = @ + n] \in [Clients -> Net]
           /\ [net EXCEPT ![i].srv_got = @ + n] \in [Clients -> Net]
           /\ [net EXCEPT ![i].srv_sent = @ + n] \in [Clients -> Net]
           /\ [net EXCEPT ![i].app_got = @ + n] \in [Clients -> Net]
BY DEF TypeOK, Net

LEMMA listener_accept_funcType ==
    ASSUME TypeOK, NEW i \in Clients, NEW n \in 0..TcpWnd, NEW f \in BOOLEAN,
           listener_accept_func(i, n, f)
    PROVE  TypeOK'
<1>1. net' \in [Clients -> Net]
  BY DEF listener_accept_func, TypeOK, Net
<1>2. cl' = [cl EXCEPT ![i] = AcceptedSlot]
  BY DEF listener_accept_func, Sync
<1>3. input' = [stage |-> "acceptsync", conn |-> i, acked |-> 0, len |-> n, fin |-> f]
  BY DEF listener_accept_func, Sync, NoInput
<1>4. input' \in Segment
  BY <1>3, SizesAreNatural DEF Segment, Stages
<1> QED
  BY <1>1, <1>2, <1>4, AcceptedSlotType DEF TypeOK, listener_accept_func, Sync, Input

LEMMA SyncCommitType == ASSUME TypeOK, SyncCommit PROVE TypeOK'
<1> DEFINE i == input.conn
           d == IF cl[i].dead = "aborted" THEN cl[i]
                ELSE Receive(cl[i], input.len, input.fin)
<1>1. ~Idle /\ net' \in [Clients -> Net]
  BY DEF SyncCommit, Idle, TypeOK
<1>2. input \in Segment /\ i \in Clients /\ cl[i] \in Client
  BY <1>1, BusyType
<1>3. d \in Client
  BY <1>2, ReceiveType DEF Segment
<1>4. \/ GoOn(i, d, input, TRUE)
      \/ GoOn(i, cl[i], input, TRUE)
      \/ GoOn(i, cl[i], input, FALSE)
  BY DEF SyncCommit
<1> HIDE DEF i, d
<1> QED
  BY <1>1, <1>2, <1>3, <1>4, GoOnType

LEMMA SegmentArrivesType ==
    ASSUME TypeOK, NEW i \in Clients, NEW a \in Nat, NEW n \in Nat, NEW f \in BOOLEAN,
           SegmentArrives(i, a, n, f)
    PROVE  TypeOK'
<1> DEFINE q == Drop(cl[i].sndq, a)
           d == [cl[i] EXCEPT !.sndq = q]
<1>1. cl[i] \in Client /\ cl[i].sndq \in Buffer(SndBuf)
  BY DEF TypeOK, Client
<1>2. q \in Buffer(SndBuf)
  BY <1>1, DropBuffer, SizesAreNatural
<1> HIDE DEF q
<1>3. d \in Client
  BY <1>1, <1>2 DEF Client
<1>4. cl' = [cl EXCEPT ![i] = Receive(d, n, f)]
  BY DEF SegmentArrives, q
<1> HIDE DEF d
<1>5. Receive(d, n, f) \in Client
  BY <1>3, ReceiveType
<1>6. net' \in [Clients -> Net]
  BY NetType DEF SegmentArrives
<1>7. input' \in Segment
  BY DEF SegmentArrives, Segment, Stages
<1> QED
  BY <1>4, <1>5, <1>6, <1>7 DEF TypeOK, SegmentArrives, Input

LEMMA SentEventType ==
    ASSUME TypeOK, NEW oom \in BOOLEAN, SentEvent(oom) PROVE TypeOK'
<1> DEFINE i == input.conn
           d == client_sent_func(DeadEnter(cl[i]), input.acked, oom)
           rest == [input EXCEPT !.acked = 0]
<1>1. ~Idle /\ net' \in [Clients -> Net]
  BY DEF SentEvent, Idle, TypeOK
<1>2. input \in Segment /\ i \in Clients /\ cl[i] \in Client
  BY <1>1, BusyType
<1>3. d \in Client
  BY <1>2, DeadType, client_sent_funcType DEF Segment
<1>4. rest \in Segment
  BY <1>2 DEF Segment
<1>5. \/ GoOn(i, cl[i], rest, TRUE)
      \/ GoOn(i, d, rest, TRUE)
      \/ Sync(i, d, rest, "sentsync")
  BY DEF SentEvent
<1>6. "sentsync" \in Stages
  BY DEF Stages
<1> HIDE DEF i, d, rest
<1> QED
  BY <1>1, <1>2, <1>3, <1>4, <1>5, <1>6, GoOnType, SyncType

LEMMA RecvEventType == ASSUME TypeOK, RecvEvent PROVE TypeOK'
<1> DEFINE i == input.conn
           c == tcp_recved(cl[i], input.len)
           data == Bytes(net[i].app_sent, input.len)
           d == client_recv_func(DeadEnter(cl[i]), data)
           rest == [input EXCEPT !.len = 0]
<1>1. ~Idle
  BY DEF RecvEvent, Idle
<1>2. input \in Segment /\ i \in Clients /\ cl[i] \in Client
  BY <1>1, BusyType
<1>3. net' \in [Clients -> Net]
  BY <1>2, NetType DEF RecvEvent, Segment
<1>4. data \in Seq(Nat)
  BY <1>2, BytesAreASequence DEF TypeOK, Net, Segment
<1> HIDE DEF data
<1>5. d \in Client
  BY <1>2, <1>4, DeadType, client_recv_funcType
<1>6. c \in Client
  BY <1>2, tcp_recvedType DEF Segment
<1>7. rest \in Segment
  BY <1>2 DEF Segment
<1>8. \/ GoOn(i, c, rest, FALSE)
      \/ GoOn(i, d, rest, FALSE)
      \/ Sync(i, d, rest, "recvsync")
  BY DEF RecvEvent, data
<1>9. "recvsync" \in Stages
  BY DEF Stages
<1> HIDE DEF i, c, d, rest
<1> QED
  BY <1>2, <1>3, <1>5, <1>6, <1>7, <1>8, <1>9, GoOnType, SyncType

LEMMA FinEventType == ASSUME TypeOK, FinEvent PROVE TypeOK'
<1> DEFINE i == input.conn
           c == [cl[i] EXCEPT !.rcv_wnd = IF @ = TcpWnd THEN @ ELSE @ + 1]
           d == client_free_client(DeadEnter(c))
           rest == [input EXCEPT !.fin = FALSE]
<1>1. ~Idle /\ net' \in [Clients -> Net]
  BY DEF FinEvent, Idle, TypeOK
<1>2. input \in Segment /\ i \in Clients /\ cl[i] \in Client
  BY <1>1, BusyType
<1>3. c \in Client
  BY <1>2 DEF Client
<1>4. d \in Client
  BY <1>3, DeadType, client_free_clientType
<1>5. rest \in Segment
  BY <1>2 DEF Segment
<1>6. GoOn(i, c, rest, FALSE) \/ GoOn(i, d, rest, FALSE)
  BY DEF FinEvent
<1> HIDE DEF i, c, d, rest
<1> QED
  BY <1>1, <1>2, <1>3, <1>4, <1>5, <1>6, GoOnType
LEMMA PcbDiesType ==
    ASSUME TypeOK, NEW i \in Clients, PcbDies(i) PROVE TypeOK'
<1> DEFINE d == RemoveCallbacks(tcp_abort(cl[i]))
<1>1. cl[i] \in Client
  BY DEF TypeOK
<1>2. d \in Client
  BY <1>1, tcp_abortType, RemoveCallbacksType
<1>3. client_handle_freed_client(d) \in Client
  BY <1>2, client_handle_freed_clientType
<1>4. \/ cl' = [cl EXCEPT ![i] = d]
      \/ cl' = [cl EXCEPT ![i] = client_handle_freed_client(d)]
  BY DEF PcbDies
<1> HIDE DEF d
<1> QED
  BY <1>2, <1>3, <1>4 DEF PcbDies, TypeOK

LEMMA OrphanAckType ==
    ASSUME TypeOK, NEW i \in Clients, NEW a \in Nat, OrphanAck(i, a) PROVE TypeOK'
<1> DEFINE q == Drop(cl[i].sndq, a)
<1>1. cl[i] \in Client /\ cl[i].sndq \in Buffer(SndBuf)
  BY DEF TypeOK, Client
<1>2. q \in Buffer(SndBuf)
  BY <1>1, DropBuffer, SizesAreNatural
<1>3. cl' = [cl EXCEPT ![i].sndq = q] /\ net' \in [Clients -> Net]
  BY NetType DEF OrphanAck
<1> HIDE DEF q
<1>4. [cl[i] EXCEPT !.sndq = q] \in Client
  BY <1>1, <1>2 DEF Client
<1> QED
  BY <1>3, <1>4 DEF OrphanAck, TypeOK

LEMMA OrphanGoneType ==
    ASSUME TypeOK, NEW i \in Clients, OrphanGone(i) PROVE TypeOK'
<1>1. tcp_abort(cl[i]) \in Client
  BY tcp_abortType DEF TypeOK
<1> QED
  BY <1>1 DEF OrphanGone, TypeOK

LEMMA SendDoneType ==
    ASSUME TypeOK, NEW i \in Clients, NEW n \in Nat, SendDone(i, n) PROVE TypeOK'
<1>1. client_socks_send_handler_done(cl[i], n) \in Client
  BY client_socks_send_handler_doneType DEF TypeOK
<1>2. net' \in [Clients -> Net]
  BY NetType DEF SendDone
<1> QED
  BY <1>1, <1>2, JobType DEF SendDone

LEMMA RecvDoneType ==
    ASSUME TypeOK, NEW i \in Clients, NEW n \in 1..SocksRecvBuf,
           NEW oom \in BOOLEAN, NEW fail \in BOOLEAN, RecvDone(i, n, oom, fail)
    PROVE  TypeOK'
<1> DEFINE data == Bytes(net[i].srv_sent, n)
<1>1. n \in Nat /\ n <= SocksRecvBuf
  BY SizesAreNatural
<1>2. data \in Buffer(SocksRecvBuf)
  BY <1>1, BytesAreASequence DEF TypeOK, Net, Buffer
<1>3. Job(i, {"acceptsync", "sentsync"},
          client_socks_recv_handler_done(cl[i], data, oom, fail))
  BY DEF RecvDone
<1> HIDE DEF data
<1>4. client_socks_recv_handler_done(cl[i], data, oom, fail) \in Client
  BY <1>2, client_socks_recv_handler_doneType DEF TypeOK
<1>5. net' \in [Clients -> Net]
  BY <1>1, NetType DEF RecvDone
<1> QED
  BY <1>3, <1>4, <1>5, JobType

LEMMA SocksEventType ==
    ASSUME TypeOK, NEW i \in Clients, SocksUp(i) \/ SocksEof(i) \/ SocksError(i)
    PROVE  TypeOK'
<1>1. cl[i] \in Client /\ net' \in [Clients -> Net]
  BY DEF TypeOK, SocksUp, SocksEof, SocksError
<1>2. CASE SocksUp(i)
  BY <1>1, <1>2, SocksUpEventType, JobType DEF SocksUp
<1>3. CASE SocksEof(i)
  <2>1. ASSERT(cl[i], cl[i].socks_up) \in Client
    BY <1>1 DEF ASSERT, Client
  <2> QED
    BY <1>1, <1>3, <2>1, client_free_socksType, JobType DEF SocksEof
<1>4. CASE SocksError(i)
  BY <1>1, <1>4, client_free_socksType, JobType DEF SocksError
<1> QED
  BY <1>2, <1>3, <1>4

LEMMA TerminateType == ASSUME TypeOK, Terminate PROVE TypeOK'
<1>1. \A i \in Clients : client_murder(cl[i]) \in Client
  BY client_murderType DEF TypeOK
<1> QED
  BY <1>1 DEF Terminate, TypeOK

LEMMA InitType == ASSUME Init PROVE TypeOK
BY FreeSlotType DEF Init, TypeOK, Net, Input

LEMMA NextType == ASSUME TypeOK, [Next]_vars PROVE TypeOK'
<1>1. CASE TcpInputStep
  BY <1>1, SyncCommitType, SentEventType, RecvEventType, FinEventType DEF TcpInputStep
<1>2. ASSUME NEW i \in Clients, App(i) PROVE TypeOK'
  <2>1. \A n : n \in 0..TcpWnd \/ n \in 0..SndBuf \/ n \in 1..SndBuf => n \in Nat
    BY SizesAreNatural
  <2> QED
    BY <1>2, <2>1, listener_accept_funcType, SegmentArrivesType, PcbDiesType,
       OrphanAckType, OrphanGoneType DEF App
<1>3. ASSUME NEW i \in Clients, Socks(i) PROVE TypeOK'
  <2>1. \A n \in 1..TcpWnd : n \in Nat
    BY SizesAreNatural
  <2> QED
    BY <1>3, <2>1, SendDoneType, RecvDoneType, SocksEventType DEF Socks
<1>4. CASE Terminate
  BY <1>4, TerminateType
<1>5. CASE UNCHANGED vars
  BY <1>5 DEF vars, TypeOK
<1> QED
  BY <1>1, <1>2, <1>3, <1>4, <1>5 DEF Next, Exited

\* Whatever the buffer sizes and however many connections there are, every
\* field keeps its range: client->buf, socks_recv_buf and lwIP's send queue are
\* never written beyond their ends.
THEOREM TypeCorrect == Spec => []TypeOK
<1>1. Init => TypeOK
  BY InitType
<1>2. TypeOK /\ [Next]_vars => TypeOK'
  BY NextType
<1> QED
  BY <1>1, <1>2, PTL DEF Spec
-----------------------------------------------------------------------------
(* Who owns the pcb.                                                       *)

\* What Owned() looks at in an allocated client.
SameOwner(c, d) ==
    /\ d.alloc = c.alloc /\ d.client_closed = c.client_closed /\ d.aborted = c.aborted
    /\ d.dead = c.dead /\ d.pcb = c.pcb /\ d.cb = c.cb

\* c is somebody's client, and d is what a function has made of it.
Mine(c) == c \in Client /\ c.alloc /\ Owned(c)

Kept(c, d) == Owned(d) /\ (d.dead = "off" <=> c.dead = "off")

LEMMA SameOwnerKeeps ==
    ASSUME NEW c, NEW d, Mine(c), SameOwner(c, d)
    PROVE  Kept(c, d) /\ Owned(d) /\ d.alloc
BY DEF Mine, SameOwner, Kept, Owned, Core, Open

LEMMA SameOwnerThenKeeps ==
    ASSUME NEW c, NEW d, NEW e, SameOwner(c, d), Kept(d, e) PROVE Kept(c, e)
BY DEF SameOwner, Kept

LEMMA client_deallocKeeps ==
    ASSUME NEW c \in Client, c.alloc, c.client_closed, c.cb = {}, Core(c)
    PROVE  Kept(c, client_dealloc(c))
<1> DEFINE d == client_dealloc(c)
<1>1. /\ ~d.alloc /\ d.client_closed /\ d.socks_closed /\ ~d.receiving /\ d.sending = 0
      /\ d.pcb = c.pcb /\ d.cb = c.cb
      /\ d.dead = IF c.aborted \/ c.dead = "off" THEN c.dead ELSE "freed"
  BY DEF client_dealloc, Freed, Slot, DeadKill, ASSERT, Client
<1> HIDE DEF d
<1>2. d.dead = "off" <=> c.dead = "off"
  BY <1>1
<1>3. d.dead # "off" => (d.dead = "aborted" <=> d.pcb = "FREED")
  <2>1. CASE c.aborted
    BY <1>1, <2>1 DEF Core
  <2>2. CASE ~c.aborted
    BY <1>1, <2>2 DEF Core
  <2> QED
    BY <2>1, <2>2
<1>4. Core(d)
  BY <1>1, <1>3 DEF Core
<1> QED
  BY <1>1, <1>2, <1>4 DEF Kept, Owned, Open, d

\* The callbacks are removed and the pcb is closed or gone.
LEMMA client_handle_freed_clientKeeps ==
    ASSUME NEW c \in Client, c.alloc, c.cb = {}, Core(c)
    PROVE  Kept(c, client_handle_freed_client(c))
<1> DEFINE d == [ASSERT(c, ~c.client_closed) EXCEPT !.client_closed = TRUE]
           e == IF d.socks_closed THEN d ELSE FreeSocksClient(d)
<1>1. d \in Client
  BY DEF ASSERT, Client
<1>2. /\ d.alloc /\ d.client_closed /\ d.aborted = c.aborted
      /\ d.dead = c.dead /\ d.pcb = c.pcb /\ d.cb = c.cb
  BY DEF ASSERT, Client
<1> HIDE DEF d
<1>3. e \in Client /\ SameOwner(d, e)
  BY <1>1, FreeSocksClientType DEF SameOwner, FreeSocksClient, Client
<1> HIDE DEF e
<1>4. Core(d) /\ Core(e) /\ e.alloc /\ e.client_closed /\ e.cb = {} /\ e.dead = c.dead
  BY <1>2, <1>3 DEF Core, SameOwner
<1>5. Kept(e, client_dealloc(e))
  BY <1>3, <1>4, client_deallocKeeps
<1>6. Kept(c, client_dealloc(e))
  BY <1>4, <1>5 DEF Kept
<1>7. Kept(c, d)
  BY <1>2, <1>4 DEF Kept, Owned, Open
<1>8. client_handle_freed_client(c) = d \/ client_handle_freed_client(c) = client_dealloc(e)
  BY DEF client_handle_freed_client, d, e
<1> QED
  BY <1>6, <1>7, <1>8

LEMMA client_free_clientKeeps ==
    ASSUME NEW c, Mine(c), ~c.client_closed
    PROVE  Kept(c, client_free_client(c))
<1> DEFINE b == RemoveCallbacks(c)
           d == tcp_close(b)
<1>1. b \in Client /\ d \in Client
  BY RemoveCallbacksType, tcp_closeType DEF Mine
<1>2. /\ b.alloc = c.alloc /\ b.aborted = c.aborted /\ b.dead = c.dead
      /\ b.pcb = c.pcb /\ b.cb = {}
  BY DEF RemoveCallbacks, Mine, Client
<1> HIDE DEF b
<1>3. /\ d.alloc = b.alloc /\ d.aborted = b.aborted /\ d.dead = b.dead /\ d.cb = b.cb
      /\ d.pcb = b.pcb \/ (b.pcb # "FREED" /\ d.pcb # "FREED")
  BY <1>1 DEF tcp_close, Client
<1> HIDE DEF d
<1>4. c.alloc /\ c.pcb # "FREED" /\ Core(c)
  BY DEF Mine, Owned, Open
<1>5. Core(d) /\ d.alloc /\ d.cb = {} /\ d.dead = c.dead
  BY <1>2, <1>3, <1>4 DEF Core
<1>6. Kept(d, client_handle_freed_client(d))
  BY <1>1, <1>5, client_handle_freed_clientKeeps
<1> QED
  BY <1>5, <1>6 DEF Kept, client_free_client, b, d

\* After client_abort_pcb() the pcb is gone, and the callback knows.
LEMMA client_abort_pcbCore ==
    ASSUME NEW c, Mine(c), ~c.client_closed
    PROVE  LET d == client_abort_pcb(RemoveCallbacks(c))
           IN  /\ d \in Client /\ d.alloc /\ d.cb = {} /\ Core(d)
               /\ d.dead = "off" <=> c.dead = "off"
<1> DEFINE d == client_abort_pcb(RemoveCallbacks(c))
<1>1. d \in Client
  BY RemoveCallbacksType, client_abort_pcbType DEF Mine
<1>2. /\ d.alloc = c.alloc /\ d.aborted /\ d.pcb = "FREED" /\ d.cb = {}
      /\ d.dead = IF c.dead = "off" THEN "off" ELSE "aborted"
  BY DEF client_abort_pcb, RemoveCallbacks, tcp_abort, DeadKill, ASSERT, Mine, Client
<1> HIDE DEF d
<1>3. d.alloc
  BY <1>2 DEF Mine
<1>4. Core(d) /\ (d.dead = "off" <=> c.dead = "off")
  BY <1>2, <1>3 DEF Core
<1> QED
  BY <1>1, <1>2, <1>3, <1>4 DEF d

LEMMA client_abort_clientKeeps ==
    ASSUME NEW c, Mine(c), ~c.client_closed
    PROVE  Kept(c, client_abort_client(c))
<1> DEFINE d == client_abort_pcb(RemoveCallbacks(c))
<1>1. /\ d \in Client /\ d.alloc /\ d.cb = {} /\ Core(d)
      /\ d.dead = "off" <=> c.dead = "off"
  BY client_abort_pcbCore
<1> HIDE DEF d
<1>2. Kept(d, client_handle_freed_client(d))
  BY <1>1, client_handle_freed_clientKeeps
<1> QED
  BY <1>1, <1>2 DEF Kept, client_abort_client, d
LEMMA client_free_socksKeeps ==
    ASSUME NEW c, Mine(c) PROVE Kept(c, client_free_socks(c))
<1> DEFINE a == ASSERT(c, ~c.socks_closed)
           b == IF a.socks_up /\ ~a.client_closed
                THEN [a EXCEPT !.cb = @ \ {"recv"}] ELSE a
           d == FreeSocksClient(b)
<1>1. a \in Client /\ SameOwner(c, a)
  BY DEF ASSERT, Client, Mine, SameOwner
<1> HIDE DEF a
<1>2. /\ b \in Client
      /\ b.alloc = a.alloc /\ b.client_closed = a.client_closed /\ b.aborted = a.aborted
      /\ b.dead = a.dead /\ b.pcb = a.pcb
      /\ b.cb = a.cb \/ (~a.client_closed /\ b.cb = a.cb \ {"recv"})
  BY <1>1 DEF Client
<1> HIDE DEF b
<1>3. d \in Client /\ SameOwner(b, d)
  BY <1>2, FreeSocksClientType DEF SameOwner, FreeSocksClient, Client
<1> HIDE DEF d
<1>4. d.alloc /\ d.dead = c.dead /\ d.client_closed = c.client_closed
  BY <1>1, <1>2, <1>3 DEF SameOwner, Mine
<1>5. Core(d)
  BY <1>1, <1>2, <1>3, <1>4 DEF SameOwner, Mine, Owned, Core
<1>6. Open(d) => d.pcb \in {"ESTABLISHED", "CLOSE_WAIT"} /\ "err" \in d.cb
  BY <1>1, <1>2, <1>3 DEF SameOwner, Mine, Owned, Open
<1>7. d.cb # {} => Open(d)
  BY <1>1, <1>2, <1>3, <1>4 DEF SameOwner, Mine, Owned, Open
<1>8. Mine(d) /\ Kept(c, d)
  BY <1>3, <1>4, <1>5, <1>6, <1>7 DEF Mine, Owned, Kept
<1>9. CASE d.client_closed
  <2>1. d.cb = {}
    BY <1>7, <1>9 DEF Open
  <2>2. Kept(d, client_dealloc(d))
    BY <1>3, <1>4, <1>5, <1>9, <2>1, client_deallocKeeps
  <2>3. client_free_socks(c) = d \/ client_free_socks(c) = client_dealloc(d)
    BY <1>9 DEF client_free_socks, a, b, d
  <2> QED
    BY <1>4, <1>8, <2>2, <2>3 DEF Kept
<1>10. CASE ~d.client_closed
  <2>1. Kept(d, client_free_client(d))
    BY <1>8, <1>10, client_free_clientKeeps
  <2>2. client_free_socks(c) = d \/ client_free_socks(c) = client_free_client(d)
    BY <1>10 DEF client_free_socks, a, b, d
  <2> QED
    BY <1>4, <1>8, <2>1, <2>2 DEF Kept
<1> QED
  BY <1>9, <1>10

LEMMA client_murderKeeps ==
    ASSUME NEW c, Mine(c) PROVE Kept(c, client_murder(c))
<1> DEFINE b == client_abort_pcb(RemoveCallbacks(c))
           d == IF c.client_closed THEN c ELSE [b EXCEPT !.client_closed = TRUE]
           e == FreeSocksClient(d)
<1>2. /\ d \in Client /\ d.alloc /\ d.client_closed /\ d.cb = {} /\ Core(d)
      /\ d.dead = "off" <=> c.dead = "off"
  <2>1. CASE c.client_closed
    BY <2>1 DEF Mine, Owned, Open
  <2>2. CASE ~c.client_closed
    <3>1. /\ b \in Client /\ b.alloc /\ b.cb = {} /\ Core(b)
          /\ b.dead = "off" <=> c.dead = "off"
      BY <2>2, client_abort_pcbCore
    <3> HIDE DEF b
    <3>2. /\ d \in Client /\ d.alloc = b.alloc /\ d.client_closed /\ d.cb = b.cb
          /\ d.aborted = b.aborted /\ d.dead = b.dead /\ d.pcb = b.pcb
      BY <2>2, <3>1 DEF Client
    <3> HIDE DEF d
    <3> QED
      BY <3>1, <3>2 DEF Core
  <2> QED
    BY <2>1, <2>2
<1> HIDE DEF d
<1>3. e \in Client /\ SameOwner(d, e)
  BY <1>2, FreeSocksClientType DEF SameOwner, FreeSocksClient, Client
<1> HIDE DEF e
<1>4. Core(e) /\ e.alloc /\ e.client_closed /\ e.cb = {} /\ e.dead = d.dead
  BY <1>2, <1>3 DEF Core, SameOwner
<1>5. Kept(e, client_dealloc(e))
  BY <1>3, <1>4, client_deallocKeeps
<1> QED
  BY <1>2, <1>4, <1>5 DEF Kept, client_murder, b, d, e

LEMMA client_send_to_socksKeeps ==
    ASSUME NEW c, Mine(c) PROVE SameOwner(c, client_send_to_socks(c))
BY DEF client_send_to_socks, ASSERT, Mine, Client, SameOwner

LEMMA client_socks_recv_initiateKeeps ==
    ASSUME NEW c, Mine(c) PROVE SameOwner(c, client_socks_recv_initiate(c))
BY DEF client_socks_recv_initiate, ASSERT, Mine, Client, SameOwner

LEMMA MineAgain ==
    ASSUME NEW c, NEW d \in Client, Mine(c), SameOwner(c, d) PROVE Mine(d)
BY SameOwnerKeeps DEF Mine

LEMMA client_socks_send_handler_doneKeeps ==
    ASSUME NEW c, Mine(c), NEW n \in Nat
    PROVE  Kept(c, client_socks_send_handler_done(c, n))
<1> DEFINE a == ASSERT(c, ~c.socks_closed /\ c.socks_up /\ n <= Len(c.buf))
           b == [a EXCEPT !.buf = Drop(@, n), !.sending = 0]
           d == IF b.client_closed THEN b ELSE tcp_recved(b, n)
<1>1. a \in Client /\ SameOwner(c, a)
  BY DEF ASSERT, Client, Mine, SameOwner
<1> HIDE DEF a
<1>2. Drop(a.buf, n) \in Buffer(TcpWnd)
  BY <1>1, DropBuffer, SizesAreNatural DEF Client
<1>3. b \in Client /\ SameOwner(a, b)
  BY <1>1, <1>2 DEF Client, SameOwner
<1> HIDE DEF b
<1>4. d \in Client /\ SameOwner(b, d)
  BY <1>3, tcp_recvedType DEF Client, SameOwner, tcp_recved
<1> HIDE DEF d
<1>5. SameOwner(c, d)
  BY <1>1, <1>3, <1>4 DEF SameOwner
<1>6. Mine(d) /\ Kept(c, d)
  BY <1>4, <1>5, MineAgain, SameOwnerKeeps
<1>7. Kept(d, client_send_to_socks(d)) /\ Kept(d, client_free_socks(d))
  BY <1>6, client_send_to_socksKeeps, SameOwnerKeeps, client_free_socksKeeps
<1>8. client_socks_send_handler_done(c, n) \in
          {d, client_send_to_socks(d), client_free_socks(d)}
  BY DEF client_socks_send_handler_done, a, b, d
<1> QED
  BY <1>5, <1>6, <1>7, <1>8, SameOwnerThenKeeps
\* The loop over tcp_write() leaves the client alone or aborts it.
LEMMA client_socks_recv_send_outKeeps ==
    ASSUME NEW c, Mine(c), ~c.client_closed, NEW oom \in BOOLEAN, NEW fail \in BOOLEAN
    PROVE  Kept(c, client_socks_recv_send_out(c, oom, fail))
<1> DEFINE a == ASSERT(c, /\ ~c.client_closed /\ c.socks_up /\ ~c.waiting
                          /\ c.rbuf # <<>>)
           n == Lesser(Len(a.rbuf), SndBuf - Len(a.sndq))
           e == [a EXCEPT !.sndq = @ \o SubSeq(a.rbuf, 1, n),
                          !.rbuf = Drop(@, n), !.pending = @ + n]
           d == IF n = 0 \/ oom THEN a ELSE e
           w == [d EXCEPT !.waiting = TRUE]
<1>1. a \in Client /\ SameOwner(c, a)
  BY DEF ASSERT, Client, Mine, SameOwner
<1> HIDE DEF a, n
<1>2. SameOwner(a, e) /\ SameOwner(a, d)
  BY <1>1 DEF SameOwner, Client
<1>3. SameOwner(d, w)
  BY <1>1, <1>2 DEF SameOwner, Client
<1>4. d \in Client
  <2>1. /\ a.rbuf \in Seq(Nat) /\ Len(a.rbuf) \in Nat
        /\ a.sndq \in Buffer(SndBuf) /\ Len(a.sndq) \in Nat /\ SndBuf - Len(a.sndq) \in Nat
        /\ a.rbuf \in Buffer(SocksRecvBuf)
    BY <1>1, SizesAreNatural DEF Client, Buffer
  <2>2. n \in Nat /\ n <= Len(a.rbuf) /\ n <= SndBuf - Len(a.sndq)
    BY <2>1, LesserIsNatural DEF n
  <2>3. e \in Client
    BY <1>1, <2>1, <2>2, WrittenType
  <2> QED
    BY <1>1, <2>3
<1> HIDE DEF e, d, w
<1>5. SameOwner(c, d) /\ SameOwner(c, w) /\ Mine(d) /\ Mine(a)
  BY <1>1, <1>2, <1>3, <1>4, MineAgain DEF SameOwner
<1>6. ~a.client_closed /\ ~d.client_closed
  BY <1>1, <1>5 DEF SameOwner
<1>7. Kept(a, client_abort_client(a)) /\ Kept(d, client_abort_client(d))
  BY <1>5, <1>6, client_abort_clientKeeps
<1>8. Kept(c, client_abort_client(a)) /\ Kept(c, client_abort_client(d))
  BY <1>1, <1>5, <1>7, SameOwnerThenKeeps
<1>9. Kept(c, d) /\ Kept(c, w)
  BY <1>5, SameOwnerKeeps
<1>10. client_socks_recv_send_out(c, oom, fail) \in
           {client_abort_client(a), client_abort_client(d), d, w}
  BY DEF client_socks_recv_send_out, a, n, d, e, w
<1> QED
  BY <1>8, <1>9, <1>10
\* An open client is allocated: what is not allocated is closed.
LEMMA MineIfOpen ==
    ASSUME NEW c \in Client, Owned(c), ~c.client_closed PROVE Mine(c)
BY DEF Mine, Owned, Core

LEMMA KeptThenKeeps ==
    ASSUME NEW c, NEW d, NEW e, Kept(c, d), Kept(d, e) PROVE Kept(c, e)
BY DEF Kept

LEMMA client_socks_recv_handler_doneKeeps ==
    ASSUME NEW c, Mine(c), NEW data \in Buffer(SocksRecvBuf),
           NEW oom \in BOOLEAN, NEW fail \in BOOLEAN
    PROVE  Kept(c, client_socks_recv_handler_done(c, data, oom, fail))
<1> DEFINE b == ASSERT(c, ~c.socks_closed /\ c.socks_up /\ c.rbuf = <<>>)
           a == [b EXCEPT !.receiving = FALSE]
           e == [a EXCEPT !.rbuf = data, !.waiting = FALSE]
           d == client_socks_recv_send_out(e, oom, fail)
<1>1. b \in Client /\ SameOwner(c, b)
  BY DEF ASSERT, Client, Mine, SameOwner
<1> HIDE DEF b
<1>2. a \in Client /\ SameOwner(b, a)
  BY <1>1 DEF Client, SameOwner
<1> HIDE DEF a
<1>3. e \in Client /\ SameOwner(a, e)
  BY <1>2 DEF Client, SameOwner
<1> HIDE DEF e
<1>4. SameOwner(c, a) /\ SameOwner(c, e) /\ Mine(a) /\ Mine(e)
  BY <1>1, <1>2, <1>3, MineAgain DEF SameOwner
<1>5. d \in Client
  BY <1>3, client_socks_recv_send_outType
<1>6. CASE a.client_closed
  <2>1. client_socks_recv_handler_done(c, data, oom, fail) = a
    BY <1>6 DEF client_socks_recv_handler_done, b, a
  <2> QED
    BY <2>1, <1>4, SameOwnerKeeps
<1>7. CASE ~a.client_closed
  <2>1. ~e.client_closed
    BY <1>7, <1>3 DEF SameOwner
  <2>2. Kept(e, d)
    BY <1>4, <2>1, client_socks_recv_send_outKeeps
  <2>3. Kept(c, d) /\ Owned(d)
    BY <1>4, <2>2, SameOwnerThenKeeps DEF Kept
  <2>4. ~d.client_closed => Kept(c, client_socks_recv_initiate(d))
    BY <1>5, <2>3, MineIfOpen, client_socks_recv_initiateKeeps, SameOwnerKeeps, KeptThenKeeps
  <2>5. \/ client_socks_recv_handler_done(c, data, oom, fail) = d
        \/ /\ ~d.client_closed
           /\ client_socks_recv_handler_done(c, data, oom, fail) = client_socks_recv_initiate(d)
    BY <1>7 DEF client_socks_recv_handler_done, b, a, e
  <2> QED
    BY <2>3, <2>4, <2>5
<1> QED
  BY <1>6, <1>7

LEMMA SocksUpEventKeeps ==
    ASSUME NEW c, Mine(c) PROVE Kept(c, SocksUpEvent(c))
<1> DEFINE b == ASSERT(c, ~c.socks_up /\ ~c.socks_closed)
           a == [b EXCEPT !.socks_up = TRUE, !.rbuf = <<>>, !.pending = 0,
                          !.cb = IF c.client_closed THEN @ ELSE @ \cup {"sent"}]
           d == IF a.buf # <<>> THEN client_send_to_socks(a) ELSE a
<1>1. b \in Client /\ SameOwner(c, b)
  BY DEF ASSERT, Client, Mine, SameOwner
<1> HIDE DEF b
<1>2. a \in Client
  BY <1>1, UpType
<1>3. /\ a.alloc = b.alloc /\ a.client_closed = b.client_closed /\ a.aborted = b.aborted
      /\ a.dead = b.dead /\ a.pcb = b.pcb
      /\ a.cb = IF c.client_closed THEN b.cb ELSE b.cb \cup {"sent"}
  BY <1>1 DEF Client
<1> HIDE DEF a
<1>4. a.alloc /\ Core(a)
  BY <1>1, <1>3 DEF SameOwner, Mine, Owned, Core
<1>5. Open(a) => a.pcb \in {"ESTABLISHED", "CLOSE_WAIT"} /\ "err" \in a.cb
  BY <1>1, <1>3 DEF SameOwner, Mine, Owned, Open
<1>6. a.cb # {} => Open(a)
  BY <1>1, <1>3, <1>4 DEF SameOwner, Mine, Owned, Open
<1>7. Mine(a) /\ Kept(c, a)
  BY <1>1, <1>2, <1>3, <1>4, <1>5, <1>6 DEF Mine, Owned, Kept, SameOwner
<1>8. d \in Client /\ (d = a \/ SameOwner(a, d))
  BY <1>2, <1>7, client_send_to_socksType, client_send_to_socksKeeps
<1> HIDE DEF d
<1>9. Mine(d) /\ Kept(c, d)
  BY <1>7, <1>8, MineAgain, SameOwnerKeeps, KeptThenKeeps
<1>10. Kept(c, client_socks_recv_initiate(d))
  BY <1>9, client_socks_recv_initiateKeeps, SameOwnerKeeps, KeptThenKeeps
<1>11. SocksUpEvent(c) \in {d, client_socks_recv_initiate(d)}
  BY DEF SocksUpEvent, a, b, d
<1> QED
  BY <1>9, <1>10, <1>11

LEMMA client_sent_funcKeeps ==
    ASSUME NEW c, Mine(c), ~c.client_closed, NEW len \in Nat, NEW oom \in BOOLEAN
    PROVE  Kept(c, client_sent_func(c, len, oom))
<1> DEFINE f == [c EXCEPT !.pending = @ - len]
           a == ASSERT(f, ~c.client_closed /\ c.socks_up /\ len <= c.pending)
           e == [ASSERT(a, a.waiting) EXCEPT !.waiting = FALSE]
           b == client_socks_recv_send_out(e, oom, FALSE)
           d == IF b.client_closed THEN b ELSE ASSERT(b, b.pending > 0)
<1>1. f \in Client /\ SameOwner(c, f)
  <2>1. c \in Client
    BY DEF Mine
  <2>2. f \in Client
    BY <2>1 DEF Client
  <2>3. SameOwner(c, f)
    BY <2>1 DEF Client, SameOwner
  <2> QED
    BY <2>2, <2>3
<1> HIDE DEF f
<1>2. a \in Client /\ SameOwner(f, a)
  BY <1>1 DEF ASSERT, Client, SameOwner
<1> HIDE DEF a
<1>3. e \in Client /\ SameOwner(a, e)
  BY <1>2 DEF ASSERT, Client, SameOwner
<1> HIDE DEF e
<1>4. /\ SameOwner(c, a) /\ SameOwner(c, e) /\ Mine(a) /\ Mine(e)
      /\ ~a.client_closed /\ ~e.client_closed
  BY <1>1, <1>2, <1>3, MineAgain DEF SameOwner
<1>5. b \in Client /\ Kept(e, b)
  BY <1>3, <1>4, client_socks_recv_send_outType, client_socks_recv_send_outKeeps
<1> HIDE DEF b
<1>6. Kept(c, b) /\ Owned(b)
  BY <1>4, <1>5, SameOwnerThenKeeps DEF Kept
<1>7. d = b \/ (~b.client_closed /\ SameOwner(b, d))
  BY <1>5 DEF ASSERT, Client, SameOwner
<1>8. d \in Client
  BY <1>5 DEF ASSERT, Client
<1> HIDE DEF d
<1>9. Kept(c, d) /\ Owned(d)
  BY <1>5, <1>6, <1>7, MineIfOpen, SameOwnerKeeps, KeptThenKeeps
<1>10. ~d.client_closed => Kept(c, client_socks_recv_initiate(d))
  BY <1>8, <1>9, MineIfOpen, client_socks_recv_initiateKeeps, SameOwnerKeeps, KeptThenKeeps
<1>11. Kept(c, a) /\ Kept(c, client_free_client(a))
  BY <1>4, client_free_clientKeeps, SameOwnerKeeps, SameOwnerThenKeeps
<1>12. \/ client_sent_func(c, len, oom) \in {a, d, client_free_client(a)}
       \/ /\ ~d.client_closed
          /\ client_sent_func(c, len, oom) = client_socks_recv_initiate(d)
  BY DEF client_sent_func, f, a, e, b, d
<1> QED
  BY <1>9, <1>10, <1>11, <1>12

LEMMA client_recv_funcKeeps ==
    ASSUME NEW c, Mine(c), NEW data \in Seq(Nat)
    PROVE  Kept(c, client_recv_func(c, data))
<1> DEFINE a == ASSERT(c, ~c.client_closed)
           d == [a EXCEPT !.buf = @ \o data]
<1>1. a \in Client /\ SameOwner(c, a)
  BY DEF ASSERT, Client, Mine, SameOwner
<1> HIDE DEF a
<1>2. Mine(a) /\ Kept(c, a)
  BY <1>1, MineAgain, SameOwnerKeeps
<1>3. CASE Len(data) > TcpWnd - Len(a.buf)
  <2>1. SameOwner(a, ASSERT(a, FALSE))
    BY <1>1 DEF ASSERT, Client, SameOwner
  <2> QED
    BY <1>2, <1>3, <2>1, SameOwnerKeeps, KeptThenKeeps DEF client_recv_func, a
<1>4. CASE ~(Len(data) > TcpWnd - Len(a.buf))
  <2>1. a.buf \in Buffer(TcpWnd) /\ Len(a.buf) \in Nat /\ Len(data) \in Nat
    BY <1>1 DEF Client, Buffer
  <2>2. a.buf \o data \in Buffer(TcpWnd)
    BY <1>4, <2>1, AppendBuffer, SizesAreNatural
  <2>3. d \in Client /\ SameOwner(a, d)
    BY <1>1, <2>2 DEF Client, SameOwner
  <2> HIDE DEF d
  <2>4. Mine(d) /\ Kept(c, d)
    BY <1>2, <2>3, MineAgain, SameOwnerKeeps, KeptThenKeeps
  <2>5. Kept(c, client_send_to_socks(d))
    BY <2>4, client_send_to_socksKeeps, SameOwnerKeeps, KeptThenKeeps
  <2>6. client_recv_func(c, data) \in {d, client_send_to_socks(d)}
    BY <1>4 DEF client_recv_func, a, d
  <2> QED
    BY <2>4, <2>5, <2>6
<1> QED
  BY <1>3, <1>4
-----------------------------------------------------------------------------
(* Every step keeps Ownership. *)

SyncStages == {"acceptsync", "sentsync", "recvsync"}

\* What Ownership says of connection i when tcp_input() is at `stage' of it.
OwnedAt(c, stage) ==
    /\ Owned(c)
    /\ c.dead # "off" <=> stage \in SyncStages
    /\ stage \in {"sent", "recv", "fin"} => c.pcb # "FREED"

LEMMA OwnershipAt ==
    Ownership <=> \A i \in Clients : OwnedAt(cl[i], InHand(i).stage)
BY DEF Ownership, OwnedAt, SyncStages

LEMMA FreeSlotOwned == OwnedAt(FreeSlot, "idle")
BY DEF OwnedAt, FreeSlot, Slot, Owned, Core, Open, SyncStages

LEMMA AcceptedSlotOwned == OwnedAt(AcceptedSlot, "acceptsync")
BY DEF OwnedAt, AcceptedSlot, Slot, Owned, Core, Open, SyncStages

LEMMA DeadEnterOwned ==
    ASSUME NEW c \in Client, Owned(c), c.alloc, c.pcb # "FREED"
    PROVE  /\ Mine(DeadEnter(c)) /\ DeadEnter(c).dead # "off"
           /\ DeadEnter(c).client_closed = c.client_closed
<1> DEFINE d == DeadEnter(c)
<1>1. d \in Client
  BY DeadType
<1>2. /\ d.alloc = c.alloc /\ d.client_closed = c.client_closed /\ d.aborted = c.aborted
      /\ d.dead = "alive" /\ d.pcb = c.pcb /\ d.cb = c.cb
  BY DEF DeadEnter, Client
<1> HIDE DEF d
<1>3. Mine(d) /\ d.dead # "off"
  BY <1>1, <1>2 DEF Mine, Owned, Core, Open
<1> QED
  BY <1>2, <1>3 DEF d

LEMMA DeadLeaveOwned ==
    ASSUME NEW c \in Client, Owned(c)
    PROVE  /\ Owned(DeadLeave(c))
           /\ DeadLeave(c).dead = "off" /\ DeadLeave(c).pcb = c.pcb
<1> DEFINE d == DeadLeave(c)
<1>1. /\ d.alloc = c.alloc /\ d.client_closed = c.client_closed /\ d.aborted = c.aborted
      /\ d.socks_closed = c.socks_closed /\ d.receiving = c.receiving /\ d.sending = c.sending
      /\ d.dead = "off" /\ d.pcb = c.pcb /\ d.cb = c.cb
  BY DEF DeadLeave, Client
<1> HIDE DEF d
<1>2. Owned(d)
  BY <1>1 DEF Owned, Core, Open
<1> QED
  BY <1>1, <1>2 DEF d

\* tcp_input() or the event loop frees a pcb that nobody owns any more.
LEMMA tcp_abortOwned ==
    ASSUME NEW c \in Client, Owned(c), c.pcb \notin {"ESTABLISHED", "CLOSE_WAIT"}
    PROVE  /\ DeadLeave(tcp_abort(c)) \in Client /\ Owned(DeadLeave(tcp_abort(c)))
           /\ DeadLeave(tcp_abort(c)).dead = "off"
           /\ c.dead = "off" => Owned(tcp_abort(c)) /\ tcp_abort(c).dead = "off"
<1> DEFINE b == tcp_abort(c)
           d == DeadLeave(b)
<1>1. b \in Client /\ d \in Client
  BY tcp_abortType, DeadType
<1>2. /\ b.alloc = c.alloc /\ b.client_closed = c.client_closed /\ b.aborted = c.aborted
      /\ b.socks_closed = c.socks_closed /\ b.receiving = c.receiving /\ b.sending = c.sending
      /\ b.dead = c.dead /\ b.pcb = "FREED" /\ b.cb = c.cb
  BY DEF tcp_abort, Client
<1> HIDE DEF b
<1>3. /\ d.alloc = c.alloc /\ d.client_closed = c.client_closed /\ d.aborted = c.aborted
      /\ d.socks_closed = c.socks_closed /\ d.receiving = c.receiving /\ d.sending = c.sending
      /\ d.dead = "off" /\ d.pcb = "FREED" /\ d.cb = c.cb
  BY <1>1, <1>2 DEF DeadLeave, Client
<1> HIDE DEF d
<1>4. ~Open(c)
  BY DEF Owned
<1>5. Owned(d)
  BY <1>3, <1>4 DEF Owned, Core, Open
<1>6. c.dead = "off" => Owned(b) /\ b.dead = "off"
  BY <1>2, <1>4 DEF Owned, Core, Open
<1> QED
  BY <1>1, <1>3, <1>5, <1>6 DEF b, d

\* A step of connection i, while tcp_input() works on no other one.
LEMMA StepOwned ==
    ASSUME TypeOK, Ownership, NEW i \in Clients, NEW d, cl' = [cl EXCEPT ![i] = d],
           input.conn = i \/ Idle, input' = NoInput \/ input'.conn = i,
           OwnedAt(d, InHand(i).stage')
    PROVE  Ownership'
<1>1. ASSUME NEW j \in Clients, j # i PROVE OwnedAt(cl[j]', InHand(j).stage')
  <2>1. cl[j]' = cl[j]
    BY <1>1
  <2>2. InHand(j).stage = "idle" /\ InHand(j)'.stage = "idle"
    BY <1>1 DEF InHand, NoInput, Idle
  <2>3. OwnedAt(cl[j], "idle")
    BY <2>2, OwnershipAt
  <2> QED
    BY <2>1, <2>2, <2>3
<1>2. cl[i]' = d
  BY DEF TypeOK
<1> QED
  BY <1>1, <1>2 DEF Ownership, OwnedAt, SyncStages

LEMMA GoOnOwned ==
    ASSUME TypeOK, Ownership, NEW i \in Clients, NEW c \in Client, NEW in \in Segment,
           NEW before \in BOOLEAN, input.conn = i, in.conn = i, Owned(c),
           c.dead = "aborted" <=> c.pcb = "FREED", GoOn(i, c, in, before)
    PROVE  Ownership'
<1> DEFINE stop == \/ c.dead = "aborted"
                   \/ c.pcb = "TO_FREE" /\ (before \/ Rest(in) = NoInput)
                   \/ c.pcb \in {"CLOSING", "TIME_WAIT"} /\ before /\ in.len > 0
           d == DeadLeave(IF stop THEN tcp_abort(c) ELSE c)
<1>1. cl' = [cl EXCEPT ![i] = d] /\ input' = IF stop THEN NoInput ELSE Rest(in)
  BY DEF GoOn
<1>2. Owned(d) /\ d.dead = "off" /\ (~stop => d.pcb # "FREED")
  <2>1. CASE stop
    <3>1. c.pcb \notin {"ESTABLISHED", "CLOSE_WAIT"}
      BY <2>1
    <3> QED
      BY <2>1, <3>1, tcp_abortOwned
  <2>2. CASE ~stop
    BY <2>2, DeadLeaveOwned
  <2> QED
    BY <2>1, <2>2
<1>3. Rest(in) = NoInput \/ (Rest(in).conn = i /\ Rest(in).stage \in {"recv", "fin"})
  BY DEF Rest, Segment
<1> HIDE DEF d, stop
<1>4. OwnedAt(d, InHand(i).stage')
  <2>1. CASE input' = NoInput
    BY <1>2, <2>1, ClientsAssumption DEF InHand, NoInput, OwnedAt, SyncStages
  <2>2. CASE input' # NoInput
    <3>1. ~stop /\ input' = Rest(in)
      BY <1>1, <2>2
    <3>2. InHand(i)' = Rest(in) /\ Rest(in).stage \in {"recv", "fin"}
      BY <1>3, <2>2, <3>1 DEF InHand
    <3> QED
      BY <1>2, <3>1, <3>2 DEF OwnedAt, SyncStages
  <2> QED
    BY <2>1, <2>2
<1>5. input' = NoInput \/ input'.conn = i
  BY <1>1, <1>3
<1> QED
  BY <1>1, <1>4, <1>5, StepOwned

LEMMA SyncOwned ==
    ASSUME TypeOK, Ownership, NEW i \in Clients, NEW c, NEW in \in Segment,
           NEW stage \in SyncStages, input.conn = i \/ Idle, in.conn = i, Owned(c),
           c.dead # "off", Sync(i, c, in, stage)
    PROVE  Ownership'
<1>1. cl' = [cl EXCEPT ![i] = c] /\ input' = [in EXCEPT !.stage = stage]
  BY DEF Sync
<1>2. input'.conn = i /\ input'.stage = stage
  BY <1>1 DEF Segment
<1>3. OwnedAt(c, InHand(i).stage')
  BY <1>2 DEF InHand, OwnedAt, SyncStages
<1> QED
  BY <1>1, <1>2, <1>3, StepOwned

LEMMA JobOwned ==
    ASSUME TypeOK, Ownership, NEW i \in Clients, NEW c \in Client, NEW stages,
           stages \subseteq SyncStages, Kept(cl[i], c), Job(i, stages, c)
    PROVE  Ownership'
<1> DEFINE d == IF Idle /\ c.pcb = "TO_FREE" THEN tcp_abort(c) ELSE c
<1>1. cl' = [cl EXCEPT ![i] = d] /\ input' = input
  BY DEF Job
<1>2. OwnedAt(cl[i], InHand(i).stage)
  BY OwnershipAt
<1>3. Owned(d) /\ (d.dead = "off" <=> cl[i].dead = "off")
  <2>1. CASE Idle /\ c.pcb = "TO_FREE"
    <3>1. InHand(i).stage = "idle"
      BY <2>1 DEF InHand, Idle, NoInput
    <3>2. c.dead = "off"
      BY <1>2, <3>1 DEF OwnedAt, SyncStages, Kept
    <3>3. Owned(tcp_abort(c)) /\ tcp_abort(c).dead = "off"
      BY <2>1, <3>2, tcp_abortOwned DEF Kept
    <3> QED
      BY <2>1, <3>2, <3>3 DEF Kept
  <2>2. CASE ~(Idle /\ c.pcb = "TO_FREE")
    BY <2>2 DEF Kept
  <2> QED
    BY <2>1, <2>2
<1>4. InHand(i).stage \notin {"sent", "recv", "fin"}
  BY DEF Job, InHand, Idle, NoInput, SyncStages
<1> HIDE DEF d
<1>5. OwnedAt(d, InHand(i).stage)
  BY <1>2, <1>3, <1>4 DEF OwnedAt
<1>6. ASSUME NEW j \in Clients PROVE OwnedAt(cl[j]', InHand(j).stage')
  <2>1. InHand(j)' = InHand(j)
    BY <1>1 DEF InHand
  <2>2. cl[j]' = IF j = i THEN d ELSE cl[j]
    BY <1>1 DEF TypeOK
  <2> QED
    BY <1>5, <2>1, <2>2, OwnershipAt
<1> QED
  BY <1>6 DEF Ownership, OwnedAt, SyncStages
\* In a callback of connection i, Ownership speaks of cl[i].
LEMMA BusyOwned ==
    ASSUME TypeOK, Ownership, ~Idle
    PROVE  LET c == cl[input.conn]
           IN  /\ OwnedAt(c, input.stage)
               /\ c.dead = "aborted" <=> c.pcb = "FREED"
<1> DEFINE i == input.conn
<1>1. input \in Segment /\ i \in Clients
  BY BusyType
<1>2. InHand(i) = input
  BY DEF InHand
<1>3. OwnedAt(cl[i], input.stage)
  BY <1>1, <1>2, OwnershipAt
<1>4. input.stage \in SyncStages \cup {"sent", "recv", "fin"}
  BY <1>1 DEF Segment, Stages, SyncStages
<1>5. cl[i].dead = "aborted" <=> cl[i].pcb = "FREED"
  BY <1>3, <1>4 DEF OwnedAt, Owned, Core, SyncStages
<1> QED
  BY <1>3, <1>5

\* Between callbacks the flag is off, and Ownership is about the client alone.
LEMMA IdleOwned ==
    ASSUME TypeOK, Ownership, Idle, NEW i \in Clients
    PROVE  /\ OwnedAt(cl[i], "idle") /\ Owned(cl[i]) /\ cl[i].dead = "off"
           /\ input = NoInput
<1>1. input = NoInput
  BY DEF TypeOK, Input, Segment, Stages, Idle
<1>2. InHand(i).stage = "idle"
  BY <1>1 DEF InHand, NoInput
<1> QED
  BY <1>1, <1>2, OwnershipAt DEF OwnedAt, SyncStages

\* A step of connection i that leaves tcp_input() idle.
LEMMA IdleStepOwned ==
    ASSUME TypeOK, Ownership, Idle, NEW i \in Clients, NEW d, Owned(d), d.dead = "off",
           cl' = [cl EXCEPT ![i] = d], input' = input
    PROVE  Ownership'
<1>1. input = NoInput
  BY IdleOwned
<1>2. InHand(i)'.stage = "idle"
  BY <1>1 DEF InHand, NoInput
<1>3. OwnedAt(d, InHand(i).stage')
  BY <1>2 DEF OwnedAt, SyncStages
<1> QED
  BY <1>1, <1>3, StepOwned

LEMMA ReceiveOwned ==
    ASSUME NEW c \in Client, Owned(c), NEW n \in Nat, NEW f \in BOOLEAN
    PROVE  LET d == Receive(c, n, f)
           IN  /\ Owned(d) /\ d.dead = c.dead
               /\ d.pcb = "FREED" <=> c.pcb = "FREED"
<1> DEFINE d == Receive(c, n, f)
<1>1. /\ d.alloc = c.alloc /\ d.client_closed = c.client_closed /\ d.aborted = c.aborted
      /\ d.socks_closed = c.socks_closed /\ d.receiving = c.receiving /\ d.sending = c.sending
      /\ d.dead = c.dead /\ d.cb = c.cb
      /\ d.pcb = IF f /\ c.pcb = "ESTABLISHED" THEN "CLOSE_WAIT" ELSE c.pcb
  BY DEF Receive, Client
<1> HIDE DEF d
<1>2. Owned(d)
  BY <1>1 DEF Owned, Core, Open
<1> QED
  BY <1>1, <1>2 DEF d

LEMMA listener_accept_funcOwned ==
    ASSUME TypeOK, Ownership, NEW i \in Clients, NEW n \in Nat, NEW f \in BOOLEAN,
           listener_accept_func(i, n, f)
    PROVE  Ownership'
<1>1. /\ cl' = [cl EXCEPT ![i] = AcceptedSlot]
      /\ input' = [stage |-> "acceptsync", conn |-> i, acked |-> 0, len |-> n, fin |-> f]
      /\ Idle
  BY DEF listener_accept_func, Sync, NoInput
<1>2. OwnedAt(AcceptedSlot, InHand(i).stage')
  BY <1>1, AcceptedSlotOwned DEF InHand
<1> QED
  BY <1>1, <1>2, StepOwned

LEMMA SyncCommitOwned == ASSUME TypeOK, Ownership, SyncCommit PROVE Ownership'
<1> DEFINE i == input.conn
           d == IF cl[i].dead = "aborted" THEN cl[i]
                ELSE Receive(cl[i], input.len, input.fin)
<1>1. ~Idle
  BY DEF SyncCommit, Idle
<1>2. input \in Segment /\ i \in Clients /\ cl[i] \in Client
  BY <1>1, BusyType
<1>3. Owned(cl[i]) /\ (cl[i].dead = "aborted" <=> cl[i].pcb = "FREED")
  BY <1>1, BusyOwned DEF OwnedAt
<1>4. input.len \in Nat /\ input.fin \in BOOLEAN
  BY <1>2 DEF Segment
<1>5. d \in Client /\ Owned(d) /\ (d.dead = "aborted" <=> d.pcb = "FREED")
  BY <1>2, <1>3, <1>4, ReceiveType, ReceiveOwned
<1>6. \/ GoOn(i, d, input, TRUE)
      \/ GoOn(i, cl[i], input, TRUE)
      \/ GoOn(i, cl[i], input, FALSE)
  BY DEF SyncCommit
<1> HIDE DEF d
<1> QED
  BY <1>2, <1>3, <1>5, <1>6, GoOnOwned

LEMMA SegmentArrivesOwned ==
    ASSUME TypeOK, Ownership, NEW i \in Clients, NEW a \in Nat, NEW n \in Nat,
           NEW f \in BOOLEAN, SegmentArrives(i, a, n, f)
    PROVE  Ownership'
<1> DEFINE q == Drop(cl[i].sndq, a)
           d == [cl[i] EXCEPT !.sndq = q]
           e == Receive(d, n, f)
<1>1. Idle /\ cl[i].pcb # "FREED"
  BY DEF SegmentArrives
<1>2. cl[i] \in Client /\ cl[i].sndq \in Buffer(SndBuf)
  BY DEF TypeOK, Client
<1>3. q \in Buffer(SndBuf)
  BY <1>2, DropBuffer, SizesAreNatural
<1>4. /\ cl' = [cl EXCEPT ![i] = e]
      /\ input' = [stage |-> "sent", conn |-> i, acked |-> a, len |-> n, fin |-> f]
  BY DEF SegmentArrives
<1> HIDE DEF q
<1>5. /\ d \in Client /\ d.alloc = cl[i].alloc /\ d.client_closed = cl[i].client_closed
      /\ d.aborted = cl[i].aborted /\ d.socks_closed = cl[i].socks_closed
      /\ d.receiving = cl[i].receiving /\ d.sending = cl[i].sending
      /\ d.dead = cl[i].dead /\ d.pcb = cl[i].pcb /\ d.cb = cl[i].cb
  BY <1>2, <1>3 DEF Client
<1> HIDE DEF d
<1>6. Owned(d) /\ d.dead = "off" /\ d.pcb # "FREED"
  BY <1>1, <1>5, IdleOwned DEF Owned, Core, Open
<1>7. Owned(e) /\ e.dead = "off" /\ e.pcb # "FREED"
  BY <1>5, <1>6, ReceiveOwned
<1> HIDE DEF e
<1>8. InHand(i)'.stage = "sent"
  BY <1>4 DEF InHand
<1>9. OwnedAt(e, InHand(i).stage')
  BY <1>7, <1>8 DEF OwnedAt, SyncStages
<1> QED
  BY <1>1, <1>4, <1>9, StepOwned
LEMMA CallbackOwned ==
    ASSUME NEW c, NEW d, Kept(c, d), c.dead # "off"
    PROVE  Owned(d) /\ d.dead # "off" /\ (d.dead = "aborted" <=> d.pcb = "FREED")
BY DEF Kept, Owned, Core

LEMMA SentEventOwned ==
    ASSUME TypeOK, Ownership, NEW oom \in BOOLEAN, SentEvent(oom) PROVE Ownership'
<1> DEFINE i == input.conn
           c == DeadEnter(cl[i])
           d == client_sent_func(c, input.acked, oom)
           rest == [input EXCEPT !.acked = 0]
<1>1. ~Idle /\ input.stage = "sent"
  BY DEF SentEvent, Idle
<1>2. input \in Segment /\ i \in Clients /\ cl[i] \in Client
  BY <1>1, BusyType
<1>3. /\ Owned(cl[i]) /\ cl[i].pcb # "FREED"
      /\ cl[i].dead = "aborted" <=> cl[i].pcb = "FREED"
  BY <1>1, BusyOwned DEF OwnedAt
<1>4. rest \in Segment /\ rest.conn = i /\ input.acked \in Nat
  BY <1>2 DEF Segment
<1>5. CASE GoOn(i, cl[i], rest, TRUE)
  BY <1>2, <1>3, <1>4, <1>5, GoOnOwned
<1>6. CASE "sent" \in cl[i].cb /\ (GoOn(i, d, rest, TRUE) \/ Sync(i, d, rest, "sentsync"))
  <2>1. Open(cl[i])
    BY <1>3, <1>6 DEF Owned
  <2>2. Mine(c) /\ c.dead # "off" /\ ~c.client_closed
    BY <1>2, <1>3, <2>1, DeadEnterOwned DEF Open
  <2>3. d \in Client
    BY <1>4, <2>2, client_sent_funcType DEF Mine
  <2>4. Owned(d) /\ d.dead # "off" /\ (d.dead = "aborted" <=> d.pcb = "FREED")
    BY <1>4, <2>2, client_sent_funcKeeps, CallbackOwned
  <2>5. "sentsync" \in SyncStages
    BY DEF SyncStages
  <2> HIDE DEF d, rest, i
  <2> QED
    BY <1>2, <1>4, <1>6, <2>3, <2>4, <2>5, GoOnOwned, SyncOwned DEF i
<1> QED
  BY <1>5, <1>6 DEF SentEvent

LEMMA RecvEventOwned == ASSUME TypeOK, Ownership, RecvEvent PROVE Ownership'
<1> DEFINE i == input.conn
           b == tcp_recved(cl[i], input.len)
           c == DeadEnter(cl[i])
           data == Bytes(net[i].app_sent, input.len)
           d == client_recv_func(c, data)
           rest == [input EXCEPT !.len = 0]
<1>1. ~Idle /\ input.stage = "recv"
  BY DEF RecvEvent, Idle
<1>2. input \in Segment /\ i \in Clients /\ cl[i] \in Client
  BY <1>1, BusyType
<1>3. /\ Owned(cl[i]) /\ cl[i].pcb # "FREED"
      /\ cl[i].dead = "aborted" <=> cl[i].pcb = "FREED"
  BY <1>1, BusyOwned DEF OwnedAt
<1>4. rest \in Segment /\ rest.conn = i /\ input.len \in Nat
  BY <1>2 DEF Segment
<1>5. data \in Seq(Nat)
  BY <1>2, <1>4, BytesAreASequence DEF TypeOK, Net
<1> HIDE DEF data
<1>6. CASE GoOn(i, b, rest, FALSE)
  <2>1. b \in Client
    BY <1>2, <1>4, tcp_recvedType
  <2>2. /\ b.alloc = cl[i].alloc /\ b.client_closed = cl[i].client_closed
        /\ b.aborted = cl[i].aborted /\ b.socks_closed = cl[i].socks_closed
        /\ b.receiving = cl[i].receiving /\ b.sending = cl[i].sending
        /\ b.dead = cl[i].dead /\ b.pcb = cl[i].pcb /\ b.cb = cl[i].cb
    BY <1>2 DEF tcp_recved, Client
  <2> HIDE DEF b
  <2>3. Owned(b) /\ (b.dead = "aborted" <=> b.pcb = "FREED")
    BY <1>3, <2>2 DEF Owned, Core, Open
  <2> QED
    BY <1>2, <1>4, <1>6, <2>1, <2>3, GoOnOwned
<1>7. CASE "recv" \in cl[i].cb /\ (GoOn(i, d, rest, FALSE) \/ Sync(i, d, rest, "recvsync"))
  <2>1. Open(cl[i])
    BY <1>3, <1>7 DEF Owned
  <2>2. Mine(c) /\ c.dead # "off"
    BY <1>2, <1>3, <2>1, DeadEnterOwned DEF Open
  <2>3. d \in Client
    BY <1>5, <2>2, client_recv_funcType DEF Mine
  <2>4. Owned(d) /\ d.dead # "off" /\ (d.dead = "aborted" <=> d.pcb = "FREED")
    BY <1>5, <2>2, client_recv_funcKeeps, CallbackOwned
  <2>5. "recvsync" \in SyncStages
    BY DEF SyncStages
  <2> HIDE DEF d, rest, i
  <2> QED
    BY <1>2, <1>4, <1>7, <2>3, <2>4, <2>5, GoOnOwned, SyncOwned DEF i
<1> QED
  BY <1>6, <1>7 DEF RecvEvent, data

LEMMA FinEventOwned == ASSUME TypeOK, Ownership, FinEvent PROVE Ownership'
<1> DEFINE i == input.conn
           b == [cl[i] EXCEPT !.rcv_wnd = IF @ = TcpWnd THEN @ ELSE @ + 1]
           c == DeadEnter(b)
           d == client_free_client(c)
           rest == [input EXCEPT !.fin = FALSE]
<1>1. ~Idle /\ input.stage = "fin"
  BY DEF FinEvent, Idle
<1>2. input \in Segment /\ i \in Clients /\ cl[i] \in Client
  BY <1>1, BusyType
<1>3. /\ Owned(cl[i]) /\ cl[i].pcb # "FREED"
      /\ cl[i].dead = "aborted" <=> cl[i].pcb = "FREED"
  BY <1>1, BusyOwned DEF OwnedAt
<1>4. rest \in Segment /\ rest.conn = i
  BY <1>2 DEF Segment
<1>5. /\ b \in Client
      /\ b.alloc = cl[i].alloc /\ b.client_closed = cl[i].client_closed
      /\ b.aborted = cl[i].aborted /\ b.socks_closed = cl[i].socks_closed
      /\ b.receiving = cl[i].receiving /\ b.sending = cl[i].sending
      /\ b.dead = cl[i].dead /\ b.pcb = cl[i].pcb /\ b.cb = cl[i].cb
  BY <1>2 DEF Client
<1> HIDE DEF b
<1>6. Owned(b) /\ b.pcb # "FREED" /\ (b.dead = "aborted" <=> b.pcb = "FREED")
  BY <1>3, <1>5 DEF Owned, Core, Open
<1>7. CASE GoOn(i, b, rest, FALSE)
  BY <1>2, <1>4, <1>5, <1>6, <1>7, GoOnOwned
<1>8. CASE "recv" \in b.cb /\ GoOn(i, d, rest, FALSE)
  <2>1. Open(b)
    BY <1>6, <1>8 DEF Owned
  <2>2. Mine(c) /\ c.dead # "off" /\ ~c.client_closed
    BY <1>5, <1>6, <2>1, DeadEnterOwned DEF Open
  <2>3. d \in Client
    BY <2>2, client_free_clientType DEF Mine
  <2>4. Owned(d) /\ (d.dead = "aborted" <=> d.pcb = "FREED")
    BY <2>2, client_free_clientKeeps, CallbackOwned
  <2> QED
    BY <1>2, <1>4, <1>8, <2>3, <2>4, GoOnOwned
<1> QED
  BY <1>7, <1>8 DEF FinEvent, b

LEMMA PcbDiesOwned ==
    ASSUME TypeOK, Ownership, NEW i \in Clients, PcbDies(i) PROVE Ownership'
<1> DEFINE c == cl[i]
           d == RemoveCallbacks(tcp_abort(c))
<1>1. /\ Idle /\ c.pcb # "FREED" /\ input' = input
      /\ cl' = [cl EXCEPT ![i] = IF "err" \in c.cb THEN client_handle_freed_client(d) ELSE d]
  BY DEF PcbDies
<1>2. c \in Client /\ Owned(c) /\ c.dead = "off"
  BY <1>1, IdleOwned DEF TypeOK
<1>3. /\ d \in Client
      /\ d.alloc = c.alloc /\ d.client_closed = c.client_closed /\ d.aborted = c.aborted
      /\ d.socks_closed = c.socks_closed /\ d.receiving = c.receiving /\ d.sending = c.sending
      /\ d.dead = "off" /\ d.pcb = "FREED" /\ d.cb = {}
  BY <1>2, tcp_abortType, RemoveCallbacksType DEF tcp_abort, RemoveCallbacks, Client
<1> HIDE DEF d
<1>4. Core(d)
  BY <1>2, <1>3 DEF Owned, Core
<1>5. CASE "err" \in c.cb
  <2>1. d.alloc
    BY <1>2, <1>3, <1>5 DEF Owned, Open
  <2>2. Kept(d, client_handle_freed_client(d))
    BY <1>3, <1>4, <2>1, client_handle_freed_clientKeeps
  <2> QED
    BY <1>1, <1>3, <1>5, <2>2, IdleStepOwned DEF Kept
<1>6. CASE "err" \notin c.cb
  <2>1. ~Open(d)
    BY <1>2, <1>3, <1>6 DEF Owned, Open
  <2>2. Owned(d)
    BY <1>3, <1>4, <2>1 DEF Owned
  <2> QED
    BY <1>1, <1>3, <1>6, <2>2, IdleStepOwned
<1> QED
  BY <1>5, <1>6

LEMMA OrphanOwned ==
    ASSUME TypeOK, Ownership, NEW i \in Clients,
           (\E a \in Nat : OrphanAck(i, a)) \/ OrphanGone(i)
    PROVE  Ownership'
<1>1. Idle /\ cl[i].pcb \in {"CLOSING", "TIME_WAIT"} /\ input' = input
  BY DEF OrphanAck, OrphanGone
<1>2. cl[i] \in Client /\ Owned(cl[i]) /\ cl[i].dead = "off"
  BY <1>1, IdleOwned DEF TypeOK
<1>3. CASE OrphanGone(i)
  <2>1. Owned(tcp_abort(cl[i])) /\ tcp_abort(cl[i]).dead = "off"
    BY <1>1, <1>2, tcp_abortOwned
  <2> QED
    BY <1>1, <1>3, <2>1, IdleStepOwned DEF OrphanGone
<1>4. ASSUME NEW a \in Nat, OrphanAck(i, a) PROVE Ownership'
  <2> DEFINE d == [cl[i] EXCEPT !.sndq = Drop(@, a)]
  <2>1. /\ d.alloc = cl[i].alloc /\ d.client_closed = cl[i].client_closed
        /\ d.aborted = cl[i].aborted /\ d.socks_closed = cl[i].socks_closed
        /\ d.receiving = cl[i].receiving /\ d.sending = cl[i].sending
        /\ d.dead = cl[i].dead /\ d.pcb = cl[i].pcb /\ d.cb = cl[i].cb
    BY <1>2 DEF Client
  <2>2. cl' = [cl EXCEPT ![i] = d]
    BY <1>4 DEF OrphanAck, TypeOK
  <2> HIDE DEF d
  <2>3. Owned(d) /\ d.dead = "off"
    BY <1>2, <2>1 DEF Owned, Core, Open
  <2> QED
    BY <1>1, <2>2, <2>3, IdleStepOwned
<1> QED
  BY <1>3, <1>4
LEMMA SendDoneOwned ==
    ASSUME TypeOK, Ownership, NEW i \in Clients, NEW n \in Nat, n > 0, SendDone(i, n)
    PROVE  Ownership'
<1> DEFINE d == client_socks_send_handler_done(cl[i], n)
<1>1. cl[i] \in Client /\ Owned(cl[i])
  BY DEF TypeOK, Ownership
<1>2. cl[i].alloc
  BY <1>1 DEF SendDone, Owned, Core, Client
<1>3. Mine(cl[i])
  BY <1>1, <1>2 DEF Mine
<1>4. d \in Client /\ Kept(cl[i], d)
  BY <1>1, <1>3, client_socks_send_handler_doneType, client_socks_send_handler_doneKeeps
<1>5. Job(i, {"acceptsync", "recvsync"}, d)
  BY DEF SendDone
<1> HIDE DEF d
<1> QED
  BY <1>4, <1>5, JobOwned DEF SyncStages

LEMMA RecvDoneOwned ==
    ASSUME TypeOK, Ownership, NEW i \in Clients, NEW n \in 1..SocksRecvBuf,
           NEW oom \in BOOLEAN, NEW fail \in BOOLEAN, RecvDone(i, n, oom, fail)
    PROVE  Ownership'
<1> DEFINE data == Bytes(net[i].srv_sent, n)
           d == client_socks_recv_handler_done(cl[i], data, oom, fail)
<1>1. cl[i] \in Client /\ Owned(cl[i])
  BY DEF TypeOK, Ownership
<1>2. Mine(cl[i])
  BY <1>1 DEF RecvDone, Mine, Owned, Core
<1>3. data \in Buffer(SocksRecvBuf)
  <2>1. n \in Nat /\ n <= SocksRecvBuf
    BY SizesAreNatural
  <2> QED
    BY <2>1, BytesAreASequence DEF TypeOK, Net, Buffer
<1>4. Job(i, {"acceptsync", "sentsync"}, d)
  BY DEF RecvDone
<1> HIDE DEF data
<1>5. d \in Client /\ Kept(cl[i], d)
  BY <1>1, <1>2, <1>3, client_socks_recv_handler_doneType, client_socks_recv_handler_doneKeeps
<1> HIDE DEF d
<1> QED
  BY <1>4, <1>5, JobOwned DEF SyncStages

LEMMA SocksEventOwned ==
    ASSUME TypeOK, Ownership, NEW i \in Clients, SocksUp(i) \/ SocksEof(i) \/ SocksError(i)
    PROVE  Ownership'
<1> DEFINE a == ASSERT(cl[i], cl[i].socks_up)
<1>1. cl[i] \in Client /\ Owned(cl[i])
  BY DEF TypeOK, Ownership
<1>2. Mine(cl[i])
  BY <1>1 DEF SocksUp, SocksEof, SocksError, Mine, Owned, Core
<1>3. CASE SocksUp(i)
  <2>1. SocksUpEvent(cl[i]) \in Client /\ Kept(cl[i], SocksUpEvent(cl[i]))
    BY <1>1, <1>2, SocksUpEventType, SocksUpEventKeeps
  <2> QED
    BY <1>3, <2>1, JobOwned DEF SocksUp, SyncStages
<1>4. CASE SocksEof(i)
  <2>1. a \in Client /\ SameOwner(cl[i], a)
    BY <1>1 DEF ASSERT, Client, SameOwner
  <2>2. Job(i, {"acceptsync", "sentsync"}, client_free_socks(a))
    BY <1>4 DEF SocksEof
  <2> HIDE DEF a
  <2>3. client_free_socks(a) \in Client /\ Kept(cl[i], client_free_socks(a))
    BY <1>2, <2>1, MineAgain, client_free_socksType, client_free_socksKeeps, SameOwnerThenKeeps
  <2> QED
    BY <2>2, <2>3, JobOwned DEF SyncStages
<1>5. CASE SocksError(i)
  <2>1. client_free_socks(cl[i]) \in Client /\ Kept(cl[i], client_free_socks(cl[i]))
    BY <1>1, <1>2, client_free_socksType, client_free_socksKeeps
  <2>2. Job(i, SyncStages, client_free_socks(cl[i]))
    BY <1>5 DEF SocksError, Job, SyncStages
  <2> QED
    BY <2>1, <2>2, JobOwned
<1> QED
  BY <1>3, <1>4, <1>5

LEMMA TerminateOwned == ASSUME TypeOK, Ownership, Terminate PROVE Ownership'
<1>1. Idle /\ input' = input
  BY DEF Terminate
<1>2. ASSUME NEW i \in Clients PROVE OwnedAt(cl[i]', InHand(i).stage')
  <2>1. Owned(cl[i]) /\ cl[i].dead = "off" /\ input = NoInput /\ cl[i] \in Client
    BY <1>1, IdleOwned DEF TypeOK
  <2>2. Owned(cl[i]') /\ cl[i]'.dead = "off"
    <3>1. CASE cl[i].alloc
      BY <2>1, <3>1, client_murderKeeps DEF Terminate, Mine, Kept
    <3>2. CASE ~cl[i].alloc
      BY <2>1, <3>2 DEF Terminate
    <3> QED
      BY <3>1, <3>2
  <2>3. InHand(i)'.stage = "idle"
    BY <1>1, <2>1 DEF InHand, NoInput
  <2> QED
    BY <2>2, <2>3 DEF OwnedAt, SyncStages
<1> QED
  BY <1>2 DEF Ownership, OwnedAt, SyncStages

LEMMA InitOwned == ASSUME Init PROVE Ownership
<1>1. \A i \in Clients : cl[i] = FreeSlot /\ InHand(i).stage = "idle"
  BY DEF Init, InHand, NoInput
<1> QED
  BY <1>1, FreeSlotOwned, OwnershipAt

LEMMA NextOwned == ASSUME TypeOK, Ownership, [Next]_vars PROVE Ownership'
<1>1. CASE TcpInputStep
  BY <1>1, SyncCommitOwned, SentEventOwned, RecvEventOwned, FinEventOwned DEF TcpInputStep
<1>2. ASSUME NEW i \in Clients, App(i) PROVE Ownership'
  <2>1. \A n : n \in 0..TcpWnd \/ n \in 0..SndBuf \/ n \in 1..SndBuf => n \in Nat
    BY SizesAreNatural
  <2> QED
    BY <1>2, <2>1, listener_accept_funcOwned, SegmentArrivesOwned, PcbDiesOwned,
       OrphanOwned DEF App
<1>3. ASSUME NEW i \in Clients, Socks(i) PROVE Ownership'
  <2>1. \A n \in 1..TcpWnd : n \in Nat /\ n > 0
    BY SizesAreNatural
  <2> QED
    BY <1>3, <2>1, SendDoneOwned, RecvDoneOwned, SocksEventOwned DEF Socks
<1>4. CASE Terminate
  BY <1>4, TerminateOwned
<1>5. CASE UNCHANGED vars
  BY <1>5 DEF vars, Ownership, InHand
<1> QED
  BY <1>1, <1>2, <1>3, <1>4, <1>5 DEF Next, Exited

\* For every number of connections and all buffer sizes, whatever callback,
\* job, reset or shutdown comes next: `aborted', the dead flag, the callbacks
\* and client_closed keep telling the truth about the pcb.
THEOREM OwnershipHolds == Spec => []Ownership
<1>1. Init => Ownership
  BY InitOwned
<1>2. TypeOK /\ Ownership /\ [Next]_vars => Ownership'
  BY NextOwned
<1> QED
  BY <1>1, <1>2, TypeCorrect, PTL DEF Spec

\* A client never uses a pcb that lwIP has freed or is closing.
THEOREM PcbNeverDangles == Spec => []NoDanglingPcb
<1>1. Ownership => NoDanglingPcb
  BY DEF Ownership, Owned, NoDanglingPcb
<1> QED
  BY <1>1, OwnershipHolds, PTL

\* lwIP never calls back into a client that was freed or has let the pcb go.
THEOREM CallbackNeverDangles == Spec => []NoDanglingCallback
<1>1. Ownership => NoDanglingCallback
  BY DEF Ownership, Owned, NoDanglingCallback
<1> QED
  BY <1>1, OwnershipHolds, PTL

\* Both together: neither side refers to what the other has freed.
THEOREM NothingEverDangles == Spec => []NothingDangles
BY PcbNeverDangles, CallbackNeverDangles, PTL DEF NothingDangles

\* A callback returns ERR_ABRT exactly if the pcb was aborted under tcp_input().
THEOREM AbortsAreReported == Spec => []AbortIsReported
<1>1. TypeOK /\ Ownership => AbortIsReported
  BY BusyOwned DEF AbortIsReported
<1> QED
  BY <1>1, TypeCorrect, OwnershipHolds, PTL

-----------------------------------------------------------------------------
(***************************************************************************)
(* The flow of data: that the counters agree with the buffers, that no     *)
(* ASSERT fails, that nobody waits for nothing, and that bytes stay in     *)
(* order.                                                                  *)
(***************************************************************************)

\* An operation in progress on the SOCKS stream belongs to a client that has one.
Streams(c) ==
    /\ c.sending > 0 => /\ c.alloc /\ ~c.socks_closed /\ c.socks_up
                        /\ c.sending <= Len(c.buf)
    /\ c.receiving => c.alloc /\ ~c.socks_closed /\ c.socks_up /\ c.rbuf = <<>>

\* What holds of any client between two of its events.
Steady(c) == c.ok /\ Streams(c) /\ Wakeable(c)

\* What holds besides of one whose pcb is its own.  held: what tcp_input() has taken
\* out of the window and not handed over; acked: what lwIP has dropped from the send
\* queue without having told the relay; up, down: the bytes each end has sent and got.
Window(c, held) == c.rcv_wnd >= 0 /\ c.rcv_wnd + Len(c.buf) + held = TcpWnd

Pending(c, acked) ==
    /\ ~c.socks_up => c.sndq = <<>> /\ c.rbuf = <<>> /\ acked = 0
    /\ c.socks_up => c.pending = Len(c.sndq) + acked /\ "sent" \in c.cb

\* The buffer holds the bytes of a stream from the one after `from' on.
Counts(s, from) == \A k \in 1..Len(s) : s[k] = from + k

Upward(c, nt) ==
    /\ "recv" \in c.cb <=> ~c.socks_closed
    /\ nt.srv_got + Len(c.buf) <= nt.app_sent
    /\ ~c.socks_closed => nt.srv_got + Len(c.buf) = nt.app_sent /\ Counts(c.buf, nt.srv_got)

Downward(c, nt) ==
    /\ nt.app_got + Len(c.sndq) + Len(c.rbuf) = nt.srv_sent
    /\ Counts(c.sndq, nt.app_got) /\ Counts(c.rbuf, nt.app_got + Len(c.sndq))

Flows(c, held, acked, nt) ==
    Window(c, held) /\ Pending(c, acked) /\ Upward(c, nt) /\ Downward(c, nt)

Flow(c, held, acked, nt) == Steady(c) /\ (Open(c) => Flows(c, held, acked, nt))

\* What tcp_input() has taken out of the window for the segment in hand.
Held(in) == IF in.stage = "acceptsync" THEN 0 ELSE in.len + FinLen(in.fin)

\* The segment in hand is handed over in order: acknowledgement, data, FIN.
InOrder(in) ==
    /\ in.stage # "sent" => in.acked = 0
    /\ in.stage = "recv" => in.len > 0
    /\ in.stage \in {"recvsync", "fin"} => in.len = 0
    /\ in.stage = "fin" => in.fin
    /\ in.stage = "acceptsync" => in.len + FinLen(in.fin) <= TcpWnd

\* What FlowInv says of a connection.
FlowAt(c, in, nt) ==
    /\ Flow(c, Held(in), in.acked, nt)
    /\ in.stage = "acceptsync" => nt.app_sent = 0

FlowInv ==
    /\ InOrder(input)
    /\ \A i \in Clients : FlowAt(cl[i], InHand(i), net[i])

-----------------------------------------------------------------------------
(* Bytes *)

LEMMA BytesCount ==
    ASSUME NEW from \in Nat, NEW n \in Nat
    PROVE  Bytes(from, n) \in Seq(Nat) /\ Len(Bytes(from, n)) = n /\ Counts(Bytes(from, n), from)
BY DEF Bytes, Counts

LEMMA CountsAreBytes ==
    ASSUME NEW from \in Nat, NEW s \in Seq(Nat), Counts(s, from)
    PROVE  s = Bytes(from, Len(s))
BY DEF Bytes, Counts

LEMMA DropCounts ==
    ASSUME NEW from \in Nat, NEW s \in Seq(Nat), Counts(s, from), NEW k \in Nat, k <= Len(s)
    PROVE  /\ Drop(s, k) \in Seq(Nat) /\ Len(Drop(s, k)) = Len(s) - k
           /\ Counts(Drop(s, k), from + k)
BY DEF Drop, Counts

LEMMA DropLength ==
    ASSUME NEW s \in Seq(Nat), NEW k \in Nat, k <= Len(s) PROVE Len(Drop(s, k)) = Len(s) - k
BY DEF Drop

LEMMA AppendCounts ==
    ASSUME NEW from \in Nat, NEW s \in Seq(Nat), NEW t \in Seq(Nat),
           Counts(s, from), Counts(t, from + Len(s))
    PROVE  /\ s \o t \in Seq(Nat) /\ Len(s \o t) = Len(s) + Len(t)
           /\ Counts(s \o t, from)
BY DEF Counts

\* Bytes that move from the front of a buffer to the end of a queue.
LEMMA MoveCounts ==
    ASSUME NEW from \in Nat, NEW q \in Seq(Nat), NEW r \in Seq(Nat),
           NEW n \in Nat, n <= Len(r), Counts(q, from), Counts(r, from + Len(q))
    PROVE  /\ Len(q \o SubSeq(r, 1, n)) = Len(q) + n /\ Counts(q \o SubSeq(r, 1, n), from)
           /\ Len(Drop(r, n)) = Len(r) - n /\ Counts(Drop(r, n), from + Len(q) + n)
<1>1. SubSeq(r, 1, n) \in Seq(Nat) /\ Len(SubSeq(r, 1, n)) = n
  BY PrefixBuffer
<1>2. Counts(SubSeq(r, 1, n), from + Len(q))
  BY <1>1 DEF Counts
<1>3. Len(Drop(r, n)) = Len(r) - n /\ Counts(Drop(r, n), from + Len(q) + n)
  BY DropCounts
<1>4. Len(q \o SubSeq(r, 1, n)) = Len(q) + n /\ Counts(q \o SubSeq(r, 1, n), from)
  BY <1>1, <1>2, AppendCounts
<1> QED
  BY <1>3, <1>4

-----------------------------------------------------------------------------
(* Each function keeps the flow, or lets the client go and leaves it steady. *)

\* Data for the server is being sent whenever there is some.
Sender(c) == c.socks_up /\ ~c.socks_closed => (c.sending > 0 <=> c.buf # <<>>)

\* Data for the app that lwIP did not take waits for an acknowledgement.
Waiter(c) == Open(c) /\ c.socks_up /\ c.rbuf # <<>> => c.waiting /\ c.pending > 0

\* A client whose pcb is its own, and who can still lose it.
Mate(c) == c \in Client /\ c.ok /\ Open(c) /\ Streams(c) /\ Sender(c)

LetGo(c) == c \in Client /\ Steady(c) /\ c.client_closed

LEMMA client_deallocFlow ==
    ASSUME NEW c \in Client, c.ok, c.alloc, c.client_closed, c.socks_closed
    PROVE  LetGo(client_dealloc(c))
<1> DEFINE d == client_dealloc(c)
<1>1. d \in Client
  BY client_deallocType
<1>2. /\ d.ok /\ ~d.alloc /\ d.client_closed /\ d.socks_closed /\ ~d.socks_up
      /\ d.sending = 0 /\ ~d.receiving
  BY DEF client_dealloc, Freed, Slot, DeadKill, ASSERT, Client
<1> HIDE DEF d
<1>3. Streams(d) /\ Wakeable(d) /\ ~Open(d)
  BY <1>2 DEF Streams, Wakeable, Open
<1> QED
  BY <1>1, <1>2, <1>3 DEF LetGo, Steady, d

\* Only these fields matter to what becomes of a client that loses its pcb.
SameStreams(c, d) ==
    /\ d.ok = c.ok /\ d.alloc = c.alloc /\ d.client_closed = c.client_closed
    /\ d.socks_up = c.socks_up /\ d.socks_closed = c.socks_closed
    /\ d.buf = c.buf /\ d.sending = c.sending
    /\ d.rbuf = c.rbuf /\ d.receiving = c.receiving

LEMMA SameStreamsMate ==
    ASSUME NEW c, NEW d \in Client, Mate(c), SameStreams(c, d) PROVE Mate(d)
BY DEF Mate, SameStreams, Open, Streams, Sender

LEMMA client_handle_freed_clientFlow ==
    ASSUME NEW c, Mate(c) PROVE LetGo(client_handle_freed_client(c))
<1> DEFINE d == [ASSERT(c, ~c.client_closed) EXCEPT !.client_closed = TRUE]
           e == IF d.socks_closed THEN d ELSE FreeSocksClient(d)
<1>1. /\ d \in Client /\ d.ok /\ d.alloc /\ d.client_closed
      /\ d.socks_up = c.socks_up /\ d.socks_closed = c.socks_closed
      /\ d.buf = c.buf /\ d.sending = c.sending
      /\ d.rbuf = c.rbuf /\ d.receiving = c.receiving
  BY DEF Mate, Open, ASSERT, Client
<1> HIDE DEF d
<1>2. CASE d.buf # <<>> /\ ~d.socks_closed
  <2>1. Steady(d) /\ ~Open(d)
    BY <1>1, <1>2 DEF Mate, Steady, Streams, Sender, Wakeable, Open
  <2>2. client_handle_freed_client(c) = d
    BY <1>2 DEF client_handle_freed_client, d
  <2> QED
    BY <1>1, <2>1, <2>2 DEF LetGo
<1>3. CASE ~(d.buf # <<>> /\ ~d.socks_closed)
  <2>1. e \in Client /\ e.ok /\ e.alloc /\ e.client_closed /\ e.socks_closed
    BY <1>1 DEF FreeSocksClient, Client
  <2> HIDE DEF e
  <2>2. client_handle_freed_client(c) = client_dealloc(e)
    BY <1>3 DEF client_handle_freed_client, d, e
  <2> QED
    BY <2>1, <2>2, client_deallocFlow
<1> QED
  BY <1>2, <1>3

LEMMA client_free_clientFlow ==
    ASSUME NEW c, Mate(c) PROVE LetGo(client_free_client(c))
<1> DEFINE b == RemoveCallbacks(c)
           d == tcp_close(b)
<1>1. b \in Client /\ SameStreams(c, b)
  BY DEF Mate, RemoveCallbacks, SameStreams, Client
<1> HIDE DEF b
<1>2. d \in Client /\ SameStreams(b, d)
  BY <1>1, tcp_closeType DEF tcp_close, SameStreams, Client
<1> HIDE DEF d
<1>3. Mate(d)
  BY <1>1, <1>2, SameStreamsMate
<1> QED
  BY <1>3, client_handle_freed_clientFlow DEF client_free_client, b, d

LEMMA client_abort_pcbFlow ==
    ASSUME NEW c \in Client, ~c.aborted
    PROVE  LET d == client_abort_pcb(RemoveCallbacks(c))
           IN  d \in Client /\ SameStreams(c, d)
<1> DEFINE d == client_abort_pcb(RemoveCallbacks(c))
<1>1. d \in Client
  BY RemoveCallbacksType, client_abort_pcbType
<1>2. SameStreams(c, d)
  BY DEF client_abort_pcb, RemoveCallbacks, tcp_abort, ASSERT, DeadKill, SameStreams, Client
<1> QED
  BY <1>1, <1>2

LEMMA client_abort_clientFlow ==
    ASSUME NEW c, Mate(c), ~c.aborted PROVE LetGo(client_abort_client(c))
BY client_abort_pcbFlow, SameStreamsMate, client_handle_freed_clientFlow
   DEF client_abort_client, Mate

LEMMA client_murderFlow ==
    ASSUME NEW c \in Client, c.ok, c.alloc, Open(c) => ~c.aborted
    PROVE  LetGo(client_murder(c))
<1> DEFINE b == client_abort_pcb(RemoveCallbacks(c))
           d == IF c.client_closed THEN c ELSE [b EXCEPT !.client_closed = TRUE]
           e == FreeSocksClient(d)
<1>1. CASE c.client_closed
  <2>1. d \in Client /\ d.ok /\ d.alloc /\ d.client_closed
    BY <1>1
  <2> HIDE DEF d
  <2>2. e \in Client /\ e.ok /\ e.alloc /\ e.client_closed /\ e.socks_closed
    BY <2>1 DEF FreeSocksClient, Client
  <2> HIDE DEF e
  <2> QED
    BY <2>2, client_deallocFlow DEF client_murder, d, e
<1>2. CASE ~c.client_closed
  <2>1. b \in Client /\ SameStreams(c, b)
    BY <1>2, client_abort_pcbFlow DEF Open
  <2> HIDE DEF b
  <2>2. d \in Client /\ d.ok /\ d.alloc /\ d.client_closed
    BY <1>2, <2>1 DEF SameStreams, Client
  <2> HIDE DEF d
  <2>3. e \in Client /\ e.ok /\ e.alloc /\ e.client_closed /\ e.socks_closed
    BY <2>2 DEF FreeSocksClient, Client
  <2> HIDE DEF e
  <2> QED
    BY <2>3, client_deallocFlow DEF client_murder, b, d, e
<1> QED
  BY <1>1, <1>2

\* Only these fields matter to the flow; it goes on although SOCKS may be closed.
SameFlow(c, d) ==
    /\ d.alloc = c.alloc /\ d.client_closed = c.client_closed /\ d.socks_up = c.socks_up
    /\ d.rcv_wnd = c.rcv_wnd /\ d.buf = c.buf /\ d.rbuf = c.rbuf /\ d.sndq = c.sndq
    /\ d.pending = c.pending
    /\ "sent" \in d.cb <=> "sent" \in c.cb
    /\ \/ d.socks_closed = c.socks_closed /\ ("recv" \in d.cb <=> "recv" \in c.cb)
       \/ d.socks_closed /\ "recv" \notin d.cb

LEMMA SameFlowFlows ==
    ASSUME NEW c, NEW d, NEW held, NEW acked, NEW nt, Flows(c, held, acked, nt), SameFlow(c, d)
    PROVE  Flows(d, held, acked, nt)
BY DEF Flows, SameFlow, Window, Pending, Upward, Downward

LEMMA client_free_socksFlow ==
    ASSUME NEW c \in Client, c.ok, c.alloc, ~c.socks_closed, Waiter(c)
    PROVE  LET d == client_free_socks(c)
           IN  \/ LetGo(d)
               \/ d \in Client /\ Steady(d) /\ Open(d) /\ SameFlow(c, d)
<1> DEFINE a == ASSERT(c, ~c.socks_closed)
           b == IF a.socks_up /\ ~a.client_closed
                THEN [a EXCEPT !.cb = @ \ {"recv"}] ELSE a
           d == FreeSocksClient(b)
<1>1. a = c
  BY DEF ASSERT, Client
<1>2. /\ b \in Client /\ b.ok /\ b.alloc = c.alloc /\ b.client_closed = c.client_closed
      /\ b.socks_up = c.socks_up /\ b.rcv_wnd = c.rcv_wnd /\ b.buf = c.buf /\ b.rbuf = c.rbuf
      /\ b.sndq = c.sndq /\ b.pending = c.pending /\ b.waiting = c.waiting
      /\ "sent" \in b.cb <=> "sent" \in c.cb
      /\ Open(c) /\ c.socks_up => "recv" \notin b.cb
  BY <1>1 DEF Client, Open
<1> HIDE DEF a, b
<1>3. /\ d \in Client /\ d.ok /\ d.alloc = c.alloc /\ d.client_closed = c.client_closed
      /\ d.socks_up = c.socks_up /\ d.rcv_wnd = c.rcv_wnd /\ d.buf = c.buf /\ d.rbuf = c.rbuf
      /\ d.sndq = c.sndq /\ d.pending = c.pending /\ d.waiting = c.waiting
      /\ d.socks_closed /\ d.sending = 0 /\ ~d.receiving
      /\ "sent" \in d.cb <=> "sent" \in c.cb
      /\ Open(c) /\ c.socks_up => "recv" \notin d.cb
  BY <1>2 DEF FreeSocksClient, Client
<1> HIDE DEF d
<1>4. CASE d.socks_up /\ (d.rbuf # <<>> \/ d.pending > 0) /\ ~d.client_closed
  <2>1. client_free_socks(c) = d
    BY <1>4 DEF client_free_socks, a, b, d
  <2>2. Open(d) /\ SameFlow(c, d)
    BY <1>3, <1>4 DEF Open, SameFlow
  <2>3. Steady(d)
    BY <1>3, <1>4 DEF Steady, Streams, Wakeable, Waiter, Open
  <2> QED
    BY <1>3, <2>1, <2>2, <2>3
<1>5. CASE ~(d.socks_up /\ (d.rbuf # <<>> \/ d.pending > 0) /\ ~d.client_closed)
  <2>1. CASE d.client_closed
    <3>1. client_free_socks(c) = client_dealloc(d)
      BY <1>5, <2>1 DEF client_free_socks, a, b, d
    <3> QED
      BY <1>3, <2>1, <3>1, client_deallocFlow
  <2>2. CASE ~d.client_closed
    <3>1. client_free_socks(c) = client_free_client(d)
      BY <1>5, <2>2 DEF client_free_socks, a, b, d
    <3>2. Mate(d)
      BY <1>3, <2>2 DEF Mate, Open, Streams, Sender
    <3> QED
      BY <3>1, <3>2, client_free_clientFlow
  <2> QED
    BY <2>1, <2>2
<1> QED
  BY <1>4, <1>5

-----------------------------------------------------------------------------
(* The two directions. *)

LEMMA client_send_to_socksFlow ==
    ASSUME NEW c \in Client, c.ok, ~c.socks_closed, c.socks_up, c.buf # <<>>, c.sending = 0
    PROVE  LET d == client_send_to_socks(c)
           IN  /\ d \in Client /\ d.ok /\ d.sending = Len(d.buf) /\ d.sending > 0
               /\ SameFlow(c, d) /\ d.socks_closed = c.socks_closed
               /\ d.receiving = c.receiving /\ d.waiting = c.waiting
<1> DEFINE d == client_send_to_socks(c)
<1>1. d \in Client
  BY client_send_to_socksType
<1>2. /\ d.ok /\ d.sending = Len(c.buf) /\ d.buf = c.buf
      /\ SameFlow(c, d) /\ d.socks_closed = c.socks_closed
      /\ d.receiving = c.receiving /\ d.waiting = c.waiting
  BY DEF client_send_to_socks, ASSERT, SameFlow, Client
<1>3. Len(c.buf) \in Nat /\ Len(c.buf) > 0
  BY DEF Client, Buffer
<1> QED
  BY <1>1, <1>2, <1>3

LEMMA client_socks_recv_initiateFlow ==
    ASSUME NEW c \in Client, c.ok, Open(c), ~c.socks_closed, c.socks_up, c.rbuf = <<>>,
           ~c.receiving
    PROVE  LET d == client_socks_recv_initiate(c)
           IN  /\ d \in Client /\ d.ok /\ d.receiving
               /\ SameFlow(c, d) /\ d.socks_closed = c.socks_closed
               /\ d.sending = c.sending /\ d.waiting = c.waiting
<1> DEFINE d == client_socks_recv_initiate(c)
<1>1. d \in Client
  BY client_socks_recv_initiateType
<1>2. /\ d.ok /\ d.receiving /\ SameFlow(c, d) /\ d.socks_closed = c.socks_closed
      /\ d.sending = c.sending /\ d.waiting = c.waiting
  BY DEF client_socks_recv_initiate, ASSERT, SameFlow, Open, Client
<1> QED
  BY <1>1, <1>2

\* n bytes from the front of the buffer have gone to the server.
LEMMA SentUpward ==
    ASSUME NEW c \in Client, NEW nt \in Net, NEW n \in Nat, n <= Len(c.buf), Upward(c, nt),
           NEW d, d.socks_closed = c.socks_closed, d.cb = c.cb, d.buf = Drop(c.buf, n)
    PROVE  Upward(d, [nt EXCEPT !.srv_got = @ + n])
<1> DEFINE m == [nt EXCEPT !.srv_got = @ + n]
<1>1. m.srv_got = nt.srv_got + n /\ m.app_sent = nt.app_sent /\ nt.srv_got \in Nat
      /\ nt.app_sent \in Nat
  BY DEF Net
<1> HIDE DEF m
<1>2. c.buf \in Seq(Nat) /\ Len(c.buf) \in Nat
  BY DEF Client, Buffer
<1>3. Len(Drop(c.buf, n)) = Len(c.buf) - n /\ Len(d.buf) = Len(c.buf) - n
  BY <1>2 DEF Drop
<1>4. m.srv_got + Len(d.buf) <= m.app_sent
  BY <1>1, <1>2, <1>3 DEF Upward
<1>5. CASE c.socks_closed
  BY <1>4, <1>5 DEF Upward, m
<1>6. CASE ~c.socks_closed
  <2>1. Counts(Drop(c.buf, n), nt.srv_got + n)
    BY <1>1, <1>2, <1>6, DropCounts DEF Upward
  <2>2. m.srv_got + Len(d.buf) = m.app_sent
    <3>1. nt.srv_got + Len(c.buf) = nt.app_sent
      BY <1>6 DEF Upward
    <3> QED
      BY <1>1, <1>2, <1>3, <3>1
  <2>3. Counts(d.buf, m.srv_got)
    BY <1>1, <2>1
  <2> QED
    BY <1>4, <1>6, <2>2, <2>3 DEF Upward, m
<1> QED
  BY <1>5, <1>6

LEMMA LetGoFlow ==
    ASSUME NEW d, LetGo(d), NEW held, NEW acked, NEW nt PROVE Flow(d, held, acked, nt)
BY DEF LetGo, Flow, Open

LEMMA client_socks_send_handler_doneFlow ==
    ASSUME NEW c \in Client, NEW held \in Nat, NEW acked, NEW nt \in Net,
           Flow(c, held, acked, nt), NEW n \in Nat, 0 < n, n <= c.sending
    PROVE  Flow(client_socks_send_handler_done(c, n), held, acked, [nt EXCEPT !.srv_got = @ + n])
<1> DEFINE m == [nt EXCEPT !.srv_got = @ + n]
           k == Drop(c.buf, n)
           a == ASSERT(c, ~c.socks_closed /\ c.socks_up /\ n <= Len(c.buf))
           b == [a EXCEPT !.buf = Drop(@, n), !.sending = 0]
           d == IF b.client_closed THEN b ELSE tcp_recved(b, n)
<1>1. /\ c.ok /\ c.alloc /\ ~c.socks_closed /\ c.socks_up /\ c.sending <= Len(c.buf)
      /\ c.sending \in Nat /\ Len(c.buf) \in Nat /\ n <= Len(c.buf) /\ c.buf \in Seq(Nat)
      /\ c.rcv_wnd \in Int
  BY DEF Flow, Steady, Streams, Client, Buffer
<1>m. m.srv_sent = nt.srv_sent /\ m.app_got = nt.app_got
  BY DEF Net
<1> HIDE DEF m
<1>2. a = c
  BY <1>1 DEF ASSERT, Client
<1>3. k \in Buffer(TcpWnd) /\ Len(k) = Len(c.buf) - n
  BY <1>1, DropBuffer, SizesAreNatural DEF Client, Drop
<1> HIDE DEF a, k
<1>4. /\ b \in Client /\ b.ok /\ b.alloc /\ b.client_closed = c.client_closed /\ b.socks_up
      /\ b.socks_closed = c.socks_closed /\ b.buf = k /\ b.sending = 0 /\ b.rbuf = c.rbuf /\ b.sndq = c.sndq
      /\ b.pending = c.pending /\ b.cb = c.cb /\ b.receiving = c.receiving
      /\ b.waiting = c.waiting /\ b.rcv_wnd = c.rcv_wnd
  BY <1>1, <1>2, <1>3 DEF Client, k
<1> HIDE DEF b
<1>5. /\ d \in Client /\ d.ok /\ d.alloc /\ d.client_closed = c.client_closed /\ d.socks_up
      /\ d.socks_closed = c.socks_closed /\ d.buf = k /\ d.sending = 0 /\ d.rbuf = c.rbuf /\ d.sndq = c.sndq
      /\ d.pending = c.pending /\ d.cb = c.cb /\ d.receiving = c.receiving
      /\ d.waiting = c.waiting
      /\ ~c.client_closed => d.rcv_wnd = Lesser(c.rcv_wnd + n, TcpWnd)
  BY <1>4, tcp_recvedType DEF tcp_recved, Client
<1> HIDE DEF d
<1>6. Open(c) => Flows(d, held, acked, m)
  <2> SUFFICES ASSUME Open(c) PROVE Flows(d, held, acked, m)
    OBVIOUS
  <2>1. Flows(c, held, acked, nt)
    BY DEF Flow
  <2>2. Window(d, held)
    BY <1>1, <1>3, <1>5, <2>1, SizesAreNatural DEF Flows, Window, Lesser, Open
  <2>3. Pending(d, acked)
    BY <1>1, <1>5, <2>1 DEF Flows, Pending
  <2>4. Upward(d, m)
    BY <1>1, <1>5, <2>1, SentUpward DEF Flows, k, m
  <2>5. Downward(d, m)
    BY <1>m, <1>5, <2>1 DEF Flows, Downward
  <2> QED
    BY <2>2, <2>3, <2>4, <2>5 DEF Flows
<1>7. CASE d.buf # <<>>
  <2> DEFINE e == client_send_to_socks(d)
  <2>1. client_socks_send_handler_done(c, n) = e
    BY <1>7 DEF client_socks_send_handler_done, a, b, d
  <2>2. /\ e \in Client /\ e.ok /\ e.sending = Len(e.buf) /\ e.sending > 0
        /\ SameFlow(d, e) /\ e.socks_closed = d.socks_closed
        /\ e.receiving = d.receiving /\ e.waiting = d.waiting
    BY <1>1, <1>5, <1>7, client_send_to_socksFlow
  <2> HIDE DEF e
  <2>3. Steady(e)
    BY <1>1, <1>5, <1>7, <2>2 DEF Flow, Steady, Streams, Wakeable, SameFlow, Open
  <2>4. Open(e) => Flows(e, held, acked, m)
    BY <1>1, <1>5, <1>6, <2>2, SameFlowFlows DEF SameFlow, Open
  <2> QED
    BY <2>1, <2>3, <2>4 DEF Flow, m
<1>8. CASE d.buf = <<>> /\ d.client_closed
  <2>1. client_socks_send_handler_done(c, n) = client_free_socks(d)
    BY <1>8 DEF client_socks_send_handler_done, a, b, d
  <2>2. ~Open(d)
    BY <1>8 DEF Open
  <2>3. LetGo(client_free_socks(d))
    BY <1>1, <1>5, <2>2, client_free_socksFlow DEF Waiter, SameFlow, Open
  <2> QED
    BY <2>1, <2>3, LetGoFlow DEF m
<1>9. CASE d.buf = <<>> /\ ~d.client_closed
  <2>1. client_socks_send_handler_done(c, n) = d
    BY <1>9 DEF client_socks_send_handler_done, a, b, d
  <2>2. Steady(d)
    BY <1>1, <1>5, <1>9 DEF Flow, Steady, Streams, Wakeable, Open
  <2>3. Open(d) => Flows(d, held, acked, m)
    BY <1>1, <1>5, <1>6 DEF Open
  <2> QED
    BY <2>1, <2>2, <2>3 DEF Flow, m
<1> QED
  BY <1>7, <1>8, <1>9

\* What client_socks_recv_send_out() keeps if it does not let the client go.
SameButMoved(c, d) ==
    /\ d \in Client /\ d.ok /\ Open(d) /\ d.socks_up /\ d.socks_closed = c.socks_closed
    /\ d.rcv_wnd = c.rcv_wnd /\ d.buf = c.buf /\ d.cb = c.cb
    /\ d.sending = c.sending /\ d.receiving = c.receiving
    /\ d.pending - Len(d.sndq) = c.pending - Len(c.sndq)
    /\ d.pending > 0
    /\ d.rbuf # <<>> => d.waiting

\* n bytes from the front of socks_recv_buf go to the end of lwIP's send queue.
Moved(c, e, n) == e.sndq = c.sndq \o SubSeq(c.rbuf, 1, n) /\ e.rbuf = Drop(c.rbuf, n)

LEMMA MovedDownward ==
    ASSUME NEW c \in Client, NEW nt \in Net, Downward(c, nt), NEW n \in Nat, n <= Len(c.rbuf),
           NEW e \in Client, Moved(c, e, n)
    PROVE  /\ Downward(e, nt)
           /\ Len(e.sndq) = Len(c.sndq) + n /\ Len(e.rbuf) = Len(c.rbuf) - n
<1> DEFINE from == nt.app_got
           q == c.sndq
           r == c.rbuf
<1>1. /\ from \in Nat /\ q \in Seq(Nat) /\ r \in Seq(Nat) /\ n <= Len(r)
      /\ Len(q) \in Nat /\ Len(r) \in Nat /\ nt.srv_sent \in Nat
      /\ Len(e.sndq) \in Nat /\ Len(e.rbuf) \in Nat
  BY DEF Net, Client, Buffer
<1>2. /\ Counts(q, from) /\ Counts(r, from + Len(q)) /\ from + Len(q) + Len(r) = nt.srv_sent
  BY DEF Downward
<1>3. e.sndq = q \o SubSeq(r, 1, n) /\ e.rbuf = Drop(r, n)
  BY DEF Moved
<1> HIDE DEF from, q, r
<1>4. /\ Len(q \o SubSeq(r, 1, n)) = Len(q) + n /\ Counts(q \o SubSeq(r, 1, n), from)
      /\ Len(Drop(r, n)) = Len(r) - n /\ Counts(Drop(r, n), from + Len(q) + n)
  BY <1>1, <1>2, MoveCounts
<1>5. Len(e.sndq) = Len(q) + n /\ Len(e.rbuf) = Len(r) - n
  BY <1>3, <1>4
<1>6. from + Len(e.sndq) = from + Len(q) + n
  BY <1>1, <1>5
<1>7. Counts(e.sndq, from) /\ Counts(e.rbuf, from + Len(e.sndq))
  BY <1>3, <1>4, <1>6
<1>8. from + Len(e.sndq) + Len(e.rbuf) = nt.srv_sent
  BY <1>1, <1>2, <1>5
<1> QED
  BY <1>5, <1>7, <1>8 DEF Downward, from, q, r

LEMMA client_socks_recv_send_outFlow ==
    ASSUME NEW c, Mate(c), ~c.aborted, c.pcb \in {"ESTABLISHED", "CLOSE_WAIT"},
           c.socks_up, ~c.waiting, c.rbuf # <<>>, ~c.receiving, c.pending >= Len(c.sndq),
           NEW nt \in Net, Downward(c, nt), NEW oom \in BOOLEAN, NEW fail \in BOOLEAN
    PROVE  LET d == client_socks_recv_send_out(c, oom, fail)
           IN  LetGo(d) \/ (SameButMoved(c, d) /\ Downward(d, nt))
<1> DEFINE a == ASSERT(c, /\ ~c.client_closed /\ c.socks_up /\ ~c.waiting
                          /\ c.rbuf # <<>>)
           n == Lesser(Len(a.rbuf), SndBuf - Len(a.sndq))
           e == [a EXCEPT !.sndq = @ \o SubSeq(a.rbuf, 1, n),
                          !.rbuf = Drop(@, n), !.pending = @ + n]
           d == IF n = 0 \/ oom THEN a ELSE e
           w == [d EXCEPT !.waiting = TRUE]
<1>1. c \in Client /\ c.ok /\ c.alloc /\ ~c.client_closed
  BY DEF Mate, Open
<1>2. a = c
  BY <1>1 DEF ASSERT, Client
<1> HIDE DEF a
<1>3. /\ c.rbuf \in Seq(Nat) /\ Len(c.rbuf) \in Nat /\ Len(c.rbuf) > 0
      /\ c.sndq \in Seq(Nat) /\ Len(c.sndq) \in Nat /\ SndBuf - Len(c.sndq) \in Nat
      /\ c.pending \in Int /\ nt.app_got \in Nat /\ nt.srv_sent \in Nat
  BY <1>1, SizesAreNatural DEF Client, Buffer, Net
<1>4. n \in Nat /\ n <= Len(c.rbuf) /\ n <= SndBuf - Len(c.sndq)
  BY <1>2, <1>3, LesserIsNatural
<1> HIDE DEF n
<1>6. /\ e \in Client /\ Moved(c, e, n) /\ e.pending = c.pending + n
      /\ e.ok /\ e.alloc /\ ~e.client_closed /\ e.socks_up /\ e.socks_closed = c.socks_closed
      /\ e.rcv_wnd = c.rcv_wnd /\ e.buf = c.buf /\ e.cb = c.cb
      /\ e.sending = c.sending /\ e.receiving = c.receiving /\ e.aborted = c.aborted
  <2>1. e \in Client
    BY <1>1, <1>2, <1>3, <1>4, WrittenType
  <2>2. Moved(c, e, n) /\ e.pending = c.pending + n
    BY <1>1, <1>2 DEF Moved, Client
  <2>3. /\ e.ok = c.ok /\ e.alloc = c.alloc /\ e.client_closed = c.client_closed
        /\ e.socks_up = c.socks_up /\ e.socks_closed = c.socks_closed
        /\ e.rcv_wnd = c.rcv_wnd /\ e.buf = c.buf /\ e.cb = c.cb
        /\ e.sending = c.sending /\ e.receiving = c.receiving /\ e.aborted = c.aborted
    BY <1>1, <1>2 DEF Client
  <2> QED
    BY <1>1, <2>1, <2>2, <2>3
<1> HIDE DEF e
<1>7. Downward(e, nt) /\ Len(e.sndq) = Len(c.sndq) + n /\ Len(e.rbuf) = Len(c.rbuf) - n
  BY <1>1, <1>4, <1>6, MovedDownward
<1>8. /\ d \in Client
      /\ d.ok /\ d.alloc /\ ~d.client_closed /\ d.socks_up /\ d.socks_closed = c.socks_closed
      /\ d.rcv_wnd = c.rcv_wnd /\ d.buf = c.buf /\ d.cb = c.cb
      /\ d.sending = c.sending /\ d.receiving = c.receiving /\ d.aborted = c.aborted
      /\ d.pending \in Nat /\ d.pending - Len(d.sndq) = c.pending - Len(c.sndq)
      /\ d.rbuf = <<>> => d.pending > 0
      /\ Downward(d, nt)
  <2>1. CASE n = 0 \/ oom
    BY <1>1, <1>2, <1>3, <2>1
  <2>2. CASE ~(n = 0 \/ oom)
    BY <1>3, <1>4, <1>6, <1>7, <2>2
  <2> QED
    BY <2>1, <2>2
<1> HIDE DEF d
<1>9. Mate(d)
  BY <1>8 DEF Mate, Open, Streams, Sender
<1>10. LetGo(client_abort_client(a)) /\ LetGo(client_abort_client(d))
  BY <1>2, <1>8, <1>9, client_abort_clientFlow
<1>11. /\ w \in Client /\ w.ok /\ Open(w) /\ w.socks_up /\ w.socks_closed = c.socks_closed
       /\ w.rcv_wnd = c.rcv_wnd /\ w.buf = c.buf /\ w.cb = c.cb
       /\ w.sending = c.sending /\ w.receiving = c.receiving
       /\ w.pending = d.pending /\ w.sndq = d.sndq /\ w.rbuf = d.rbuf /\ w.waiting
  BY <1>8 DEF Client, Open
<1> HIDE DEF w
<1>12. Downward(w, nt)
  BY <1>8, <1>11 DEF Downward
<1>13. \/ client_socks_recv_send_out(c, oom, fail) \in
              {client_abort_client(a), client_abort_client(d)}
       \/ client_socks_recv_send_out(c, oom, fail) = d /\ d.rbuf = <<>>
       \/ client_socks_recv_send_out(c, oom, fail) = w /\ d.pending # 0
  BY DEF client_socks_recv_send_out, a, n, d, e, w
<1>14. d.rbuf = <<>> => SameButMoved(c, d)
  BY <1>8 DEF SameButMoved, Open
<1>15. d.pending # 0 => SameButMoved(c, w)
  BY <1>8, <1>11 DEF SameButMoved
<1> QED
  BY <1>8, <1>10, <1>12, <1>13, <1>14, <1>15

\* What the flow needs of the pcb, which belongs to the relay while the client is open.
Own(c) == Open(c) => ~c.aborted /\ c.pcb \in {"ESTABLISHED", "CLOSE_WAIT"}

LEMMA OwnedIsOwn == ASSUME NEW c \in Client, Owned(c) PROVE Own(c)
BY DEF Owned, Core, Own, Open

LEMMA client_socks_recv_handler_doneFlow ==
    ASSUME NEW c \in Client, Own(c), NEW held, NEW acked \in Nat, NEW nt \in Net,
           Flow(c, held, acked, nt), c.receiving, NEW n \in 1..SocksRecvBuf,
           NEW oom \in BOOLEAN, NEW fail \in BOOLEAN
    PROVE  Flow(client_socks_recv_handler_done(c, Bytes(nt.srv_sent, n), oom, fail),
                held, acked, [nt EXCEPT !.srv_sent = @ + n])
<1> DEFINE m == [nt EXCEPT !.srv_sent = @ + n]
           data == Bytes(nt.srv_sent, n)
           a == [ASSERT(c, ~c.socks_closed /\ c.socks_up /\ c.rbuf = <<>>)
                   EXCEPT !.receiving = FALSE]
           b == [a EXCEPT !.rbuf = data, !.waiting = FALSE]
           d == client_socks_recv_send_out(b, oom, fail)
           result == client_socks_recv_handler_done(c, data, oom, fail)
<1>1. /\ c.ok /\ c.alloc /\ ~c.socks_closed /\ c.socks_up /\ c.rbuf = <<>>
      /\ Streams(c) /\ Wakeable(c)
  BY DEF Flow, Steady, Streams
<1>2. /\ m \in Net /\ m.srv_sent = nt.srv_sent + n /\ m.app_got = nt.app_got
      /\ m.srv_got = nt.srv_got /\ m.app_sent = nt.app_sent
      /\ nt.app_got \in Nat /\ nt.srv_sent \in Nat /\ n \in Nat /\ n > 0
  BY SizesAreNatural DEF Net
<1> HIDE DEF m
<1>3. /\ data \in Buffer(SocksRecvBuf) /\ data \in Seq(Nat) /\ Len(data) = n
      /\ Counts(data, nt.srv_sent)
  <2>1. data \in Seq(Nat) /\ Len(data) = n /\ Counts(data, nt.srv_sent)
    BY <1>2, BytesCount
  <2> HIDE DEF data
  <2>2. n <= SocksRecvBuf
    BY SizesAreNatural
  <2> QED
    BY <2>1, <2>2 DEF Buffer
<1> HIDE DEF data
<1>4. /\ a \in Client /\ a.ok /\ a.alloc /\ a.client_closed = c.client_closed
      /\ a.socks_up /\ ~a.socks_closed /\ a.buf = c.buf /\ a.rbuf = <<>>
      /\ a.sndq = c.sndq /\ a.sending = c.sending /\ ~a.receiving
  BY <1>1 DEF ASSERT, Client
<1>5. /\ b \in Client /\ b.ok /\ b.alloc /\ b.client_closed = c.client_closed
      /\ b.socks_up /\ ~b.socks_closed /\ b.buf = c.buf /\ b.rbuf = data /\ ~b.waiting
      /\ b.sndq = c.sndq /\ b.sending = c.sending /\ ~b.receiving
      /\ b.pending = c.pending /\ b.cb = c.cb /\ b.rcv_wnd = c.rcv_wnd
      /\ b.aborted = c.aborted /\ b.pcb = c.pcb
  BY <1>1, <1>3 DEF ASSERT, Client
<1>6. /\ a.client_closed => result = a
      /\ ~a.client_closed /\ (d.client_closed \/ d.rbuf # <<>>) => result = d
      /\ ~a.client_closed /\ ~d.client_closed /\ d.rbuf = <<>>
           => result = client_socks_recv_initiate(d)
  BY DEF client_socks_recv_handler_done, a, b, d
<1> HIDE DEF a, b, d, result
<1>7. CASE c.client_closed
  <2>1. LetGo(a)
    BY <1>1, <1>4, <1>7 DEF LetGo, Steady, Streams, Wakeable, Open
  <2> QED
    BY <1>4, <1>6, <1>7, <2>1, LetGoFlow DEF m, data, result
<1>8. CASE ~c.client_closed
  <2>1. Flows(c, held, acked, nt) /\ Open(c)
    BY <1>1, <1>8 DEF Flow, Open
  <2>2. Mate(b)
    BY <1>1, <1>5, <1>8 DEF Mate, Open, Streams, Sender, Wakeable
  <2>3. ~b.aborted /\ b.pcb \in {"ESTABLISHED", "CLOSE_WAIT"}
    BY <1>5, <2>1 DEF Own
  <2>4. c.sndq \in Seq(Nat) /\ Len(c.sndq) \in Nat /\ Len(c.rbuf) = 0
    BY <1>1 DEF Client, Buffer
  <2>5. b.pending >= Len(b.sndq)
    BY <1>1, <1>5, <2>1, <2>4 DEF Flows, Pending
  <2>6. nt.app_got + Len(c.sndq) = nt.srv_sent /\ Counts(c.sndq, nt.app_got)
    BY <1>2, <2>1, <2>4 DEF Flows, Downward
  <2>7. Downward(b, m)
    BY <1>2, <1>3, <1>5, <2>4, <2>6 DEF Downward
  <2>8. b.rbuf # <<>>
    BY <1>2, <1>3, <1>5
  <2>9. LetGo(d) \/ (SameButMoved(b, d) /\ Downward(d, m))
    BY <1>2, <1>5, <2>2, <2>3, <2>5, <2>7, <2>8, client_socks_recv_send_outFlow DEF d
  <2>10. CASE LetGo(d)
    BY <1>4, <1>6, <1>8, <2>10, LetGoFlow DEF LetGo, m, data, result
  <2>11. CASE SameButMoved(b, d) /\ Downward(d, m)
    <3>1. Window(d, held)
      BY <1>5, <2>1, <2>11 DEF Flows, Window, SameButMoved
    <3>2. Pending(d, acked)
      <4>1. Len(d.sndq) \in Nat /\ d.pending \in Int /\ c.pending \in Int
        BY <2>11 DEF SameButMoved, Client, Buffer
      <4>2. d.pending - Len(d.sndq) = c.pending - Len(c.sndq) /\ d.socks_up /\ d.cb = c.cb
        BY <1>5, <2>11 DEF SameButMoved
      <4>3. c.pending = Len(c.sndq) + acked /\ "sent" \in c.cb
        BY <1>1, <2>1 DEF Flows, Pending
      <4> QED
        BY <2>4, <4>1, <4>2, <4>3 DEF Pending
    <3>3. Upward(d, m)
      BY <1>1, <1>2, <1>5, <2>1, <2>11 DEF Flows, Upward, SameButMoved
    <3>4. Flows(d, held, acked, m)
      BY <2>11, <3>1, <3>2, <3>3 DEF Flows
    <3>5. CASE d.rbuf # <<>>
      <4>1. Steady(d)
        BY <1>1, <1>5, <2>11, <3>5 DEF Steady, Streams, Wakeable, SameButMoved, Open
      <4> QED
        BY <1>4, <1>6, <1>8, <2>11, <3>4, <3>5, <4>1 DEF Flow, SameButMoved, m, data, result
    <3>6. CASE d.rbuf = <<>>
      <4> DEFINE e == client_socks_recv_initiate(d)
      <4>1. /\ e \in Client /\ e.ok /\ e.receiving
            /\ SameFlow(d, e) /\ e.socks_closed = d.socks_closed
            /\ e.sending = d.sending /\ e.waiting = d.waiting
        BY <1>5, <2>11, <3>6, client_socks_recv_initiateFlow DEF SameButMoved
      <4>2. result = e
        BY <1>4, <1>6, <1>8, <2>11, <3>6 DEF SameButMoved, Open
      <4> HIDE DEF e
      <4>3. Steady(e)
        BY <1>1, <1>5, <2>11, <3>6, <4>1
           DEF Steady, Streams, Wakeable, SameButMoved, SameFlow, Open
      <4>4. Flows(e, held, acked, m)
        BY <3>4, <4>1, SameFlowFlows
      <4> QED
        BY <4>2, <4>3, <4>4 DEF Flow, m, data, result
    <3> QED
      BY <3>5, <3>6
  <2> QED
    BY <2>9, <2>10, <2>11
<1> QED
  BY <1>7, <1>8

LEMMA SocksUpEventFlow ==
    ASSUME NEW c \in Client, c.alloc, ~c.socks_closed, ~c.socks_up,
           NEW held, NEW acked \in Nat, NEW nt \in Net, Flow(c, held, acked, nt)
    PROVE  Flow(SocksUpEvent(c), held, acked, nt)
<1> DEFINE b == ASSERT(c, ~c.socks_up /\ ~c.socks_closed)
           a == [b EXCEPT !.socks_up = TRUE, !.rbuf = <<>>, !.pending = 0,
                          !.cb = IF c.client_closed THEN @ ELSE @ \cup {"sent"}]
           d == IF a.buf # <<>> THEN client_send_to_socks(a) ELSE a
           e == client_socks_recv_initiate(d)
           result == SocksUpEvent(c)
<1>1. c.ok /\ c.sending = 0 /\ ~c.receiving /\ Wakeable(c)
  BY DEF Flow, Steady, Streams, Client
<1>2. b = c
  BY <1>1 DEF ASSERT, Client
<1> HIDE DEF b
<1>3. a \in Client
  BY <1>2, UpType
<1>4. /\ a.ok /\ a.alloc /\ a.client_closed = c.client_closed /\ a.socks_up /\ ~a.socks_closed
      /\ a.rcv_wnd = c.rcv_wnd /\ a.buf = c.buf /\ a.rbuf = <<>> /\ a.sndq = c.sndq
      /\ a.pending = 0 /\ a.sending = 0 /\ ~a.receiving
      /\ ~c.client_closed => "sent" \in a.cb
      /\ "recv" \in a.cb <=> "recv" \in c.cb
  BY <1>1, <1>2 DEF Client
<1> HIDE DEF a
<1>5. Open(c) => Flows(a, held, acked, nt)
  BY <1>4 DEF Flow, Flows, Window, Pending, Upward, Downward, Open
<1>6. /\ d \in Client /\ d.ok /\ SameFlow(a, d) /\ ~d.socks_closed /\ ~d.receiving
      /\ d.sending > 0 <=> d.buf # <<>>
      /\ d.sending <= Len(d.buf)
  <2>1. CASE a.buf # <<>>
    <3>1. d = client_send_to_socks(a)
      BY <2>1
    <3> HIDE DEF d
    <3>2. /\ d \in Client /\ d.ok /\ d.sending = Len(d.buf) /\ d.sending > 0
          /\ SameFlow(a, d) /\ d.socks_closed = a.socks_closed
          /\ d.receiving = a.receiving
      BY <1>3, <1>4, <2>1, <3>1, client_send_to_socksFlow
    <3>3. Len(d.buf) \in Nat /\ d.buf # <<>>
      BY <2>1, <3>2 DEF SameFlow, Client, Buffer
    <3> QED
      BY <1>4, <3>2, <3>3
  <2>2. CASE a.buf = <<>>
    <3>1. d = a
      BY <2>2
    <3> HIDE DEF d
    <3>2. SameFlow(a, d)
      BY <3>1 DEF SameFlow
    <3>3. d.buf = <<>> /\ d.sending = 0 /\ Len(d.buf) = 0
      BY <1>4, <2>2, <3>1
    <3> QED
      BY <1>3, <1>4, <3>1, <3>2, <3>3
  <2> QED
    BY <2>1, <2>2
<1>7. result = IF d.client_closed THEN d ELSE e
  BY DEF SocksUpEvent, a, b
<1> HIDE DEF d, result
<1>8. CASE c.client_closed
  <2>1. LetGo(d)
    BY <1>1, <1>4, <1>6, <1>8 DEF LetGo, Steady, Streams, Wakeable, SameFlow, Open
  <2> QED
    BY <1>7, <2>1, LetGoFlow DEF LetGo, result
<1>9. CASE ~c.client_closed
  <2>1. /\ e \in Client /\ e.ok /\ e.receiving
        /\ SameFlow(d, e) /\ e.socks_closed = d.socks_closed
        /\ e.sending = d.sending /\ e.waiting = d.waiting
    BY <1>4, <1>6, <1>9, client_socks_recv_initiateFlow DEF SameFlow, Open
  <2>2. result = e
    BY <1>4, <1>6, <1>7, <1>9 DEF SameFlow
  <2> HIDE DEF e
  <2>3. Steady(e)
    BY <1>4, <1>6, <1>9, <2>1 DEF Steady, Streams, Wakeable, SameFlow, Open
  <2>4. Flows(e, held, acked, nt)
    BY <1>5, <1>6, <1>9, <2>1, SameFlowFlows DEF Open
  <2> QED
    BY <2>2, <2>3, <2>4 DEF Flow, result
<1> QED
  BY <1>8, <1>9

LEMMA client_sent_funcFlow ==
    ASSUME NEW c \in Client, Own(c), Open(c), NEW held, NEW len \in Nat, len > 0,
           NEW nt \in Net, Flow(c, held, len, nt), NEW oom \in BOOLEAN
    PROVE  Flow(client_sent_func(c, len, oom), held, 0, nt)
<1> DEFINE f == [c EXCEPT !.pending = @ - len]
           a == ASSERT(f, ~c.client_closed /\ c.socks_up /\ len <= c.pending)
           e == [ASSERT(a, a.waiting) EXCEPT !.waiting = FALSE]
           b == client_socks_recv_send_out(e, oom, FALSE)
           d == IF b.client_closed THEN b ELSE ASSERT(b, b.pending > 0)
           result == client_sent_func(c, len, oom)
<1>1. /\ c.ok /\ c.alloc /\ ~c.client_closed /\ Streams(c) /\ Wakeable(c)
      /\ Flows(c, held, len, nt) /\ ~c.aborted /\ c.pcb \in {"ESTABLISHED", "CLOSE_WAIT"}
  BY DEF Flow, Steady, Open, Own
<1>2. /\ c.socks_up /\ "sent" \in c.cb /\ len <= c.pending
      /\ c.pending - len = Len(c.sndq) /\ Len(c.sndq) \in Nat /\ c.pending \in Int
  BY <1>1 DEF Flows, Pending, Client, Buffer
<1>3. /\ f \in Client
      /\ f.ok = c.ok /\ f.alloc = c.alloc /\ f.client_closed = c.client_closed
      /\ f.socks_up = c.socks_up /\ f.socks_closed = c.socks_closed
      /\ f.rcv_wnd = c.rcv_wnd /\ f.buf = c.buf /\ f.rbuf = c.rbuf /\ f.sndq = c.sndq
      /\ f.sending = c.sending /\ f.receiving = c.receiving /\ f.waiting = c.waiting
      /\ f.cb = c.cb /\ f.aborted = c.aborted /\ f.pcb = c.pcb
      /\ f.pending = Len(c.sndq)
  <2> DEFINE p == c.pending - len
  <2>1. p = Len(c.sndq) /\ p \in Int
    BY <1>2
  <2> HIDE DEF p
  <2> DEFINE g == [c EXCEPT !.pending = p]
  <2>2. f = g
    BY DEF p
  <2> HIDE DEF f
  <2>3. g \in Client
    BY <2>1 DEF Client
  <2>4. /\ g.ok = c.ok /\ g.alloc = c.alloc /\ g.client_closed = c.client_closed
        /\ g.socks_up = c.socks_up /\ g.socks_closed = c.socks_closed
        /\ g.rcv_wnd = c.rcv_wnd /\ g.buf = c.buf /\ g.rbuf = c.rbuf /\ g.sndq = c.sndq
        /\ g.sending = c.sending /\ g.receiving = c.receiving /\ g.waiting = c.waiting
        /\ g.cb = c.cb /\ g.aborted = c.aborted /\ g.pcb = c.pcb
        /\ g.pending = p
    BY DEF Client
  <2> QED
    BY <2>1, <2>2, <2>3, <2>4
<1> HIDE DEF f
<1>4. a = f
  BY <1>1, <1>2, <1>3 DEF ASSERT, Client
<1>6. result = IF a.rbuf # <<>>
               THEN IF d.client_closed \/ d.socks_closed \/ d.rbuf # <<>> THEN d
                    ELSE client_socks_recv_initiate(d)
               ELSE IF a.socks_closed /\ a.pending = 0 THEN client_free_client(a) ELSE a
  BY DEF client_sent_func, f, a, e, b, d
<1> HIDE DEF a
<1>5. /\ a \in Client
      /\ a.ok /\ a.alloc /\ ~a.client_closed /\ a.socks_up /\ a.socks_closed = c.socks_closed
      /\ a.rcv_wnd = c.rcv_wnd /\ a.buf = c.buf /\ a.rbuf = c.rbuf /\ a.sndq = c.sndq
      /\ a.sending = c.sending /\ a.receiving = c.receiving /\ a.waiting = c.waiting
      /\ a.cb = c.cb /\ ~a.aborted /\ a.pcb = c.pcb
      /\ a.pending = Len(c.sndq)
  BY <1>1, <1>2, <1>3, <1>4
<1>7. Flows(a, held, 0, nt) /\ Downward(a, nt)
  BY <1>1, <1>2, <1>5 DEF Flows, Window, Pending, Upward, Downward
<1>8. Mate(a)
  BY <1>1, <1>2, <1>5 DEF Mate, Open, Streams, Sender, Wakeable
<1>9. CASE a.rbuf = <<>> /\ a.socks_closed /\ a.pending = 0
  BY <1>6, <1>8, <1>9, client_free_clientFlow, LetGoFlow DEF result
<1>10. CASE a.rbuf = <<>> /\ ~(a.socks_closed /\ a.pending = 0)
  <2>1. Steady(a)
    BY <1>1, <1>2, <1>5, <1>8, <1>10 DEF Steady, Mate, Wakeable, Open
  <2> QED
    BY <1>6, <1>7, <1>10, <2>1 DEF Flow, result
<1>11. CASE a.rbuf # <<>>
  <2>1. a.waiting /\ ~a.receiving
    BY <1>1, <1>2, <1>5, <1>11 DEF Wakeable, Open, Streams
  <2>2. /\ e \in Client /\ e.ok /\ e.alloc /\ ~e.client_closed
        /\ e.socks_up /\ e.socks_closed = c.socks_closed
        /\ e.rcv_wnd = c.rcv_wnd /\ e.buf = c.buf /\ e.rbuf = a.rbuf /\ e.sndq = c.sndq
        /\ e.sending = c.sending /\ ~e.receiving /\ ~e.waiting
        /\ e.cb = c.cb /\ ~e.aborted /\ e.pcb = c.pcb /\ e.pending = Len(c.sndq)
    BY <1>5, <2>1 DEF ASSERT, Client
  <2> HIDE DEF e
  <2> HIDE DEF b
  <2>3. Mate(e)
    BY <1>1, <1>2, <2>2 DEF Mate, Open, Streams, Sender, Wakeable
  <2>4. Downward(e, nt)
    BY <1>5, <1>7, <2>2 DEF Downward
  <2>5. LetGo(b) \/ (SameButMoved(e, b) /\ Downward(b, nt))
    <3>1. /\ ~e.aborted /\ e.pcb \in {"ESTABLISHED", "CLOSE_WAIT"} /\ e.socks_up /\ ~e.waiting
          /\ e.rbuf # <<>> /\ ~e.receiving
      BY <1>1, <1>11, <2>2
    <3>2. e.pending >= Len(e.sndq)
      BY <1>2, <2>2
    <3> QED
      BY <2>3, <2>4, <3>1, <3>2, client_socks_recv_send_outFlow DEF b
  <2>6. CASE LetGo(b)
    <3>1. d = b /\ result = b
      BY <1>6, <1>11, <2>6 DEF LetGo
    <3> QED
      BY <2>6, <3>1, LetGoFlow DEF result
  <2>7. CASE SameButMoved(e, b) /\ Downward(b, nt)
    <3>1. d = b
      BY <2>7 DEF SameButMoved, Open, ASSERT, Client
    <3> HIDE DEF d
    <3>2. Pending(b, 0)
      <4>1. Len(b.sndq) \in Nat /\ b.pending \in Int
        BY <2>7 DEF SameButMoved, Client, Buffer
      <4>2. b.pending - Len(b.sndq) = 0 /\ b.socks_up /\ b.cb = c.cb
        BY <1>2, <2>2, <2>7 DEF SameButMoved
      <4> QED
        BY <1>2, <4>1, <4>2 DEF Pending
    <3>3. Flows(b, held, 0, nt)
      BY <1>1, <2>2, <2>7, <3>2 DEF Flows, Window, Upward, SameButMoved
    <3>4. CASE b.socks_closed \/ b.rbuf # <<>>
      <4>1. Steady(b)
        BY <1>1, <1>2, <2>2, <2>7, <3>4 DEF Steady, Streams, Wakeable, SameButMoved, Open
      <4> QED
        BY <1>6, <1>11, <3>1, <3>3, <3>4, <4>1 DEF Flow, result
    <3>5. CASE ~b.socks_closed /\ b.rbuf = <<>>
      <4> DEFINE g == client_socks_recv_initiate(b)
      <4>1. /\ g \in Client /\ g.ok /\ g.receiving
            /\ SameFlow(b, g) /\ g.socks_closed = b.socks_closed
            /\ g.sending = b.sending /\ g.waiting = b.waiting
        BY <2>2, <2>7, <3>5, client_socks_recv_initiateFlow DEF SameButMoved
      <4>2. result = g
        BY <1>6, <1>11, <2>7, <3>1, <3>5 DEF SameButMoved, Open
      <4> HIDE DEF g
      <4>3. Steady(g)
        BY <1>1, <1>2, <2>2, <2>7, <3>5, <4>1
           DEF Steady, Streams, Wakeable, SameButMoved, SameFlow, Open
      <4>4. Flows(g, held, 0, nt)
        BY <3>3, <4>1, SameFlowFlows
      <4> QED
        BY <4>2, <4>3, <4>4 DEF Flow, result
    <3> QED
      BY <3>4, <3>5
  <2> QED
    BY <2>5, <2>6, <2>7
<1> QED
  BY <1>9, <1>10, <1>11

\* The buffer of client c and what was received are put together in d.
Appended(c, d, data) == d.buf = c.buf \o data

LEMMA AppendedUpward ==
    ASSUME NEW c \in Client, NEW nt \in Net, Upward(c, nt), ~c.socks_closed,
           NEW n \in Nat, NEW data \in Seq(Nat), Len(data) = n, Counts(data, nt.app_sent),
           NEW d, Appended(c, d, data), d.cb = c.cb, ~d.socks_closed
    PROVE  /\ Len(d.buf) = Len(c.buf) + n
           /\ Upward(d, [nt EXCEPT !.app_sent = @ + n])
<1> DEFINE m == [nt EXCEPT !.app_sent = @ + n]
           b == c.buf
<1>1. m.srv_got = nt.srv_got /\ m.app_sent = nt.app_sent + n /\ nt.srv_got \in Nat
      /\ nt.app_sent \in Nat
  BY DEF Net
<1> HIDE DEF m
<1>2. b \in Seq(Nat) /\ Len(b) \in Nat
  BY DEF Client, Buffer
<1>3. nt.srv_got + Len(b) = nt.app_sent /\ Counts(b, nt.srv_got) /\ "recv" \in c.cb
  BY DEF Upward
<1>4. d.buf = b \o data
  BY DEF Appended
<1> HIDE DEF b
<1>5. Len(b \o data) = Len(b) + n /\ Counts(b \o data, nt.srv_got)
  BY <1>1, <1>2, <1>3, AppendCounts
<1>6. Len(d.buf) = Len(b) + n /\ Counts(d.buf, nt.srv_got)
  BY <1>4, <1>5
<1>7. m.srv_got + Len(d.buf) = m.app_sent
  BY <1>1, <1>2, <1>3, <1>6
<1>8. m.srv_got + Len(d.buf) <= m.app_sent
  BY <1>1, <1>7
<1> QED
  BY <1>1, <1>3, <1>6, <1>7, <1>8 DEF Upward, b, m

LEMMA client_recv_funcFlow ==
    ASSUME NEW c \in Client, Open(c), "recv" \in c.cb, NEW held \in Nat, NEW acked,
           NEW nt \in Net, Flow(c, held, acked, nt), NEW n \in Nat, n > 0, n <= held
    PROVE  Flow(client_recv_func(c, Bytes(nt.app_sent, n)), held - n, acked,
                [nt EXCEPT !.app_sent = @ + n])
<1> DEFINE m == [nt EXCEPT !.app_sent = @ + n]
           data == Bytes(nt.app_sent, n)
           a == ASSERT(c, ~c.client_closed)
           d == [a EXCEPT !.buf = @ \o data]
           e == client_send_to_socks(d)
           result == client_recv_func(c, data)
<1>1. /\ c.ok /\ c.alloc /\ ~c.client_closed /\ Streams(c) /\ Wakeable(c)
      /\ Flows(c, held, acked, nt) /\ ~c.socks_closed
  BY DEF Flow, Flows, Upward, Steady, Open
<1>2. /\ c.rcv_wnd \in Int /\ c.rcv_wnd >= 0 /\ c.rcv_wnd + Len(c.buf) + held = TcpWnd
      /\ c.buf \in Buffer(TcpWnd) /\ Len(c.buf) \in Nat /\ TcpWnd \in Nat
  BY <1>1, SizesAreNatural DEF Flows, Window, Client, Buffer
<1>3. data \in Seq(Nat) /\ Len(data) = n /\ Counts(data, nt.app_sent)
  <2>1. nt.app_sent \in Nat
    BY DEF Net
  <2> QED
    BY <2>1, BytesCount
<1>4. m.srv_sent = nt.srv_sent /\ m.app_got = nt.app_got
  BY DEF Net
<1> HIDE DEF data, m
<1>5. a = c
  BY <1>1 DEF ASSERT, Client
<1>6. result = IF c.buf = <<>> /\ d.socks_up THEN e ELSE d
  <2>1. ~(Len(data) > TcpWnd - Len(a.buf))
    BY <1>2, <1>3, <1>5
  <2> QED
    BY <1>5, <2>1 DEF client_recv_func, a, d
<1> HIDE DEF a
<1>7. c.buf \o data \in Buffer(TcpWnd)
  BY <1>2, <1>3, AppendBuffer
<1>8. /\ d \in Client /\ Appended(c, d, data)
      /\ d.ok /\ d.alloc /\ ~d.client_closed /\ d.socks_up = c.socks_up /\ ~d.socks_closed
      /\ d.rcv_wnd = c.rcv_wnd /\ d.rbuf = c.rbuf /\ d.sndq = c.sndq
      /\ d.sending = c.sending /\ d.receiving = c.receiving /\ d.waiting = c.waiting
      /\ d.pending = c.pending /\ d.cb = c.cb
  <2> DEFINE new == c.buf \o data
  <2> HIDE DEF new
  <2> DEFINE f == [c EXCEPT !.buf = new]
  <2>1. f \in Client
    BY <1>7 DEF Client, new
  <2>2. /\ f.ok = c.ok /\ f.alloc = c.alloc /\ f.client_closed = c.client_closed
        /\ f.socks_up = c.socks_up /\ f.socks_closed = c.socks_closed
        /\ f.rcv_wnd = c.rcv_wnd /\ f.rbuf = c.rbuf /\ f.sndq = c.sndq
        /\ f.sending = c.sending /\ f.receiving = c.receiving /\ f.waiting = c.waiting
        /\ f.pending = c.pending /\ f.cb = c.cb /\ f.buf = new
    BY DEF Client
  <2> HIDE DEF f
  <2>3. d = f
    BY <1>5 DEF f, new
  <2>4. Appended(c, f, data)
    BY <2>2 DEF Appended, new
  <2> HIDE DEF d
  <2> QED
    BY <1>1, <2>1, <2>2, <2>3, <2>4
<1> HIDE DEF d
<1>9. Len(d.buf) = Len(c.buf) + n /\ Upward(d, m)
  BY <1>1, <1>3, <1>8, AppendedUpward DEF Flows, m
<1>10. d.buf # <<>> /\ d.buf \in Seq(Nat)
  BY <1>2, <1>8, <1>9 DEF Client, Buffer
<1>11. Flows(d, held - n, acked, m)
  <2>1. Window(d, held - n)
    BY <1>2, <1>8, <1>9 DEF Window
  <2>2. Pending(d, acked)
    BY <1>1, <1>8 DEF Flows, Pending
  <2>3. Downward(d, m)
    BY <1>1, <1>4, <1>8 DEF Flows, Downward
  <2> QED
    BY <1>9, <2>1, <2>2, <2>3 DEF Flows
<1>12. CASE c.buf = <<>> /\ c.socks_up
  <2>1. c.sending = 0
    BY <1>1, <1>12 DEF Wakeable, Client
  <2>2. /\ e \in Client /\ e.ok /\ e.sending = Len(e.buf) /\ e.sending > 0
        /\ SameFlow(d, e) /\ e.socks_closed = d.socks_closed
        /\ e.receiving = d.receiving /\ e.waiting = d.waiting
    BY <1>8, <1>10, <1>12, <2>1, client_send_to_socksFlow
  <2> HIDE DEF e
  <2>3. Steady(e)
    BY <1>1, <1>8, <1>10, <1>12, <2>2 DEF Steady, Streams, Wakeable, SameFlow, Open
  <2>4. Flows(e, held - n, acked, m)
    BY <1>11, <2>2, SameFlowFlows
  <2> QED
    BY <1>6, <1>8, <1>12, <2>3, <2>4 DEF Flow, m, data, result
<1>13. CASE ~(c.buf = <<>> /\ c.socks_up)
  <2>1. c.sending <= Len(c.buf) => c.sending <= Len(d.buf)
    BY <1>2, <1>9 DEF Client
  <2>2. Steady(d)
    BY <1>1, <1>8, <1>10, <1>13, <2>1 DEF Steady, Streams, Wakeable, Open
  <2> QED
    BY <1>6, <1>8, <1>11, <1>13, <2>2 DEF Flow, m, data, result
<1> QED
  BY <1>12, <1>13

-----------------------------------------------------------------------------
(* tcp_input() and the flow. *)

LEMMA WindowType ==
    ASSUME NEW c \in Client
    PROVE  c.rcv_wnd \in Int /\ Len(c.buf) \in Nat /\ TcpWnd \in Nat
BY SizesAreNatural DEF Client, Buffer

\* n bytes that come back into the window.
LEMMA WindowGrows ==
    ASSUME NEW c \in Client, NEW held \in Nat, NEW n \in Nat, n <= held, Window(c, held),
           NEW d, d.buf = c.buf, d.rcv_wnd = c.rcv_wnd + n
    PROVE  Window(d, held - n)
<1> DEFINE w == c.rcv_wnd
           k == Len(c.buf)
<1>1. w \in Int /\ k \in Nat /\ TcpWnd \in Nat /\ w >= 0 /\ w + k + held = TcpWnd
  BY WindowType DEF Window
<1> HIDE DEF w, k
<1>2. w + n >= 0 /\ (w + n) + k + (held - n) = TcpWnd
  BY <1>1
<1> QED
  BY <1>2 DEF Window, w, k

LEMMA FinLenType == ASSUME NEW f \in BOOLEAN PROVE FinLen(f) \in {0, 1}
BY DEF FinLen

\* Only these fields matter to a client that has let its pcb go.
SameSteady(c, d) ==
    /\ SameStreams(c, d) /\ d.waiting = c.waiting /\ d.pending = c.pending

LEMMA SameSteadySteady ==
    ASSUME NEW c, NEW d, SameSteady(c, d), Steady(c)
    PROVE  Steady(d) /\ (Open(d) <=> Open(c))
BY DEF SameSteady, SameStreams, Steady, Streams, Wakeable, Open

LEMMA ClosedFlow ==
    ASSUME NEW c, NEW d, SameSteady(c, d), ~Open(c), Steady(c), NEW held, NEW acked, NEW nt
    PROVE  Flow(d, held, acked, nt)
BY SameSteadySteady DEF Flow

LEMMA DeadFlow ==
    ASSUME NEW c \in Client, NEW held, NEW acked, NEW nt, Flow(c, held, acked, nt),
           NEW d, d \in {DeadEnter(c), DeadLeave(c)}
    PROVE  Flow(d, held, acked, nt)
<1>1. /\ SameSteady(c, d) /\ d.cb = c.cb /\ d.sndq = c.sndq /\ d.rcv_wnd = c.rcv_wnd
  BY DEF DeadEnter, DeadLeave, SameSteady, SameStreams, Client
<1>2. Steady(d) /\ (Open(d) <=> Open(c))
  BY <1>1, SameSteadySteady DEF Flow
<1>3. SameFlow(c, d)
  BY <1>1 DEF SameFlow, SameSteady, SameStreams
<1> QED
  BY <1>2, <1>3, SameFlowFlows DEF Flow

LEMMA tcp_abortSteady ==
    ASSUME NEW c \in Client
    PROVE  SameSteady(c, tcp_abort(c)) /\ SameSteady(c, DeadLeave(tcp_abort(c)))
<1> DEFINE b == tcp_abort(c)
<1>1. b \in Client
  BY tcp_abortType
<1>2. SameSteady(c, b)
  BY DEF tcp_abort, SameSteady, SameStreams, Client
<1> HIDE DEF b
<1>3. SameSteady(b, DeadLeave(b))
  BY <1>1 DEF DeadLeave, SameSteady, SameStreams, Client
<1> QED
  BY <1>2, <1>3 DEF b, SameSteady, SameStreams

LEMMA ReceiveFlow ==
    ASSUME NEW c \in Client, NEW held \in Nat, NEW acked, NEW nt, Flow(c, held, acked, nt),
           NEW n \in Nat, NEW f \in BOOLEAN, Open(c) => n + FinLen(f) <= c.rcv_wnd
    PROVE  Flow(Receive(c, n, f), held + n + FinLen(f), acked, nt)
<1> DEFINE d == Receive(c, n, f)
           k == FinLen(f)
<1>1. k \in Nat
  BY FinLenType
<1>2. /\ SameSteady(c, d) /\ d.cb = c.cb /\ d.sndq = c.sndq
      /\ d.rcv_wnd = c.rcv_wnd - n - k
  BY DEF Receive, SameSteady, SameStreams, Client
<1> HIDE DEF d, k
<1>3. Steady(d) /\ (Open(d) <=> Open(c))
  BY <1>2, SameSteadySteady DEF Flow
<1>4. Open(c) => Flows(d, held + n + k, acked, nt)
  <2> SUFFICES ASSUME Open(c) PROVE Flows(d, held + n + k, acked, nt)
    OBVIOUS
  <2>1. Flows(c, held, acked, nt)
    BY DEF Flow
  <2>2. c.rcv_wnd \in Int /\ Len(c.buf) \in Nat /\ d.buf = c.buf /\ TcpWnd \in Nat
    BY <1>2, SizesAreNatural DEF Client, Buffer, SameSteady, SameStreams
  <2>3. n + k <= c.rcv_wnd
    BY DEF k
  <2>4. Window(d, held + n + k)
    BY <1>1, <1>2, <2>1, <2>2, <2>3 DEF Flows, Window
  <2>5. Pending(d, acked) /\ Upward(d, nt) /\ Downward(d, nt)
    BY <1>2, <2>1 DEF Flows, Pending, Upward, Downward, SameSteady, SameStreams
  <2> QED
    BY <2>4, <2>5 DEF Flows
<1> QED
  BY <1>3, <1>4 DEF Flow, d, k

\* A step of connection i, while tcp_input() works on no other one.
LEMMA StepFlow ==
    ASSUME TypeOK, FlowInv, NEW i \in Clients, NEW d, NEW nt, cl' = [cl EXCEPT ![i] = d],
           net' = [net EXCEPT ![i] = nt], input.conn = i \/ Idle,
           input' = NoInput \/ input'.conn = i, InOrder(input'), FlowAt(d, InHand(i)', nt)
    PROVE  FlowInv'
<1>1. ASSUME NEW j \in Clients, j # i PROVE FlowAt(cl[j]', InHand(j)', net[j]')
  <2>1. cl[j]' = cl[j] /\ net[j]' = net[j]
    BY <1>1
  <2>2. InHand(j) = NoInput /\ InHand(j)' = NoInput
    BY <1>1 DEF InHand, NoInput, Idle, TypeOK, Input, Segment, Stages
  <2>3. FlowAt(cl[j], NoInput, net[j])
    BY <2>2 DEF FlowInv
  <2> QED
    BY <2>1, <2>2, <2>3
<1>2. cl[i]' = d /\ net[i]' = nt
  BY DEF TypeOK
<1>3. ASSUME NEW j \in Clients PROVE FlowAt(cl[j]', InHand(j)', net[j]')
  BY <1>1, <1>2
<1> QED
  BY <1>3 DEF FlowInv, InOrder, FlowAt, Held

LEMMA RestInOrder ==
    ASSUME NEW in \in Segment, in.acked = 0
    PROVE  /\ InOrder(Rest(in)) /\ Rest(in).acked = 0
           /\ Held(Rest(in)) = in.len + FinLen(in.fin)
           /\ Rest(in).stage # "acceptsync"
           /\ Rest(in) = NoInput \/ Rest(in).conn = in.conn
<1>1. in.len \in Nat /\ in.fin \in BOOLEAN
  BY DEF Segment
<1>2. CASE in.len > 0
  <2> DEFINE r == [in EXCEPT !.stage = "recv"]
  <2>1. /\ r.stage = "recv" /\ r.len = in.len /\ r.fin = in.fin /\ r.acked = 0
        /\ r.conn = in.conn
    BY DEF Segment
  <2>2. Rest(in) = r
    BY <1>2 DEF Rest
  <2> HIDE DEF r
  <2> QED
    BY <1>2, <2>1, <2>2 DEF InOrder, Held
<1>3. CASE in.len = 0 /\ in.fin
  <2> DEFINE r == [in EXCEPT !.stage = "fin"]
  <2>1. /\ r.stage = "fin" /\ r.len = 0 /\ r.fin = in.fin /\ r.acked = 0 /\ r.conn = in.conn
    BY <1>3 DEF Segment
  <2>2. Rest(in) = r
    BY <1>3 DEF Rest
  <2> HIDE DEF r
  <2> QED
    BY <1>3, <2>1, <2>2 DEF InOrder, Held
<1>4. CASE in.len = 0 /\ ~in.fin
  <2>1. Rest(in) = NoInput
    BY <1>4 DEF Rest
  <2> QED
    BY <1>4, <2>1 DEF NoInput, InOrder, Held, FinLen
<1> QED
  BY <1>1, <1>2, <1>3, <1>4

LEMMA NoInputFlow ==
    /\ InOrder(NoInput) /\ Held(NoInput) = 0 /\ NoInput.acked = 0
    /\ NoInput.stage # "acceptsync"
BY DEF NoInput, InOrder, Held, FinLen

LEMMA GoOnFlow ==
    ASSUME TypeOK, FlowInv, NEW i \in Clients, NEW c \in Client, NEW in \in Segment,
           NEW before \in BOOLEAN, NEW nt, input.conn = i, in.conn = i, in.acked = 0, Owned(c),
           c.dead = "aborted" <=> c.pcb = "FREED", net' = [net EXCEPT ![i] = nt],
           Flow(c, in.len + FinLen(in.fin), 0, nt), GoOn(i, c, in, before)
    PROVE  FlowInv'
<1> DEFINE stop == \/ c.dead = "aborted"
                   \/ c.pcb = "TO_FREE" /\ (before \/ Rest(in) = NoInput)
                   \/ c.pcb \in {"CLOSING", "TIME_WAIT"} /\ before /\ in.len > 0
           d == DeadLeave(IF stop THEN tcp_abort(c) ELSE c)
<1>1. cl' = [cl EXCEPT ![i] = d] /\ input' = IF stop THEN NoInput ELSE Rest(in)
  BY DEF GoOn
<1>2. CASE stop
  <2>1. ~Open(c)
    BY <1>2 DEF Owned
  <2>2. Flow(d, 0, 0, nt)
    BY <1>2, <2>1, tcp_abortSteady, ClosedFlow DEF Flow
  <2>3. InHand(i)' = NoInput /\ input' = NoInput
    BY <1>1, <1>2 DEF InHand
  <2> HIDE DEF d, stop
  <2>4. FlowAt(d, InHand(i)', nt)
    BY <2>2, <2>3, NoInputFlow DEF FlowAt
  <2> QED
    BY <1>1, <2>3, <2>4, NoInputFlow, StepFlow
<1>3. CASE ~stop
  <2>1. Flow(d, in.len + FinLen(in.fin), 0, nt)
    BY <1>3, DeadFlow
  <2>2. input' = Rest(in) /\ (Rest(in) = NoInput \/ Rest(in).conn = i)
    BY <1>1, <1>3, RestInOrder
  <2>3. InHand(i)' = Rest(in)
    BY <2>2 DEF InHand
  <2> HIDE DEF d, stop
  <2>4. FlowAt(d, InHand(i)', nt)
    BY <2>1, <2>3, RestInOrder DEF FlowAt
  <2> QED
    BY <1>1, <2>2, <2>4, RestInOrder, StepFlow
<1> QED
  BY <1>2, <1>3

LEMMA SyncFlow ==
    ASSUME TypeOK, FlowInv, NEW i \in Clients, NEW c, NEW in \in Segment,
           NEW stage \in {"sentsync", "recvsync"}, NEW nt, input.conn = i, in.conn = i,
           in.acked = 0, stage = "recvsync" => in.len = 0, net' = [net EXCEPT ![i] = nt],
           Flow(c, in.len + FinLen(in.fin), 0, nt), Sync(i, c, in, stage)
    PROVE  FlowInv'
<1> DEFINE r == [in EXCEPT !.stage = stage]
<1>1. cl' = [cl EXCEPT ![i] = c] /\ input' = r
  BY DEF Sync
<1>2. /\ r.stage = stage /\ r.conn = i /\ r.acked = 0 /\ r.len = in.len /\ r.fin = in.fin
  BY DEF Segment
<1> HIDE DEF r
<1>3. InOrder(r) /\ Held(r) = in.len + FinLen(in.fin)
  BY <1>2 DEF InOrder, Held
<1>4. InHand(i)' = r
  BY <1>1, <1>2 DEF InHand
<1>5. FlowAt(c, InHand(i)', nt)
  BY <1>2, <1>3, <1>4 DEF FlowAt
<1> QED
  BY <1>1, <1>2, <1>3, <1>5, StepFlow

\* In a callback of connection i, FlowInv speaks of cl[i] and net[i].
LEMMA BusyFlow ==
    ASSUME TypeOK, Ownership, FlowInv, ~Idle
    PROVE  LET i == input.conn
           IN  /\ InOrder(input) /\ FlowAt(cl[i], input, net[i])
               /\ Owned(cl[i]) /\ Own(cl[i]) /\ (cl[i].dead = "aborted" <=> cl[i].pcb = "FREED")
               /\ net[i] \in Net /\ input.len \in Nat /\ input.acked \in Nat
               /\ input.fin \in BOOLEAN /\ FinLen(input.fin) \in Nat
<1> DEFINE i == input.conn
<1>1. input \in Segment /\ i \in Clients /\ cl[i] \in Client
  BY BusyType
<1>2. InHand(i) = input
  BY DEF InHand
<1>3. InOrder(input) /\ FlowAt(cl[i], input, net[i])
  BY <1>1, <1>2 DEF FlowInv
<1>4. Owned(cl[i]) /\ Own(cl[i]) /\ (cl[i].dead = "aborted" <=> cl[i].pcb = "FREED")
  BY <1>1, BusyOwned, OwnedIsOwn DEF OwnedAt
<1>5. /\ net[i] \in Net /\ input.len \in Nat /\ input.acked \in Nat /\ input.fin \in BOOLEAN
  BY <1>1 DEF TypeOK, Segment
<1>6. FinLen(input.fin) \in Nat
  BY <1>5, FinLenType
<1> QED
  BY <1>3, <1>4, <1>5, <1>6

\* Between callbacks it speaks of all clients alike.
LEMMA IdleFlow ==
    ASSUME TypeOK, Ownership, FlowInv, Idle, NEW i \in Clients
    PROVE  /\ Flow(cl[i], 0, 0, net[i]) /\ cl[i] \in Client /\ net[i] \in Net
           /\ Owned(cl[i]) /\ Own(cl[i]) /\ input = NoInput /\ InHand(i) = NoInput
<1>1. input = NoInput /\ Owned(cl[i]) /\ cl[i] \in Client /\ net[i] \in Net
  BY IdleOwned DEF TypeOK
<1>2. InHand(i) = NoInput
  BY <1>1 DEF InHand
<1>3. Flow(cl[i], 0, 0, net[i])
  BY <1>2, NoInputFlow DEF FlowInv, FlowAt
<1> QED
  BY <1>1, <1>2, <1>3, OwnedIsOwn

\* A step of connection i that leaves tcp_input() idle.
LEMMA IdleStepFlow ==
    ASSUME TypeOK, Ownership, FlowInv, Idle, NEW i \in Clients, NEW d, NEW nt,
           cl' = [cl EXCEPT ![i] = d], net' = [net EXCEPT ![i] = nt], input' = input,
           Flow(d, 0, 0, nt)
    PROVE  FlowInv'
<1>1. input' = NoInput
  BY IdleFlow
<1>2. InHand(i)' = NoInput
  BY <1>1 DEF InHand
<1>3. FlowAt(d, InHand(i)', nt)
  BY <1>2, NoInputFlow DEF FlowAt
<1> QED
  BY <1>1, <1>3, NoInputFlow, StepFlow

LEMMA NetSame == ASSUME TypeOK, NEW i \in Clients PROVE net = [net EXCEPT ![i] = net[i]]
BY DEF TypeOK

LEMMA listener_accept_funcFlow ==
    ASSUME TypeOK, Ownership, FlowInv, NEW i \in Clients, NEW n \in Nat, NEW f \in BOOLEAN,
           listener_accept_func(i, n, f)
    PROVE  FlowInv'
<1> DEFINE nt == [app_sent |-> 0, srv_got |-> 0, srv_sent |-> 0, app_got |-> 0]
           in == [stage |-> "acceptsync", conn |-> i, acked |-> 0, len |-> n, fin |-> f]
<1>1. /\ cl' = [cl EXCEPT ![i] = AcceptedSlot] /\ net' = [net EXCEPT ![i] = nt]
      /\ input' = in /\ Idle /\ n + FinLen(f) <= TcpWnd
  BY DEF listener_accept_func, Sync, NoInput
<1>2. InOrder(in) /\ Held(in) = 0 /\ in.acked = 0
  BY <1>1 DEF InOrder, Held
<1>3. InHand(i)' = in
  BY <1>1 DEF InHand
<1> DEFINE c == AcceptedSlot
<1>8. /\ c.ok /\ c.alloc /\ ~c.client_closed /\ ~c.socks_up /\ ~c.socks_closed
      /\ c.sending = 0 /\ ~c.receiving /\ c.buf = <<>> /\ c.rbuf = <<>> /\ c.sndq = <<>>
      /\ c.rcv_wnd = TcpWnd /\ "recv" \in c.cb /\ Len(<<>>) = 0
  BY DEF AcceptedSlot, Slot
<1>9. nt.app_sent = 0 /\ nt.srv_got = 0 /\ nt.srv_sent = 0 /\ nt.app_got = 0
  OBVIOUS
<1> HIDE DEF nt, c
<1>4. Steady(c)
  BY <1>8 DEF Steady, Streams, Wakeable, Open
<1>5. Flows(c, 0, 0, nt)
  <2>1. Window(c, 0)
    BY <1>8, SizesAreNatural DEF Window
  <2>2. Pending(c, 0)
    BY <1>8 DEF Pending
  <2>3. \A from : Counts(<<>>, from)
    BY DEF Counts
  <2>4. Upward(c, nt) /\ Downward(c, nt)
    BY <1>8, <1>9, <2>3 DEF Upward, Downward
  <2> QED
    BY <2>1, <2>2, <2>4 DEF Flows
<1>6. FlowAt(AcceptedSlot, in, nt)
  BY <1>2, <1>4, <1>5, <1>9 DEF FlowAt, Flow, c
<1>7. input'.conn = i
  BY <1>1
<1> HIDE DEF in
<1> QED
  BY <1>1, <1>2, <1>3, <1>6, <1>7, StepFlow

LEMMA SyncCommitFlow == ASSUME TypeOK, Ownership, FlowInv, SyncCommit PROVE FlowInv'
<1> DEFINE i == input.conn
           held == input.len + FinLen(input.fin)
           d == IF cl[i].dead = "aborted" THEN cl[i]
                ELSE Receive(cl[i], input.len, input.fin)
<1>1. ~Idle
  BY DEF SyncCommit, Idle
<1>2. input \in Segment /\ i \in Clients /\ cl[i] \in Client
  BY <1>1, BusyType
<1>3. /\ InOrder(input) /\ FlowAt(cl[i], input, net[i]) /\ Owned(cl[i])
      /\ cl[i].dead = "aborted" <=> cl[i].pcb = "FREED"
      /\ net[i] \in Net /\ input.len \in Nat /\ input.fin \in BOOLEAN
      /\ FinLen(input.fin) \in Nat
  BY <1>1, BusyFlow
<1>4. net' = [net EXCEPT ![i] = net[i]]
  BY <1>2, NetSame DEF SyncCommit
<1>5. input.acked = 0
  BY <1>3 DEF SyncCommit, InOrder
<1>6. CASE input.stage = "acceptsync"
  <2>1. GoOn(i, d, input, TRUE)
    BY <1>6 DEF SyncCommit
  <2>2. d \in Client /\ Owned(d) /\ (d.dead = "aborted" <=> d.pcb = "FREED")
    BY <1>2, <1>3, ReceiveType, ReceiveOwned
  <2>3. Flow(cl[i], 0, 0, net[i]) /\ net[i].app_sent = 0 /\ held <= TcpWnd
    BY <1>3, <1>5, <1>6 DEF FlowAt, Held, InOrder
  <2>4. Flow(d, held, 0, net[i])
    <3>1. CASE cl[i].dead = "aborted"
      <4>1. ~Open(cl[i])
        BY <1>3, <3>1 DEF Owned
      <4> QED
        BY <2>3, <3>1, <4>1 DEF Flow
    <3>2. CASE cl[i].dead # "aborted"
      <4>1. Open(cl[i]) => held <= cl[i].rcv_wnd
        <5>1. cl[i].rcv_wnd \in Int /\ Len(cl[i].buf) \in Nat /\ TcpWnd \in Nat
              /\ net[i].srv_got \in Nat
          <6>1. cl[i].rcv_wnd \in Int /\ cl[i].buf \in Buffer(TcpWnd)
            BY <1>2 DEF Client
          <6>2. Len(cl[i].buf) \in Nat
            BY <6>1 DEF Buffer
          <6>3. net[i].srv_got \in Nat
            BY <1>3 DEF Net
          <6> QED
            BY <6>1, <6>2, <6>3, SizesAreNatural
        <5>2. Open(cl[i]) => /\ net[i].srv_got + Len(cl[i].buf) <= net[i].app_sent
                             /\ cl[i].rcv_wnd + Len(cl[i].buf) + 0 = TcpWnd
          BY <2>3 DEF Flow, Flows, Window, Upward
        <5>3. Open(cl[i]) => cl[i].rcv_wnd = TcpWnd
          BY <2>3, <5>1, <5>2
        <5> HIDE DEF held
        <5> QED
          BY <2>3, <5>3
      <4>2. Flow(Receive(cl[i], input.len, input.fin), 0 + input.len + FinLen(input.fin),
                 0, net[i])
        BY <1>2, <1>3, <2>3, <4>1, ReceiveFlow
      <4>3. 0 + input.len + FinLen(input.fin) = held
        BY <1>3
      <4> HIDE DEF held
      <4> QED
        BY <3>2, <4>2, <4>3
    <3> QED
      BY <3>1, <3>2
  <2> HIDE DEF d
  <2> QED
    BY <1>2, <1>4, <1>5, <2>1, <2>2, <2>4, GoOnFlow
<1>7. CASE input.stage # "acceptsync"
  <2>1. GoOn(i, cl[i], input, TRUE) \/ GoOn(i, cl[i], input, FALSE)
    BY <1>7 DEF SyncCommit
  <2>2. Flow(cl[i], held, 0, net[i])
    BY <1>3, <1>5, <1>7 DEF FlowAt, Held
  <2> QED
    BY <1>2, <1>3, <1>4, <1>5, <2>1, <2>2, GoOnFlow
<1> QED
  BY <1>6, <1>7

LEMMA SegmentArrivesFlow ==
    ASSUME TypeOK, Ownership, FlowInv, NEW i \in Clients, NEW a \in Nat, NEW n \in Nat,
           NEW f \in BOOLEAN, SegmentArrives(i, a, n, f)
    PROVE  FlowInv'
<1> DEFINE c == cl[i]
           nt == net[i]
           m == [nt EXCEPT !.app_got = @ + a]
           q == Drop(c.sndq, a)
           d == [c EXCEPT !.sndq = q]
           e == Receive(d, n, f)
           in == [stage |-> "sent", conn |-> i, acked |-> a, len |-> n, fin |-> f]
<1>1. /\ Idle /\ a <= Len(c.sndq) /\ n + FinLen(f) <= c.rcv_wnd
      /\ cl' = [cl EXCEPT ![i] = e] /\ input' = in
  BY DEF SegmentArrives
<1>2. net' = [net EXCEPT ![i] = m]
  BY DEF SegmentArrives, TypeOK
<1>3. Flow(c, 0, 0, nt) /\ c \in Client /\ nt \in Net
  BY <1>1, IdleFlow
<1>4. /\ m.app_got = nt.app_got + a /\ m.srv_sent = nt.srv_sent /\ m.srv_got = nt.srv_got
      /\ m.app_sent = nt.app_sent /\ nt.app_got \in Nat /\ nt.srv_sent \in Nat
  BY <1>3 DEF Net
<1> HIDE DEF m
<1>5. c.sndq \in Buffer(SndBuf) /\ c.sndq \in Seq(Nat) /\ Len(c.sndq) \in Nat
  BY <1>3 DEF Client, Buffer
<1>6. q \in Buffer(SndBuf) /\ Len(q) = Len(c.sndq) - a
  <2>1. q \in Buffer(SndBuf)
    BY <1>5, DropBuffer, SizesAreNatural
  <2>2. Len(q) = Len(c.sndq) - a
    BY <1>1, <1>5, DropLength
  <2> QED
    BY <2>1, <2>2
<1> HIDE DEF q
<1>7. d \in Client /\ SameSteady(c, d) /\ d.sndq = q /\ d.cb = c.cb /\ d.rcv_wnd = c.rcv_wnd
  BY <1>3, <1>6 DEF Client, SameSteady, SameStreams
<1>8. Flow(d, 0, a, m)
  <2>1. Steady(d) /\ (Open(d) <=> Open(c))
    BY <1>3, <1>7, SameSteadySteady DEF Flow
  <2> HIDE DEF d
  <2>2. Open(c) => Flows(d, 0, a, m)
    <3> SUFFICES ASSUME Open(c) PROVE Flows(d, 0, a, m)
      OBVIOUS
    <3>1. Flows(c, 0, 0, nt)
      BY <1>3 DEF Flow
    <3>2. Window(d, 0) /\ Upward(d, m)
      BY <1>4, <1>7, <3>1 DEF Flows, Window, Upward, SameSteady, SameStreams
    <3>3. Pending(d, a)
      <4>1. c.socks_up => c.pending = Len(c.sndq) /\ "sent" \in c.cb
        BY <1>5, <3>1 DEF Flows, Pending
      <4>2. c.socks_up => d.pending = Len(d.sndq) + a
        BY <1>1, <1>5, <1>6, <1>7, <4>1 DEF SameSteady
      <4>3. ~c.socks_up => c.sndq = <<>> /\ c.rbuf = <<>>
        BY <3>1 DEF Flows, Pending
      <4>4. ~c.socks_up => a = 0 /\ Len(d.sndq) = 0
        BY <1>1, <1>5, <1>6, <1>7, <4>3
      <4>5. d.sndq \in Seq(Nat)
        BY <1>7 DEF Client, Buffer
      <4> QED
        BY <1>7, <4>1, <4>2, <4>3, <4>4, <4>5 DEF Pending, SameSteady, SameStreams
    <3>4. Downward(d, m)
      <4>1. /\ nt.app_got + Len(c.sndq) + Len(c.rbuf) = nt.srv_sent
            /\ Counts(c.sndq, nt.app_got) /\ Counts(c.rbuf, nt.app_got + Len(c.sndq))
        BY <3>1 DEF Flows, Downward
      <4>2. Counts(q, nt.app_got + a)
        BY <1>1, <1>4, <1>5, <4>1, DropCounts DEF q
      <4>3. m.app_got + Len(q) = nt.app_got + Len(c.sndq)
        BY <1>1, <1>4, <1>5, <1>6
      <4>4. d.rbuf = c.rbuf /\ Len(c.rbuf) \in Nat
        BY <1>3, <1>7 DEF SameSteady, SameStreams, Client, Buffer
      <4> QED
        BY <1>4, <1>7, <4>1, <4>2, <4>3, <4>4 DEF Downward
    <3> QED
      BY <3>2, <3>3, <3>4 DEF Flows
  <2> QED
    BY <2>1, <2>2 DEF Flow
<1>9. d.rcv_wnd = c.rcv_wnd /\ n + FinLen(f) <= d.rcv_wnd
  BY <1>1, <1>7
<1> HIDE DEF d
<1>10. Flow(e, n + FinLen(f), a, m)
  <2>1. Flow(e, 0 + n + FinLen(f), a, m)
    BY <1>7, <1>8, <1>9, ReceiveFlow
  <2>2. 0 + n + FinLen(f) = n + FinLen(f)
    BY FinLenType
  <2> QED
    BY <2>1, <2>2
<1> HIDE DEF e
<1>11. InHand(i)' = in /\ InOrder(in) /\ Held(in) = n + FinLen(f) /\ in.acked = a
  BY <1>1 DEF InHand, InOrder, Held
<1>12. FlowAt(e, InHand(i)', m)
  BY <1>10, <1>11 DEF FlowAt
<1>13. input'.conn = i /\ input' = in
  BY <1>1
<1> HIDE DEF in
<1> QED
  BY <1>1, <1>2, <1>11, <1>12, <1>13, StepFlow

LEMMA SentEventFlow ==
    ASSUME TypeOK, Ownership, FlowInv, NEW oom \in BOOLEAN, SentEvent(oom) PROVE FlowInv'
<1> DEFINE i == input.conn
           c == DeadEnter(cl[i])
           d == client_sent_func(c, input.acked, oom)
           rest == [input EXCEPT !.acked = 0]
           held == input.len + FinLen(input.fin)
<1>1. ~Idle /\ input.stage = "sent"
  BY DEF SentEvent, Idle
<1>2. input \in Segment /\ i \in Clients /\ cl[i] \in Client
  BY <1>1, BusyType
<1>3. /\ InOrder(input) /\ FlowAt(cl[i], input, net[i]) /\ Owned(cl[i]) /\ Own(cl[i])
      /\ cl[i].dead = "aborted" <=> cl[i].pcb = "FREED"
      /\ net[i] \in Net /\ input.len \in Nat /\ input.acked \in Nat /\ FinLen(input.fin) \in Nat
      /\ cl[i].pcb # "FREED"
  BY <1>1, BusyFlow, BusyOwned DEF OwnedAt
<1>4. /\ rest \in Segment /\ rest.conn = i /\ rest.acked = 0 /\ rest.len = input.len
      /\ rest.fin = input.fin
  BY <1>2 DEF Segment
<1>5. net' = [net EXCEPT ![i] = net[i]]
  BY <1>2, NetSame DEF SentEvent
<1>6. Flow(cl[i], held, input.acked, net[i])
  BY <1>1, <1>3 DEF FlowAt, Held
<1>7. held = rest.len + FinLen(rest.fin)
  BY <1>4
<1> HIDE DEF held, rest
<1>8. CASE (input.acked = 0 \/ "sent" \notin cl[i].cb) /\ GoOn(i, cl[i], rest, TRUE)
  <2>1. Open(cl[i]) => input.acked = 0
    BY <1>6, <1>8 DEF Flow, Flows, Pending
  <2>2. Flow(cl[i], held, 0, net[i])
    BY <1>6, <2>1 DEF Flow
  <2> QED
    BY <1>2, <1>3, <1>4, <1>5, <1>7, <1>8, <2>2, GoOnFlow
<1>9. CASE /\ input.acked > 0 /\ "sent" \in cl[i].cb
           /\ GoOn(i, d, rest, TRUE) \/ Sync(i, d, rest, "sentsync")
  <2>1. Open(cl[i]) /\ cl[i].alloc
    BY <1>3, <1>9 DEF Owned, Open
  <2>2. Mine(c) /\ c.dead # "off" /\ ~c.client_closed
    BY <1>2, <1>3, <2>1, DeadEnterOwned DEF Open
  <2>3. d \in Client
    BY <1>3, <2>2, client_sent_funcType DEF Mine
  <2>4. Owned(d) /\ (d.dead = "aborted" <=> d.pcb = "FREED")
    BY <1>3, <2>2, client_sent_funcKeeps, CallbackOwned
  <2>5. Flow(c, held, input.acked, net[i])
    BY <1>2, <1>6, DeadFlow
  <2>6. c \in Client /\ Own(c) /\ Open(c)
    BY <2>2, OwnedIsOwn DEF Mine, Open
  <2> HIDE DEF c
  <2>7. Flow(d, held, 0, net[i])
    BY <1>3, <1>9, <2>5, <2>6, client_sent_funcFlow
  <2> HIDE DEF d
  <2>8. Flow(d, rest.len + FinLen(rest.fin), 0, net[i])
    BY <1>7, <2>7
  <2>9. CASE GoOn(i, d, rest, TRUE)
    BY <1>2, <1>4, <1>5, <2>3, <2>4, <2>8, <2>9, GoOnFlow
  <2>10. CASE Sync(i, d, rest, "sentsync")
    BY <1>2, <1>4, <1>5, <2>8, <2>10, SyncFlow
  <2> QED
    BY <1>9, <2>9, <2>10
<1> QED
  BY <1>8, <1>9 DEF SentEvent, rest

\* tcp_recv_null(): data that nobody wants goes back into the window.
LEMMA tcp_recvedFlow ==
    ASSUME NEW c \in Client, "recv" \notin c.cb, NEW held \in Nat, NEW n \in Nat, n <= held,
           NEW acked, NEW nt \in Net, Flow(c, held, acked, nt)
    PROVE  Flow(tcp_recved(c, n), held - n, acked, [nt EXCEPT !.app_sent = @ + n])
<1> DEFINE d == tcp_recved(c, n)
           m == [nt EXCEPT !.app_sent = @ + n]
<1>1. /\ SameSteady(c, d) /\ d.cb = c.cb /\ d.sndq = c.sndq
      /\ d.rcv_wnd = Lesser(c.rcv_wnd + n, TcpWnd)
  BY DEF tcp_recved, SameSteady, SameStreams, Client
<1>2. /\ m.app_sent = nt.app_sent + n /\ m.srv_got = nt.srv_got /\ m.app_got = nt.app_got
      /\ m.srv_sent = nt.srv_sent /\ nt.app_sent \in Nat /\ nt.srv_got \in Nat
  BY DEF Net
<1> HIDE DEF d, m
<1>3. Steady(d) /\ (Open(d) <=> Open(c))
  BY <1>1, SameSteadySteady DEF Flow
<1>4. ASSUME Open(c) PROVE Flows(d, held - n, acked, m)
  <2>1. Flows(c, held, acked, nt)
    BY <1>4 DEF Flow
  <2>2. c.rcv_wnd \in Int /\ Len(c.buf) \in Nat /\ d.buf = c.buf /\ TcpWnd \in Nat
    BY <1>1, SizesAreNatural DEF Client, Buffer, SameSteady, SameStreams
  <2>3. Window(d, held - n)
    <3>1. c.rcv_wnd + Len(c.buf) + held = TcpWnd
      BY <2>1 DEF Flows, Window
    <3>2. c.rcv_wnd + n <= TcpWnd
      BY <2>2, <3>1
    <3>3. d.rcv_wnd = c.rcv_wnd + n
      BY <1>1, <2>2, <3>2 DEF Lesser
    <3> QED
      BY <2>1, <2>2, <3>3, WindowGrows DEF Flows
  <2>4. Pending(d, acked) /\ Downward(d, m)
    BY <1>1, <1>2, <2>1 DEF Flows, Pending, Downward, SameSteady, SameStreams
  <2>5. c.socks_closed /\ nt.srv_got + Len(c.buf) <= nt.app_sent
    BY <2>1 DEF Flows, Upward
  <2>6. nt.srv_got + Len(c.buf) <= nt.app_sent + n
    BY <1>2, <2>2, <2>5
  <2>7. Upward(d, m)
    BY <1>1, <1>2, <2>2, <2>5, <2>6 DEF Upward, SameSteady, SameStreams
  <2> QED
    BY <2>3, <2>4, <2>7 DEF Flows
<1> QED
  BY <1>3, <1>4 DEF Flow, d, m

LEMMA RecvEventFlow == ASSUME TypeOK, Ownership, FlowInv, RecvEvent PROVE FlowInv'
<1> DEFINE i == input.conn
           n == input.len
           m == [net[i] EXCEPT !.app_sent = @ + n]
           b == tcp_recved(cl[i], n)
           c == DeadEnter(cl[i])
           data == Bytes(net[i].app_sent, n)
           d == client_recv_func(c, data)
           rest == [input EXCEPT !.len = 0]
           held == n + FinLen(input.fin)
<1>1. ~Idle /\ input.stage = "recv"
  BY DEF RecvEvent, Idle
<1>2. input \in Segment /\ i \in Clients /\ cl[i] \in Client
  BY <1>1, BusyType
<1>3. /\ InOrder(input) /\ FlowAt(cl[i], input, net[i]) /\ Owned(cl[i])
      /\ cl[i].dead = "aborted" <=> cl[i].pcb = "FREED"
      /\ net[i] \in Net /\ n \in Nat /\ FinLen(input.fin) \in Nat /\ cl[i].pcb # "FREED"
  BY <1>1, BusyFlow, BusyOwned DEF OwnedAt
<1>4. input.acked = 0 /\ n > 0
  BY <1>1, <1>3 DEF InOrder
<1>5. /\ rest \in Segment /\ rest.conn = i /\ rest.acked = 0 /\ rest.len = 0
      /\ rest.fin = input.fin
  BY <1>2, <1>4 DEF Segment
<1>6. net' = [net EXCEPT ![i] = m]
  BY DEF RecvEvent, TypeOK
<1>7. Flow(cl[i], held, 0, net[i])
  BY <1>1, <1>3, <1>4 DEF FlowAt, Held
<1>8. held \in Nat /\ n <= held /\ held - n = rest.len + FinLen(rest.fin)
  BY <1>3, <1>5
<1> HIDE DEF held, rest, m
<1>9. CASE "recv" \notin cl[i].cb /\ GoOn(i, b, rest, FALSE)
  <2>1. b \in Client
    BY <1>2, <1>3, tcp_recvedType
  <2>2. /\ b.alloc = cl[i].alloc /\ b.client_closed = cl[i].client_closed
        /\ b.aborted = cl[i].aborted /\ b.socks_closed = cl[i].socks_closed
        /\ b.receiving = cl[i].receiving /\ b.sending = cl[i].sending
        /\ b.dead = cl[i].dead /\ b.pcb = cl[i].pcb /\ b.cb = cl[i].cb
    BY <1>2 DEF tcp_recved, Client
  <2>3. Flow(b, held - n, 0, m)
    BY <1>2, <1>3, <1>7, <1>8, <1>9, tcp_recvedFlow DEF m
  <2> HIDE DEF b
  <2>4. Owned(b) /\ (b.dead = "aborted" <=> b.pcb = "FREED")
    BY <1>3, <2>2 DEF Owned, Core, Open
  <2>5. Flow(b, rest.len + FinLen(rest.fin), 0, m)
    BY <1>8, <2>3
  <2> QED
    BY <1>2, <1>5, <1>6, <1>9, <2>1, <2>4, <2>5, GoOnFlow
<1>10. CASE "recv" \in cl[i].cb /\ (GoOn(i, d, rest, FALSE) \/ Sync(i, d, rest, "recvsync"))
  <2>1. Open(cl[i]) /\ cl[i].alloc
    BY <1>3, <1>10 DEF Owned, Open
  <2>2. Mine(c) /\ c.dead # "off" /\ ~c.client_closed
    BY <1>2, <1>3, <2>1, DeadEnterOwned DEF Open
  <2>3. data \in Seq(Nat)
    BY <1>2, <1>3, BytesAreASequence DEF Net
  <2>4. d \in Client
    BY <2>2, <2>3, client_recv_funcType DEF Mine
  <2>5. Owned(d) /\ (d.dead = "aborted" <=> d.pcb = "FREED")
    BY <2>2, <2>3, client_recv_funcKeeps, CallbackOwned
  <2>6. Flow(c, held, 0, net[i])
    BY <1>2, <1>7, DeadFlow
  <2>7. c.cb = cl[i].cb
    BY <1>2 DEF DeadEnter, Client
  <2>8. c \in Client /\ Open(c) /\ "recv" \in c.cb
    BY <1>10, <2>2, <2>7 DEF Mine, Open
  <2> HIDE DEF c
  <2>9. Flow(d, held - n, 0, m)
    BY <1>3, <1>4, <1>8, <2>6, <2>8, client_recv_funcFlow DEF m
  <2> HIDE DEF d
  <2>10. Flow(d, rest.len + FinLen(rest.fin), 0, m)
    BY <1>8, <2>9
  <2>11. CASE GoOn(i, d, rest, FALSE)
    BY <1>2, <1>5, <1>6, <2>4, <2>5, <2>10, <2>11, GoOnFlow
  <2>12. CASE Sync(i, d, rest, "recvsync")
    BY <1>2, <1>5, <1>6, <2>10, <2>12, SyncFlow
  <2> QED
    BY <1>10, <2>11, <2>12
<1> QED
  BY <1>9, <1>10 DEF RecvEvent, rest

LEMMA FinEventFlow == ASSUME TypeOK, Ownership, FlowInv, FinEvent PROVE FlowInv'
<1> DEFINE i == input.conn
           c == cl[i]
           b == [c EXCEPT !.rcv_wnd = IF @ = TcpWnd THEN @ ELSE @ + 1]
           e == DeadEnter(b)
           d == client_free_client(e)
           rest == [input EXCEPT !.fin = FALSE]
<1>1. ~Idle /\ input.stage = "fin"
  BY DEF FinEvent, Idle
<1>2. input \in Segment /\ i \in Clients /\ c \in Client
  BY <1>1, BusyType
<1>3. /\ InOrder(input) /\ FlowAt(c, input, net[i]) /\ Owned(c)
      /\ c.dead = "aborted" <=> c.pcb = "FREED"
      /\ net[i] \in Net /\ c.pcb # "FREED"
  BY <1>1, BusyFlow, BusyOwned DEF OwnedAt
<1>4. input.acked = 0 /\ input.len = 0 /\ input.fin
  BY <1>1, <1>3 DEF InOrder
<1>5. /\ rest \in Segment /\ rest.conn = i /\ rest.acked = 0 /\ rest.len = 0
      /\ rest.fin = FALSE
  BY <1>2, <1>4 DEF Segment
<1>6. net' = [net EXCEPT ![i] = net[i]]
  BY <1>2, NetSame DEF FinEvent
<1>7. Flow(c, 1, 0, net[i])
  BY <1>1, <1>3, <1>4 DEF FlowAt, Held, FinLen
<1>8. rest.len + FinLen(rest.fin) = 0
  BY <1>5 DEF FinLen
<1> HIDE DEF rest
<1>9. /\ b \in Client /\ SameSteady(c, b) /\ b.cb = c.cb /\ b.sndq = c.sndq
      /\ b.rcv_wnd = IF c.rcv_wnd = TcpWnd THEN c.rcv_wnd ELSE c.rcv_wnd + 1
      /\ b.alloc = c.alloc /\ b.client_closed = c.client_closed
      /\ b.aborted = c.aborted /\ b.socks_closed = c.socks_closed
      /\ b.receiving = c.receiving /\ b.sending = c.sending
      /\ b.dead = c.dead /\ b.pcb = c.pcb
  BY <1>2 DEF Client, SameSteady, SameStreams
<1> HIDE DEF b
<1>10. Owned(b) /\ b.pcb # "FREED" /\ (b.dead = "aborted" <=> b.pcb = "FREED")
  BY <1>3, <1>9 DEF Owned, Core, Open
<1>11. Steady(b) /\ (Open(b) <=> Open(c))
  BY <1>7, <1>9, SameSteadySteady DEF Flow
<1>12. CASE GoOn(i, b, rest, FALSE)
  <2>1. ASSUME Open(c) PROVE Flows(b, 0, 0, net[i])
    <3>1. Flows(c, 1, 0, net[i])
      BY <1>7, <2>1 DEF Flow
    <3>2. c.rcv_wnd \in Int /\ Len(c.buf) \in Nat /\ TcpWnd \in Nat
      BY <1>2, WindowType
    <3>3. Window(b, 0)
      <4>1. Window(c, 1)
        BY <3>1 DEF Flows
      <4>2. c.rcv_wnd # TcpWnd
        BY <3>2, <4>1 DEF Window
      <4>3. b.rcv_wnd = c.rcv_wnd + 1 /\ b.buf = c.buf
        BY <1>9, <4>2 DEF SameSteady, SameStreams
      <4>4. Window(b, 1 - 1)
        BY <1>2, <4>1, <4>3, WindowGrows
      <4> QED
        BY <4>4
    <3>4. Pending(b, 0) /\ Upward(b, net[i]) /\ Downward(b, net[i])
      BY <1>9, <3>1 DEF Flows, Pending, Upward, Downward, SameSteady, SameStreams
    <3> QED
      BY <3>3, <3>4 DEF Flows
  <2>2. Flow(b, rest.len + FinLen(rest.fin), 0, net[i])
    BY <1>8, <1>11, <2>1 DEF Flow
  <2> QED
    BY <1>2, <1>5, <1>6, <1>9, <1>10, <1>12, <2>2, GoOnFlow
<1>13. CASE "recv" \in b.cb /\ GoOn(i, d, rest, FALSE)
  <2>1. Open(b) /\ b.alloc
    BY <1>10, <1>13 DEF Owned, Open
  <2>2. Mine(e) /\ e.dead # "off" /\ ~e.client_closed
    BY <1>9, <1>10, <2>1, DeadEnterOwned DEF Open
  <2>3. d \in Client
    BY <2>2, client_free_clientType DEF Mine
  <2>4. Owned(d) /\ (d.dead = "aborted" <=> d.pcb = "FREED")
    BY <2>2, client_free_clientKeeps, CallbackOwned
  <2>5. Mate(e)
    <3>1. SameStreams(b, e) /\ e \in Client
      BY <1>9, <2>2 DEF DeadEnter, SameStreams, Client, Mine
    <3>2. Mate(b)
      BY <1>9, <1>11, <2>1 DEF Steady, Wakeable, Mate, Sender
    <3> QED
      BY <3>1, <3>2, SameStreamsMate
  <2> HIDE DEF e
  <2>6. Flow(d, rest.len + FinLen(rest.fin), 0, net[i])
    BY <2>5, client_free_clientFlow, LetGoFlow
  <2> QED
    BY <1>2, <1>5, <1>6, <1>13, <2>3, <2>4, <2>6, GoOnFlow
<1> QED
  BY <1>12, <1>13 DEF FinEvent, b, rest

LEMMA PcbDiesFlow ==
    ASSUME TypeOK, Ownership, FlowInv, NEW i \in Clients, PcbDies(i) PROVE FlowInv'
<1> DEFINE c == cl[i]
           d == RemoveCallbacks(tcp_abort(c))
           e == IF "err" \in c.cb THEN client_handle_freed_client(d) ELSE d
<1>1. Idle /\ input' = input /\ cl' = [cl EXCEPT ![i] = e]
  BY DEF PcbDies
<1>2. net' = [net EXCEPT ![i] = net[i]]
  BY NetSame DEF PcbDies
<1>3. c \in Client /\ Owned(c) /\ Flow(c, 0, 0, net[i])
  BY <1>1, IdleFlow
<1>4. d \in Client /\ SameSteady(c, d)
  <2>1. SameSteady(c, tcp_abort(c)) /\ tcp_abort(c) \in Client
    BY <1>3, tcp_abortSteady, tcp_abortType
  <2>2. SameSteady(tcp_abort(c), d)
    BY <2>1 DEF RemoveCallbacks, SameSteady, SameStreams, Client
  <2> QED
    BY <2>1, <2>2, RemoveCallbacksType DEF SameSteady, SameStreams
<1> HIDE DEF d
<1>5. CASE "err" \in c.cb
  <2>1. Open(c)
    BY <1>3, <1>5 DEF Owned
  <2>2. Mate(c)
    BY <1>3, <2>1 DEF Flow, Steady, Wakeable, Mate, Sender
  <2>3. Mate(d)
    BY <1>4, <2>2, SameStreamsMate DEF SameSteady
  <2> QED
    BY <1>1, <1>2, <1>5, <2>3, client_handle_freed_clientFlow, LetGoFlow, IdleStepFlow
<1>6. CASE "err" \notin c.cb
  <2>1. ~Open(c)
    BY <1>3, <1>6 DEF Owned
  <2>2. Flow(e, 0, 0, net[i])
    BY <1>3, <1>4, <1>6, <2>1, ClosedFlow DEF Flow
  <2> QED
    BY <1>1, <1>2, <2>2, IdleStepFlow
<1> QED
  BY <1>5, <1>6

LEMMA OrphanFlow ==
    ASSUME TypeOK, Ownership, FlowInv, NEW i \in Clients,
           (\E a \in Nat : OrphanAck(i, a)) \/ OrphanGone(i)
    PROVE  FlowInv'
<1>1. Idle /\ cl[i].pcb \in {"CLOSING", "TIME_WAIT"} /\ input' = input
  BY DEF OrphanAck, OrphanGone
<1>2. cl[i] \in Client /\ Owned(cl[i]) /\ Flow(cl[i], 0, 0, net[i])
  BY <1>1, IdleFlow
<1>3. ~Open(cl[i])
  BY <1>1, <1>2 DEF Owned
<1>4. CASE OrphanGone(i)
  <2>1. Flow(tcp_abort(cl[i]), 0, 0, net[i])
    BY <1>2, <1>3, tcp_abortSteady, ClosedFlow DEF Flow
  <2>2. cl' = [cl EXCEPT ![i] = tcp_abort(cl[i])] /\ net' = [net EXCEPT ![i] = net[i]]
    BY <1>4, NetSame DEF OrphanGone
  <2> QED
    BY <1>1, <2>1, <2>2, IdleStepFlow
<1>5. ASSUME NEW a \in Nat, OrphanAck(i, a) PROVE FlowInv'
  <2> DEFINE q == Drop(cl[i].sndq, a)
             d == [cl[i] EXCEPT !.sndq = q]
             m == [net[i] EXCEPT !.app_got = @ + a]
  <2>1. cl' = [cl EXCEPT ![i] = d] /\ net' = [net EXCEPT ![i] = m]
    BY <1>5 DEF OrphanAck, TypeOK
  <2> HIDE DEF q, m
  <2>2. SameSteady(cl[i], d)
    BY <1>2 DEF Client, SameSteady, SameStreams
  <2> HIDE DEF d
  <2>3. Flow(d, 0, 0, m)
    BY <1>2, <1>3, <2>2, ClosedFlow DEF Flow
  <2> QED
    BY <1>1, <2>1, <2>3, IdleStepFlow
<1> QED
  BY <1>4, <1>5

-----------------------------------------------------------------------------
(* Jobs and the flow. *)

LEMMA JobFlow ==
    ASSUME TypeOK, Ownership, FlowInv, NEW i \in Clients, NEW c \in Client, NEW stages, NEW nt,
           Owned(c), net' = [net EXCEPT ![i] = nt], nt.app_sent = net[i].app_sent,
           Flow(c, Held(InHand(i)), InHand(i).acked, nt), Job(i, stages, c)
    PROVE  FlowInv'
<1> DEFINE d == IF Idle /\ c.pcb = "TO_FREE" THEN tcp_abort(c) ELSE c
<1>1. cl' = [cl EXCEPT ![i] = d] /\ input' = input /\ (Idle \/ input.conn = i)
  BY DEF Job
<1>2. Flow(d, Held(InHand(i)), InHand(i).acked, nt)
  <2>1. CASE Idle /\ c.pcb = "TO_FREE"
    <3>1. ~Open(c)
      BY <2>1 DEF Owned
    <3> QED
      BY <2>1, <3>1, tcp_abortSteady, ClosedFlow DEF Flow
  <2>2. CASE ~(Idle /\ c.pcb = "TO_FREE")
    BY <2>2
  <2> QED
    BY <2>1, <2>2
<1> HIDE DEF d
<1>3. InHand(i)' = InHand(i)
  BY <1>1 DEF InHand
<1>4. InOrder(input) /\ FlowAt(cl[i], InHand(i), net[i])
  BY DEF FlowInv
<1>5. FlowAt(d, InHand(i)', nt)
  BY <1>2, <1>3, <1>4 DEF FlowAt
<1>6. input' = NoInput \/ input'.conn = i
  BY <1>1, IdleFlow
<1>7. InOrder(input')
  BY <1>1, <1>4
<1> QED
  BY <1>1, <1>5, <1>6, <1>7, StepFlow

\* What a job of connection i finds.
LEMMA JobFinds ==
    ASSUME TypeOK, Ownership, FlowInv, NEW i \in Clients
    PROVE  /\ cl[i] \in Client /\ net[i] \in Net /\ Owned(cl[i]) /\ Own(cl[i])
           /\ Flow(cl[i], Held(InHand(i)), InHand(i).acked, net[i])
           /\ Held(InHand(i)) \in Nat /\ InHand(i).acked \in Nat
<1>1. cl[i] \in Client /\ net[i] \in Net /\ Owned(cl[i]) /\ Own(cl[i])
  BY OwnedIsOwn DEF TypeOK, Ownership
<1>2. Flow(cl[i], Held(InHand(i)), InHand(i).acked, net[i])
  BY DEF FlowInv, FlowAt
<1>3. InHand(i) = NoInput \/ InHand(i) \in Segment
  BY DEF TypeOK, Input, InHand
<1>4. Held(NoInput) \in Nat /\ NoInput.acked \in Nat
  BY NoInputFlow
<1>5. ASSUME NEW in \in Segment PROVE Held(in) \in Nat /\ in.acked \in Nat
  <2>1. in.len \in Nat /\ in.acked \in Nat /\ in.fin \in BOOLEAN
    BY DEF Segment
  <2> QED
    BY <2>1 DEF Held, FinLen
<1> QED
  BY <1>1, <1>2, <1>3, <1>4, <1>5

LEMMA SendDoneFlow ==
    ASSUME TypeOK, Ownership, FlowInv, NEW i \in Clients, NEW n \in Nat, n > 0, SendDone(i, n)
    PROVE  FlowInv'
<1> DEFINE d == client_socks_send_handler_done(cl[i], n)
           m == [net[i] EXCEPT !.srv_got = @ + n]
           held == Held(InHand(i))
           acked == InHand(i).acked
<1>1. /\ cl[i] \in Client /\ net[i] \in Net /\ Owned(cl[i]) /\ held \in Nat
      /\ Flow(cl[i], held, acked, net[i])
  BY JobFinds
<1>2. Mine(cl[i])
  BY <1>1 DEF SendDone, Owned, Core, Client, Mine
<1>3. d \in Client /\ Owned(d)
  BY <1>1, <1>2, client_socks_send_handler_doneType, client_socks_send_handler_doneKeeps DEF Kept
<1>4. Flow(d, held, acked, m)
  BY <1>1, client_socks_send_handler_doneFlow DEF SendDone
<1>5. Job(i, {"acceptsync", "recvsync"}, d) /\ net' = [net EXCEPT ![i] = m]
  BY DEF SendDone, TypeOK
<1>6. m.app_sent = net[i].app_sent
  BY <1>1 DEF Net
<1> HIDE DEF d, m
<1> QED
  BY <1>3, <1>4, <1>5, <1>6, JobFlow

LEMMA RecvDoneFlow ==
    ASSUME TypeOK, Ownership, FlowInv, NEW i \in Clients, NEW n \in 1..SocksRecvBuf,
           NEW oom \in BOOLEAN, NEW fail \in BOOLEAN, RecvDone(i, n, oom, fail)
    PROVE  FlowInv'
<1> DEFINE data == Bytes(net[i].srv_sent, n)
           d == client_socks_recv_handler_done(cl[i], data, oom, fail)
           m == [net[i] EXCEPT !.srv_sent = @ + n]
           held == Held(InHand(i))
           acked == InHand(i).acked
<1>1. /\ cl[i] \in Client /\ net[i] \in Net /\ Owned(cl[i]) /\ Own(cl[i]) /\ acked \in Nat
      /\ Flow(cl[i], held, acked, net[i])
  BY JobFinds
<1>2. Mine(cl[i]) /\ cl[i].receiving
  BY <1>1 DEF RecvDone, Mine, Owned, Core
<1>3. data \in Buffer(SocksRecvBuf)
  <2>1. n \in Nat /\ n <= SocksRecvBuf
    BY SizesAreNatural
  <2> QED
    BY <2>1, BytesAreASequence DEF TypeOK, Net, Buffer
<1>4. Flow(d, held, acked, m)
  BY <1>1, <1>2, client_socks_recv_handler_doneFlow
<1>5. Job(i, {"acceptsync", "sentsync"}, d) /\ net' = [net EXCEPT ![i] = m]
  BY DEF RecvDone, TypeOK
<1>6. m.app_sent = net[i].app_sent
  BY <1>1 DEF Net
<1> HIDE DEF data, m
<1>7. d \in Client /\ Owned(d)
  BY <1>1, <1>2, <1>3, client_socks_recv_handler_doneType, client_socks_recv_handler_doneKeeps
     DEF Kept
<1> HIDE DEF d
<1> QED
  BY <1>4, <1>5, <1>6, <1>7, JobFlow

LEMMA client_free_socksKeepsFlow ==
    ASSUME NEW c \in Client, c.alloc, ~c.socks_closed, NEW held, NEW acked, NEW nt,
           Flow(c, held, acked, nt)
    PROVE  Flow(client_free_socks(c), held, acked, nt)
<1>1. c.ok /\ Waiter(c)
  BY DEF Flow, Steady, Wakeable, Waiter
<1> DEFINE d == client_free_socks(c)
<1>2. LetGo(d) \/ (Steady(d) /\ Open(d) /\ SameFlow(c, d))
  BY <1>1, client_free_socksFlow
<1> HIDE DEF d
<1>3. CASE LetGo(d)
  BY <1>3, LetGoFlow DEF d
<1>4. CASE Steady(d) /\ Open(d) /\ SameFlow(c, d)
  BY <1>4, SameFlowFlows DEF Flow, SameFlow, Open, d
<1> QED
  BY <1>2, <1>3, <1>4

LEMMA SocksEventFlow ==
    ASSUME TypeOK, Ownership, FlowInv, NEW i \in Clients,
           SocksUp(i) \/ SocksEof(i) \/ SocksError(i)
    PROVE  FlowInv'
<1> DEFINE c == cl[i]
           a == ASSERT(c, c.socks_up)
           held == Held(InHand(i))
           acked == InHand(i).acked
<1>1. /\ c \in Client /\ net[i] \in Net /\ Owned(c) /\ acked \in Nat
      /\ Flow(c, held, acked, net[i])
  BY JobFinds
<1>2. Mine(c) /\ c.alloc
  BY <1>1 DEF SocksUp, SocksEof, SocksError, Mine, Owned, Core
<1>3. net' = [net EXCEPT ![i] = net[i]]
  BY NetSame DEF SocksUp, SocksEof, SocksError
<1>4. CASE SocksUp(i)
  <2> DEFINE d == SocksUpEvent(c)
  <2>1. d \in Client /\ Owned(d)
    BY <1>1, <1>2, SocksUpEventType, SocksUpEventKeeps DEF Kept
  <2>2. Flow(d, held, acked, net[i])
    BY <1>1, <1>2, <1>4, SocksUpEventFlow DEF SocksUp
  <2>3. Job(i, {"acceptsync"}, d)
    BY <1>4 DEF SocksUp
  <2> HIDE DEF d
  <2> QED
    BY <1>3, <2>1, <2>2, <2>3, JobFlow
<1>5. CASE SocksEof(i) \/ SocksError(i)
  <2> DEFINE d == client_free_socks(c)
  <2>1. ~c.socks_closed
    BY <1>1, <1>5 DEF SocksEof, SocksError, Flow, Steady, Streams
  <2>2. SocksEof(i) => a = c
    BY <1>1 DEF SocksEof, Flow, Steady, Streams, ASSERT, Client
  <2>3. d \in Client /\ Owned(d)
    BY <1>1, <1>2, client_free_socksType, client_free_socksKeeps DEF Kept
  <2>4. Flow(d, held, acked, net[i])
    BY <1>1, <1>2, <2>1, client_free_socksKeepsFlow
  <2>5. \E stages : Job(i, stages, d)
    BY <1>5, <2>2 DEF SocksEof, SocksError
  <2> HIDE DEF d
  <2> QED
    BY <1>3, <2>3, <2>4, <2>5, JobFlow
<1> QED
  BY <1>4, <1>5

LEMMA TerminateFlow == ASSUME TypeOK, Ownership, FlowInv, Terminate PROVE FlowInv'
<1>1. Idle /\ input' = input /\ net' = net
  BY DEF Terminate
<1>2. ASSUME NEW i \in Clients PROVE FlowAt(cl[i]', InHand(i)', net[i]')
  <2>1. /\ Flow(cl[i], 0, 0, net[i]) /\ cl[i] \in Client /\ Own(cl[i]) /\ InHand(i) = NoInput
    BY <1>1, IdleFlow
  <2>2. InHand(i)' = NoInput
    BY <1>1, <2>1 DEF InHand
  <2>3. Flow(cl[i]', 0, 0, net[i])
    <3>1. CASE cl[i].alloc
      <4>1. LetGo(client_murder(cl[i]))
        BY <2>1, <3>1, client_murderFlow DEF Flow, Steady, Own
      <4>2. cl[i]' = client_murder(cl[i])
        BY <3>1 DEF Terminate
      <4> QED
        BY <4>1, <4>2, LetGoFlow
    <3>2. CASE ~cl[i].alloc
      BY <2>1, <3>2 DEF Terminate
    <3> QED
      BY <3>1, <3>2
  <2> QED
    BY <1>1, <2>2, <2>3, NoInputFlow DEF FlowAt
<1>3. InOrder(input')
  BY <1>1 DEF FlowInv
<1> QED
  BY <1>2, <1>3 DEF FlowInv, InOrder, FlowAt, Held

LEMMA InitFlow == ASSUME Init PROVE FlowInv
<1>1. ASSUME NEW i \in Clients PROVE FlowAt(cl[i], InHand(i), net[i])
  <2>1. cl[i] = FreeSlot /\ InHand(i) = NoInput
    BY <1>1 DEF Init, InHand
  <2>2. Steady(FreeSlot) /\ ~Open(FreeSlot)
    BY DEF Steady, Streams, Wakeable, Open, FreeSlot, Slot
  <2> QED
    BY <2>1, <2>2, NoInputFlow DEF FlowAt, Flow
<1> QED
  BY <1>1, NoInputFlow DEF Init, FlowInv

LEMMA NextFlow == ASSUME TypeOK, Ownership, FlowInv, [Next]_vars PROVE FlowInv'
<1>1. CASE TcpInputStep
  BY <1>1, SyncCommitFlow, SentEventFlow, RecvEventFlow, FinEventFlow DEF TcpInputStep
<1>2. ASSUME NEW i \in Clients, App(i) PROVE FlowInv'
  <2>1. \A n : n \in 0..TcpWnd \/ n \in 0..SndBuf \/ n \in 1..SndBuf => n \in Nat
    BY SizesAreNatural
  <2> QED
    BY <1>2, <2>1, listener_accept_funcFlow, SegmentArrivesFlow, PcbDiesFlow, OrphanFlow DEF App
<1>3. ASSUME NEW i \in Clients, Socks(i) PROVE FlowInv'
  <2>1. \A n \in 1..TcpWnd : n \in Nat /\ n > 0
    BY SizesAreNatural
  <2> QED
    BY <1>3, <2>1, SendDoneFlow, RecvDoneFlow, SocksEventFlow DEF Socks
<1>4. CASE Terminate
  BY <1>4, TerminateFlow
<1>5. CASE UNCHANGED vars
  BY <1>5 DEF vars, FlowInv, InHand, FlowAt, InOrder, Held
<1> QED
  BY <1>1, <1>2, <1>3, <1>4, <1>5 DEF Next, Exited

\* Whatever the callbacks, the jobs, the app and the server do, and for buffers of
\* any size: counters, buffers, flags and the numbers of bytes that each end has sent
\* and got stay in the relations that the client functions and their ASSERTs rely on.
THEOREM FlowHolds == Spec => []FlowInv
<1>1. Init => FlowInv
  BY InitFlow
<1>2. TypeOK /\ Ownership /\ FlowInv /\ [Next]_vars => FlowInv'
  BY NextFlow
<1> QED
  BY <1>1, <1>2, TypeCorrect, OwnershipHolds, PTL DEF Spec

\* No ASSERT of the relay fails, though the Android build does not check them, and
\* client_recv_func() never finds its buffer too small for what the window let in.
THEOREM AssertsAlwaysHold == Spec => []AssertsHold
<1>1. FlowInv => AssertsHold
  BY DEF FlowInv, FlowAt, Flow, Steady, AssertsHold
<1> QED
  BY <1>1, FlowHolds, PTL

\* The receive window plus client->buf plus what tcp_input() holds is always TCP_WND,
\* and socks_recv_tcp_pending is always what the app has not acknowledged.
THEOREM CountersAlwaysAgree == Spec => []CountersAgree
<1>1. TypeOK /\ FlowInv => WindowIsFreeBuffer
  <2> SUFFICES ASSUME TypeOK, FlowInv, NEW i \in Clients, Open(cl[i])
               PROVE  cl[i].rcv_wnd + Len(cl[i].buf) + Held(InHand(i)) = TcpWnd
    BY DEF WindowIsFreeBuffer, Held
  <2> QED
    BY DEF FlowInv, FlowAt, Flow, Flows, Window
<1>2. FlowInv => PendingIsQueued
  BY DEF FlowInv, FlowAt, Flow, Flows, Pending, PendingIsQueued
<1> QED
  BY <1>1, <1>2, TypeCorrect, FlowHolds, PTL DEF CountersAgree

\* Between callbacks no client waits for an event that cannot come.
THEOREM NoClientGetsStuck == Spec => []NoClientIsStuck
<1>1. FlowInv => NoClientIsStuck
  BY DEF FlowInv, FlowAt, Flow, Steady, NoClientIsStuck
<1> QED
  BY <1>1, FlowHolds, PTL

\* client->buf, lwIP's send queue and socks_recv_buf hold exactly the bytes between
\* what one end has sent and the other has got, in order.
THEOREM BytesStayInOrder == Spec => []BytesInOrder
<1>1. TypeOK /\ FlowInv => BytesInOrder
  <2> SUFFICES ASSUME TypeOK, FlowInv, NEW i \in Clients, Open(cl[i])
               PROVE  /\ ~cl[i].socks_closed =>
                           cl[i].buf = Bytes(net[i].srv_got, net[i].app_sent - net[i].srv_got)
                      /\ cl[i].sndq \o cl[i].rbuf =
                           Bytes(net[i].app_got, net[i].srv_sent - net[i].app_got)
    BY DEF BytesInOrder
  <2> DEFINE b == cl[i].buf
             q == cl[i].sndq
             r == cl[i].rbuf
             nt == net[i]
  <2>1. b \in Seq(Nat) /\ q \in Seq(Nat) /\ r \in Seq(Nat)
    <3>1. cl[i] \in Client
      BY DEF TypeOK
    <3> QED
      BY <3>1 DEF Client, Buffer
  <2>2. /\ nt.app_got \in Nat /\ nt.srv_sent \in Nat /\ nt.srv_got \in Nat /\ nt.app_sent \in Nat
        /\ Len(b) \in Nat /\ Len(q) \in Nat /\ Len(r) \in Nat
    BY <2>1 DEF TypeOK, Net
  <2>3. Upward(cl[i], nt) /\ Downward(cl[i], nt)
    BY DEF FlowInv, FlowAt, Flow, Flows
  <2>4. ~cl[i].socks_closed => nt.srv_got + Len(b) = nt.app_sent /\ Counts(b, nt.srv_got)
    BY <2>3 DEF Upward
  <2>5. /\ nt.app_got + Len(q) + Len(r) = nt.srv_sent
        /\ Counts(q, nt.app_got) /\ Counts(r, nt.app_got + Len(q))
    BY <2>3 DEF Downward
  <2> HIDE DEF b, q, r, nt
  <2>6. ~cl[i].socks_closed => b = Bytes(nt.srv_got, Len(b)) /\ Len(b) = nt.app_sent - nt.srv_got
    BY <2>1, <2>2, <2>4, CountsAreBytes
  <2>7. q \o r \in Seq(Nat) /\ Len(q \o r) = Len(q) + Len(r) /\ Counts(q \o r, nt.app_got)
    BY <2>1, <2>2, <2>5, AppendCounts
  <2>8. q \o r = Bytes(nt.app_got, Len(q \o r))
    BY <2>2, <2>7, CountsAreBytes
  <2>9. Len(q \o r) = nt.srv_sent - nt.app_got
    BY <2>2, <2>5, <2>7
  <2> QED
    BY <2>6, <2>8, <2>9 DEF b, q, r, nt
<1> QED
  BY <1>1, TypeCorrect, FlowHolds, PTL

-----------------------------------------------------------------------------
(* Which steps close the app's connection. *)

\* The pcb is as before, or lost.
PcbKept(c, d) == d.pcb = c.pcb \/ d.pcb = "FREED"

LEMMA client_deallocPcb == ASSUME NEW c \in Client PROVE client_dealloc(c).pcb = c.pcb
BY DEF client_dealloc, Freed, Slot, DeadKill, ASSERT, Client

LEMMA client_handle_freed_clientPcb ==
    ASSUME NEW c \in Client PROVE client_handle_freed_client(c).pcb = c.pcb
<1> DEFINE d == [ASSERT(c, ~c.client_closed) EXCEPT !.client_closed = TRUE]
           e == IF d.socks_closed THEN d ELSE FreeSocksClient(d)
<1>1. d \in Client /\ d.pcb = c.pcb
  BY DEF ASSERT, Client
<1> HIDE DEF d
<1>2. e \in Client /\ e.pcb = c.pcb
  BY <1>1, FreeSocksClientType DEF FreeSocksClient, Client
<1> HIDE DEF e
<1>3. client_handle_freed_client(c) \in {d, client_dealloc(e)}
  BY DEF client_handle_freed_client, d, e
<1> QED
  BY <1>1, <1>2, <1>3, client_deallocPcb

LEMMA client_abort_clientPcb ==
    ASSUME NEW c \in Client PROVE client_abort_client(c).pcb = "FREED"
<1> DEFINE d == client_abort_pcb(RemoveCallbacks(c))
<1>1. d \in Client
  BY RemoveCallbacksType, client_abort_pcbType
<1>2. d.pcb = "FREED"
  BY DEF client_abort_pcb, RemoveCallbacks, tcp_abort, DeadKill, ASSERT, Client
<1> HIDE DEF d
<1> QED
  BY <1>1, <1>2, client_handle_freed_clientPcb DEF client_abort_client, d

LEMMA client_murderPcb ==
    ASSUME NEW c \in Client, ~c.client_closed PROVE client_murder(c).pcb = "FREED"
<1> DEFINE b == client_abort_pcb(RemoveCallbacks(c))
           d == [b EXCEPT !.client_closed = TRUE]
           e == FreeSocksClient(d)
<1>1. b \in Client
  BY RemoveCallbacksType, client_abort_pcbType
<1>2. b.pcb = "FREED"
  BY DEF client_abort_pcb, RemoveCallbacks, tcp_abort, DeadKill, ASSERT, Client
<1> HIDE DEF b
<1>3. d \in Client /\ d.pcb = "FREED"
  BY <1>1, <1>2 DEF Client
<1> HIDE DEF d
<1>4. e \in Client /\ e.pcb = "FREED"
  BY <1>3, FreeSocksClientType DEF FreeSocksClient, Client
<1> HIDE DEF e
<1>5. client_murder(c) = client_dealloc(e)
  BY DEF client_murder, b, d, e
<1> QED
  BY <1>4, <1>5, client_deallocPcb

\* client_free_socks() closes the pcb only if nothing is left for the app.
LEMMA client_free_socksPcb ==
    ASSUME NEW c \in Client, ~c.client_closed
    PROVE  \/ PcbKept(c, client_free_socks(c))
           \/ ~c.socks_up \/ (c.rbuf = <<>> /\ ~(c.pending > 0))
<1> DEFINE a == ASSERT(c, ~c.socks_closed)
           b == IF a.socks_up /\ ~a.client_closed THEN [a EXCEPT !.cb = @ \ {"recv"}] ELSE a
           d == FreeSocksClient(b)
<1>1. /\ a \in Client /\ a.pcb = c.pcb /\ a.socks_up = c.socks_up /\ a.rbuf = c.rbuf
      /\ a.pending = c.pending /\ a.client_closed = c.client_closed
  BY DEF ASSERT, Client
<1> HIDE DEF a
<1>2. /\ b \in Client /\ b.pcb = c.pcb /\ b.socks_up = c.socks_up /\ b.rbuf = c.rbuf
      /\ b.pending = c.pending /\ b.client_closed = c.client_closed
  BY <1>1 DEF Client
<1> HIDE DEF b
<1>3. /\ d.pcb = c.pcb /\ d.socks_up = c.socks_up /\ d.rbuf = c.rbuf
      /\ d.pending = c.pending /\ d.client_closed = c.client_closed
  BY <1>2 DEF FreeSocksClient, Client
<1> HIDE DEF d
<1>4. d.socks_up /\ (d.rbuf # <<>> \/ d.pending > 0) => client_free_socks(c) = d
  BY <1>3 DEF client_free_socks, a, b, d
<1> QED
  BY <1>3, <1>4 DEF PcbKept

LEMMA client_send_to_socksPcb ==
    ASSUME NEW c \in Client PROVE client_send_to_socks(c).pcb = c.pcb
BY DEF client_send_to_socks, ASSERT, Client

LEMMA client_socks_recv_initiatePcb ==
    ASSUME NEW c \in Client PROVE client_socks_recv_initiate(c).pcb = c.pcb
BY DEF client_socks_recv_initiate, ASSERT, Client

LEMMA client_socks_send_handler_donePcb ==
    ASSUME NEW c \in Client, ~c.client_closed, NEW n \in Nat
    PROVE  client_socks_send_handler_done(c, n).pcb = c.pcb
<1> DEFINE a == ASSERT(c, ~c.socks_closed /\ c.socks_up /\ n <= Len(c.buf))
           b == [a EXCEPT !.buf = Drop(@, n), !.sending = 0]
           d == IF b.client_closed THEN b ELSE tcp_recved(b, n)
<1>1. a \in Client /\ a.pcb = c.pcb /\ ~a.client_closed
  BY DEF ASSERT, Client
<1> HIDE DEF a
<1>2. Drop(a.buf, n) \in Buffer(TcpWnd)
  BY <1>1, DropBuffer, SizesAreNatural DEF Client
<1>3. b \in Client /\ b.pcb = c.pcb /\ ~b.client_closed
  BY <1>1, <1>2 DEF Client
<1> HIDE DEF b
<1>4. d \in Client /\ d.pcb = c.pcb /\ ~d.client_closed
  BY <1>3, tcp_recvedType DEF Client, tcp_recved
<1> HIDE DEF d
<1>5. client_socks_send_handler_done(c, n) \in {d, client_send_to_socks(d)}
  BY <1>4 DEF client_socks_send_handler_done, a, b, d
<1> QED
  BY <1>4, <1>5, client_send_to_socksPcb

LEMMA client_socks_recv_send_outPcb ==
    ASSUME NEW c \in Client, NEW oom \in BOOLEAN, NEW fail \in BOOLEAN
    PROVE  PcbKept(c, client_socks_recv_send_out(c, oom, fail))
<1> DEFINE a == ASSERT(c, /\ ~c.client_closed /\ c.socks_up /\ ~c.waiting
                          /\ c.rbuf # <<>>)
           n == Lesser(Len(a.rbuf), SndBuf - Len(a.sndq))
           e == [a EXCEPT !.sndq = @ \o SubSeq(a.rbuf, 1, n),
                          !.rbuf = Drop(@, n), !.pending = @ + n]
           d == IF n = 0 \/ oom THEN a ELSE e
           w == [d EXCEPT !.waiting = TRUE]
<1>1. a \in Client /\ a.pcb = c.pcb
  BY DEF ASSERT, Client
<1> HIDE DEF a, n
<1>2. e.pcb = c.pcb
  BY <1>1 DEF Client
<1>3. e \in Client
  <2>1. /\ a.rbuf \in Seq(Nat) /\ Len(a.rbuf) \in Nat
        /\ a.sndq \in Buffer(SndBuf) /\ Len(a.sndq) \in Nat /\ SndBuf - Len(a.sndq) \in Nat
        /\ a.rbuf \in Buffer(SocksRecvBuf)
    BY <1>1, SizesAreNatural DEF Client, Buffer
  <2>2. n \in Nat /\ n <= Len(a.rbuf) /\ n <= SndBuf - Len(a.sndq)
    BY <2>1, LesserIsNatural DEF n
  <2> QED
    BY <1>1, <2>1, <2>2, WrittenType
<1> HIDE DEF e
<1>4. d \in Client /\ d.pcb = c.pcb
  BY <1>1, <1>2, <1>3
<1> HIDE DEF d
<1>5. w.pcb = c.pcb
  BY <1>4 DEF Client
<1> HIDE DEF w
<1>6. client_socks_recv_send_out(c, oom, fail) \in
           {client_abort_client(a), client_abort_client(d), d, w}
  BY DEF client_socks_recv_send_out, a, n, d, e, w
<1> QED
  BY <1>1, <1>4, <1>5, <1>6, client_abort_clientPcb DEF PcbKept

LEMMA client_socks_recv_handler_donePcb ==
    ASSUME NEW c \in Client, NEW data \in Buffer(SocksRecvBuf),
           NEW oom \in BOOLEAN, NEW fail \in BOOLEAN
    PROVE  PcbKept(c, client_socks_recv_handler_done(c, data, oom, fail))
<1> DEFINE a == [ASSERT(c, ~c.socks_closed /\ c.socks_up /\ c.rbuf = <<>>)
                   EXCEPT !.receiving = FALSE]
           e == [a EXCEPT !.rbuf = data, !.waiting = FALSE]
           d == client_socks_recv_send_out(e, oom, fail)
<1>1. a \in Client /\ a.pcb = c.pcb
  BY DEF ASSERT, Client
<1> HIDE DEF a
<1>2. e \in Client /\ e.pcb = c.pcb
  BY <1>1 DEF Client
<1> HIDE DEF e
<1>3. d \in Client /\ PcbKept(c, d)
  BY <1>2, client_socks_recv_send_outType, client_socks_recv_send_outPcb DEF PcbKept
<1> HIDE DEF d
<1>4. client_socks_recv_handler_done(c, data, oom, fail) \in
          {a, d, client_socks_recv_initiate(d)}
  BY DEF client_socks_recv_handler_done, a, e, d
<1> QED
  BY <1>1, <1>3, <1>4, client_socks_recv_initiatePcb DEF PcbKept

LEMMA SocksUpEventPcb == ASSUME NEW c \in Client PROVE SocksUpEvent(c).pcb = c.pcb
<1> DEFINE b == ASSERT(c, ~c.socks_up /\ ~c.socks_closed)
           a == [b EXCEPT !.socks_up = TRUE, !.rbuf = <<>>, !.pending = 0,
                          !.cb = IF c.client_closed THEN @ ELSE @ \cup {"sent"}]
           d == IF a.buf # <<>> THEN client_send_to_socks(a) ELSE a
<1>1. b \in Client /\ b.pcb = c.pcb
  BY DEF ASSERT, Client
<1> HIDE DEF b
<1>2. a \in Client
  BY <1>1, UpType
<1>3. a.pcb = c.pcb
  BY <1>1 DEF Client
<1> HIDE DEF a
<1>4. d \in Client /\ d.pcb = c.pcb
  BY <1>2, <1>3, client_send_to_socksType, client_send_to_socksPcb
<1> HIDE DEF d
<1>5. SocksUpEvent(c) \in {d, client_socks_recv_initiate(d)}
  BY DEF SocksUpEvent, a, b, d
<1> QED
  BY <1>4, <1>5, client_socks_recv_initiatePcb

LEMMA client_recv_funcPcb ==
    ASSUME NEW c \in Client, NEW data \in Seq(Nat) PROVE client_recv_func(c, data).pcb = c.pcb
<1> DEFINE a == ASSERT(c, ~c.client_closed)
           d == [a EXCEPT !.buf = @ \o data]
<1>1. a \in Client /\ a.pcb = c.pcb
  BY DEF ASSERT, Client
<1> HIDE DEF a
<1>2. ASSERT(a, FALSE).pcb = c.pcb
  BY <1>1 DEF ASSERT, Client
<1>3. d.pcb = c.pcb /\ client_send_to_socks(d).pcb = c.pcb
  BY <1>1 DEF client_send_to_socks, ASSERT, Client
<1> HIDE DEF d
<1>4. client_recv_func(c, data) \in {ASSERT(a, FALSE), d, client_send_to_socks(d)}
  BY DEF client_recv_func, a, d
<1> QED
  BY <1>2, <1>3, <1>4

\* client_sent_func() closes the pcb only if the app has acknowledged everything.
LEMMA client_sent_funcPcb ==
    ASSUME NEW c \in Client, NEW len \in Nat, NEW oom \in BOOLEAN
    PROVE  \/ PcbKept(c, client_sent_func(c, len, oom))
           \/ c.rbuf = <<>> /\ c.pending - len = 0
<1> DEFINE f == [c EXCEPT !.pending = @ - len]
           a == ASSERT(f, ~c.client_closed /\ c.socks_up /\ len <= c.pending)
           e == [ASSERT(a, a.waiting) EXCEPT !.waiting = FALSE]
           b == client_socks_recv_send_out(e, oom, FALSE)
           d == IF b.client_closed THEN b ELSE ASSERT(b, b.pending > 0)
<1>1. f \in Client
  BY DEF Client
<1>2. f.pcb = c.pcb /\ f.rbuf = c.rbuf /\ f.pending = c.pending - len
  BY DEF Client
<1> HIDE DEF f
<1>3. a \in Client /\ a.pcb = c.pcb /\ a.rbuf = c.rbuf /\ a.pending = f.pending
  BY <1>1, <1>2 DEF ASSERT, Client
<1> HIDE DEF a
<1>4. e \in Client /\ e.pcb = c.pcb
  BY <1>3 DEF ASSERT, Client
<1> HIDE DEF e
<1>5. b \in Client /\ PcbKept(c, b)
  BY <1>4, client_socks_recv_send_outType, client_socks_recv_send_outPcb DEF PcbKept
<1> HIDE DEF b
<1>6. d \in Client /\ d.pcb = b.pcb
  BY <1>5 DEF ASSERT, Client
<1> HIDE DEF d
<1>7. \/ client_sent_func(c, len, oom) \in {a, d, client_socks_recv_initiate(d)}
      \/ a.rbuf = <<>> /\ a.pending = 0
  BY DEF client_sent_func, f, a, e, b, d
<1> QED
  BY <1>2, <1>3, <1>5, <1>6, <1>7, client_socks_recv_initiatePcb DEF PcbKept

Closing == {"CLOSING", "TIME_WAIT", "TO_FREE"}

\* What CloseAfterDelivery says of connection i.
DeliveredAt(i) ==
    Open(cl[i]) /\ InHand(i).stage # "fin" /\ cl'[i].pcb \in Closing
        => net'[i].app_got = net'[i].srv_sent

\* An open client's pcb is not closing, nor does a step on another connection close it.
LEMMA NotClosing ==
    ASSUME TypeOK, Ownership, NEW i \in Clients, NEW j \in Clients, NEW d,
           cl' = [cl EXCEPT ![j] = d], j = i /\ Open(cl[i]) => d.pcb \notin Closing
    PROVE  DeliveredAt(i)
<1>1. Open(cl[i]) => cl[i].pcb \notin Closing
  BY DEF Ownership, Owned, Closing
<1>2. cl'[i] = IF i = j THEN d ELSE cl[i]
  BY DEF TypeOK
<1> QED
  BY <1>1, <1>2 DEF DeliveredAt

LEMMA OpenPcb ==
    ASSUME TypeOK, Ownership, NEW i \in Clients, Open(cl[i])
    PROVE  cl[i] \in Client /\ cl[i].pcb \in {"ESTABLISHED", "CLOSE_WAIT"}
BY DEF TypeOK, Ownership, Owned

\* Nothing is on its way to the app any more.
LEMMA AllDelivered ==
    ASSUME NEW c \in Client, NEW held, NEW acked \in Nat, NEW nt \in Net,
           Flows(c, held, acked, nt),
           ~c.socks_up \/ (c.rbuf = <<>> /\ c.pending <= acked)
    PROVE  nt.app_got = nt.srv_sent
<1>1. c.sndq \in Seq(Nat) /\ c.rbuf \in Seq(Nat) /\ c.pending \in Int
  BY DEF Client, Buffer
<1>2. Len(c.sndq) \in Nat /\ Len(c.rbuf) \in Nat
  BY <1>1
<1>3. Len(c.sndq) = 0 /\ Len(c.rbuf) = 0
  BY <1>1, <1>2 DEF Flows, Pending
<1>4. nt.app_got + Len(c.sndq) + Len(c.rbuf) = nt.srv_sent /\ nt.app_got \in Nat
  BY DEF Flows, Downward, Net
<1> QED
  BY <1>3, <1>4

LEMMA GoOnPcb ==
    ASSUME NEW i, NEW c \in Client, NEW in, NEW before, GoOn(i, c, in, before)
    PROVE  \E d : cl' = [cl EXCEPT ![i] = d] /\ (d.pcb = c.pcb \/ d.pcb = "FREED")
<1> DEFINE stop == \/ c.dead = "aborted"
                   \/ c.pcb = "TO_FREE" /\ (before \/ Rest(in) = NoInput)
                   \/ c.pcb \in {"CLOSING", "TIME_WAIT"} /\ before /\ in.len > 0
           d == DeadLeave(IF stop THEN tcp_abort(c) ELSE c)
<1>1. cl' = [cl EXCEPT ![i] = d]
  BY DEF GoOn
<1>2. d.pcb = c.pcb \/ d.pcb = "FREED"
  BY DEF DeadLeave, tcp_abort, Client
<1> HIDE DEF d
<1> QED
  BY <1>1, <1>2

LEMMA GoOnDelivered ==
    ASSUME TypeOK, Ownership, NEW i \in Clients, NEW j \in Clients, NEW c \in Client, NEW in,
           NEW before, GoOn(j, c, in, before), j = i /\ Open(cl[i]) => c.pcb \notin Closing
    PROVE  DeliveredAt(i)
<1>1. PICK d : cl' = [cl EXCEPT ![j] = d] /\ (d.pcb = c.pcb \/ d.pcb = "FREED")
  BY GoOnPcb
<1>2. j = i /\ Open(cl[i]) => d.pcb \notin Closing
  BY <1>1 DEF Closing
<1> QED
  BY <1>1, <1>2, NotClosing

LEMMA ReceivePcb ==
    ASSUME NEW c \in Client, c.pcb \in {"ESTABLISHED", "CLOSE_WAIT"}, NEW n, NEW f \in BOOLEAN
    PROVE  Receive(c, n, f).pcb \in {"ESTABLISHED", "CLOSE_WAIT"}
BY DEF Receive, Client

LEMMA JobDelivered ==
    ASSUME TypeOK, Ownership, NEW i \in Clients, NEW j \in Clients, NEW c \in Client,
           NEW stages, Job(j, stages, c), j = i /\ Open(cl[i]) => c.pcb \notin Closing
    PROVE  DeliveredAt(i)
<1> DEFINE d == IF Idle /\ c.pcb = "TO_FREE" THEN tcp_abort(c) ELSE c
<1>1. cl' = [cl EXCEPT ![j] = d]
  BY DEF Job
<1>2. d.pcb = c.pcb \/ d.pcb = "FREED"
  BY DEF tcp_abort, Client
<1> HIDE DEF d
<1>3. j = i /\ Open(cl[i]) => d.pcb \notin Closing
  BY <1>2 DEF Closing
<1> QED
  BY <1>1, <1>3, NotClosing

LEMMA SegmentDelivered ==
    ASSUME TypeOK, Ownership, NEW i \in Clients, NEW j \in Clients, NEW a \in Nat, NEW n \in Nat,
           NEW f \in BOOLEAN, listener_accept_func(j, n, f) \/ SegmentArrives(j, a, n, f)
    PROVE  DeliveredAt(i)
<1>1. CASE listener_accept_func(j, n, f)
  <2>1. cl' = [cl EXCEPT ![j] = AcceptedSlot]
    BY <1>1 DEF listener_accept_func, Sync
  <2>2. AcceptedSlot.pcb \notin Closing
    BY DEF AcceptedSlot, Slot, Closing
  <2> QED
    BY <2>1, <2>2, NotClosing
<1>2. CASE SegmentArrives(j, a, n, f)
  <2> DEFINE q == Drop(cl[j].sndq, a)
             c == [cl[j] EXCEPT !.sndq = q]
             d == Receive(c, n, f)
  <2>1. cl' = [cl EXCEPT ![j] = d] /\ cl[j].pcb \in {"ESTABLISHED", "CLOSE_WAIT"}
    BY <1>2 DEF SegmentArrives
  <2>2. cl[j] \in Client /\ cl[j].sndq \in Buffer(SndBuf)
    BY DEF TypeOK, Client
  <2>3. q \in Buffer(SndBuf)
    BY <2>2, DropBuffer, SizesAreNatural
  <2> HIDE DEF q
  <2>4. c \in Client /\ c.pcb = cl[j].pcb
    BY <2>2, <2>3 DEF Client
  <2> HIDE DEF c
  <2>5. d.pcb \notin Closing
    BY <2>1, <2>4, ReceivePcb DEF Closing
  <2> HIDE DEF d
  <2> QED
    BY <2>1, <2>5, NotClosing
<1> QED
  BY <1>1, <1>2

LEMMA InputDelivered ==
    ASSUME TypeOK, Ownership, FlowInv, NEW i \in Clients,
           SyncCommit \/ RecvEvent \/ FinEvent
    PROVE  DeliveredAt(i)
<1> DEFINE j == input.conn
           c == cl[j]
<1>1. ~Idle
  BY DEF SyncCommit, RecvEvent, FinEvent, Idle
<1>2. input \in Segment /\ j \in Clients /\ c \in Client /\ input.len \in Nat
      /\ input.fin \in BOOLEAN
  BY <1>1, BusyType DEF Segment
<1>3. j = i /\ Open(cl[i]) => c.pcb \in {"ESTABLISHED", "CLOSE_WAIT"}
  BY OpenPcb
<1>4. CASE SyncCommit
  <2> DEFINE d == IF c.dead = "aborted" THEN c ELSE Receive(c, input.len, input.fin)
  <2>1. d \in Client
    BY <1>2, ReceiveType
  <2>2. j = i /\ Open(cl[i]) => d.pcb \notin Closing /\ c.pcb \notin Closing
    BY <1>2, <1>3, ReceivePcb DEF Closing
  <2>3. \/ GoOn(j, d, input, TRUE)
        \/ GoOn(j, c, input, TRUE)
        \/ GoOn(j, c, input, FALSE)
    BY <1>4 DEF SyncCommit
  <2> HIDE DEF c, d
  <2>4. CASE GoOn(j, d, input, TRUE)
    BY <1>2, <2>1, <2>2, <2>4, GoOnDelivered
  <2>5. CASE GoOn(j, c, input, TRUE) \/ GoOn(j, c, input, FALSE)
    BY <1>2, <2>2, <2>5, GoOnDelivered
  <2> QED
    BY <2>3, <2>4, <2>5
<1>5. CASE RecvEvent
  <2> DEFINE b == tcp_recved(c, input.len)
             e == DeadEnter(c)
             data == Bytes(net[j].app_sent, input.len)
             d == client_recv_func(e, data)
             rest == [input EXCEPT !.len = 0]
  <2>1. b \in Client /\ b.pcb = c.pcb
    BY <1>2, tcp_recvedType DEF tcp_recved, Client
  <2>2. e \in Client /\ e.pcb = c.pcb
    BY <1>2, DeadType DEF DeadEnter, Client
  <2>3. data \in Seq(Nat)
    BY <1>2, BytesAreASequence DEF TypeOK, Net
  <2>4. \/ GoOn(j, b, rest, FALSE)
        \/ GoOn(j, d, rest, FALSE)
        \/ Sync(j, d, rest, "recvsync")
    BY <1>5 DEF RecvEvent
  <2> HIDE DEF b, e, data
  <2>5. d \in Client /\ d.pcb = c.pcb
    BY <2>2, <2>3, client_recv_funcType, client_recv_funcPcb
  <2> HIDE DEF d
  <2>6. j = i /\ Open(cl[i]) => b.pcb \notin Closing /\ d.pcb \notin Closing
    BY <1>3, <2>1, <2>5 DEF Closing
  <2>7. CASE GoOn(j, b, rest, FALSE) \/ GoOn(j, d, rest, FALSE)
    BY <1>2, <2>1, <2>5, <2>6, <2>7, GoOnDelivered
  <2>8. CASE Sync(j, d, rest, "recvsync")
    BY <1>2, <2>6, <2>8, NotClosing DEF Sync
  <2> QED
    BY <2>4, <2>7, <2>8
<1>6. CASE FinEvent
  <2>1. InHand(j).stage = "fin"
    BY <1>6 DEF FinEvent, InHand
  <2>2. \E d : cl' = [cl EXCEPT ![j] = d]
    BY <1>6 DEF FinEvent, GoOn
  <2>3. CASE j = i
    BY <2>1, <2>3 DEF DeliveredAt
  <2>4. CASE j # i
    BY <1>2, <2>2, <2>4, NotClosing
  <2> QED
    BY <2>3, <2>4
<1> QED
  BY <1>4, <1>5, <1>6

LEMMA SentDelivered ==
    ASSUME TypeOK, Ownership, FlowInv, NEW i \in Clients, NEW oom \in BOOLEAN, SentEvent(oom)
    PROVE  DeliveredAt(i)
<1> DEFINE j == input.conn
           c == cl[j]
           e == DeadEnter(c)
           d == client_sent_func(e, input.acked, oom)
           rest == [input EXCEPT !.acked = 0]
<1>1. ~Idle
  BY DEF SentEvent, Idle
<1>2. j \in Clients /\ c \in Client /\ input.acked \in Nat /\ FlowAt(c, input, net[j])
      /\ net[j] \in Net
  BY <1>1, BusyType, BusyFlow
<1>3. j = i /\ Open(cl[i]) => c.pcb \notin Closing
  BY OpenPcb DEF Closing
<1>4. e \in Client /\ e.pcb = c.pcb /\ e.rbuf = c.rbuf /\ e.pending = c.pending
  BY <1>2, DeadType DEF DeadEnter, Client
<1>5. net' = net /\ (GoOn(j, c, rest, TRUE) \/ GoOn(j, d, rest, TRUE) \/ Sync(j, d, rest, "sentsync"))
  BY DEF SentEvent
<1>6. ASSUME ~(j = i /\ Open(cl[i]) => d.pcb \notin Closing) PROVE DeliveredAt(i)
  <2>1. j = i /\ Open(c) /\ d.pcb \in Closing
    BY <1>6
  <2>2. ~PcbKept(e, d)
    BY <1>3, <1>4, <2>1 DEF PcbKept, Closing
  <2>3. e.rbuf = <<>> /\ e.pending - input.acked = 0
    BY <1>2, <1>4, <2>2, client_sent_funcPcb
  <2>4. c.rbuf = <<>> /\ c.pending <= input.acked
    <3>1. c.pending \in Int
      BY <1>2 DEF Client
    <3> QED
      BY <1>2, <1>4, <2>3, <3>1
  <2>5. Flows(c, Held(input), input.acked, net[j])
    BY <1>2, <2>1 DEF FlowAt, Flow
  <2>6. net[j].app_got = net[j].srv_sent
    BY <1>2, <2>4, <2>5, AllDelivered
  <2> QED
    BY <1>5, <2>1, <2>6 DEF DeliveredAt
<1>7. ASSUME j = i /\ Open(cl[i]) => d.pcb \notin Closing PROVE DeliveredAt(i)
  <2>1. d \in Client
    BY <1>2, <1>4, client_sent_funcType
  <2> HIDE DEF d, e, rest
  <2>2. CASE GoOn(j, c, rest, TRUE)
    BY <1>2, <1>3, <2>2, GoOnDelivered
  <2>3. CASE GoOn(j, d, rest, TRUE)
    BY <1>2, <1>7, <2>1, <2>3, GoOnDelivered
  <2>4. CASE Sync(j, d, rest, "sentsync")
    BY <1>2, <1>7, <2>4, NotClosing DEF Sync
  <2> QED
    BY <1>5, <2>2, <2>3, <2>4
<1> QED
  BY <1>6, <1>7

LEMMA AppDelivered ==
    ASSUME TypeOK, Ownership, NEW i \in Clients, NEW j \in Clients,
           PcbDies(j) \/ (\E a \in Nat : OrphanAck(j, a)) \/ OrphanGone(j)
    PROVE  DeliveredAt(i)
<1>1. cl[j] \in Client
  BY DEF TypeOK
<1>2. CASE PcbDies(j)
  <2> DEFINE d == RemoveCallbacks(tcp_abort(cl[j]))
             e == IF "err" \in cl[j].cb THEN client_handle_freed_client(d) ELSE d
  <2>1. d \in Client /\ d.pcb = "FREED"
    BY <1>1, tcp_abortType, RemoveCallbacksType DEF tcp_abort, RemoveCallbacks, Client
  <2>2. cl' = [cl EXCEPT ![j] = e]
    BY <1>2 DEF PcbDies
  <2> HIDE DEF d
  <2>3. e.pcb \notin Closing
    BY <2>1, client_handle_freed_clientPcb DEF Closing
  <2> HIDE DEF e
  <2> QED
    BY <2>2, <2>3, NotClosing
<1>3. CASE (\E a \in Nat : OrphanAck(j, a)) \/ OrphanGone(j)
  <2>1. cl[j].pcb \in {"CLOSING", "TIME_WAIT"} /\ \E d : cl' = [cl EXCEPT ![j] = d]
    BY <1>3 DEF OrphanAck, OrphanGone
  <2>2. ~(j = i /\ Open(cl[i]))
    BY <2>1, OpenPcb
  <2> QED
    BY <2>1, <2>2, NotClosing
<1> QED
  BY <1>2, <1>3

LEMMA SocksDelivered ==
    ASSUME TypeOK, Ownership, FlowInv, NEW i \in Clients, NEW j \in Clients,
           SocksUp(j) \/ SocksEof(j) \/ SocksError(j)
    PROVE  DeliveredAt(i)
<1> DEFINE c == cl[j]
           a == ASSERT(c, c.socks_up)
           d == client_free_socks(c)
           held == Held(InHand(j))
           acked == InHand(j).acked
<1>1. /\ c \in Client /\ net[j] \in Net /\ acked \in Nat /\ Flow(c, held, acked, net[j])
  BY JobFinds
<1>2. j = i /\ Open(cl[i]) => c.pcb \notin Closing
  BY OpenPcb DEF Closing
<1>3. CASE SocksUp(j)
  <2>1. Job(j, {"acceptsync"}, SocksUpEvent(c))
    BY <1>3 DEF SocksUp
  <2>2. SocksUpEvent(c) \in Client /\ SocksUpEvent(c).pcb = c.pcb
    BY <1>1, SocksUpEventType, SocksUpEventPcb
  <2> QED
    BY <1>2, <2>1, <2>2, JobDelivered
<1>4. CASE SocksEof(j) \/ SocksError(j)
  <2>1. SocksEof(j) => a = c
    BY <1>1 DEF SocksEof, Flow, Steady, Streams, ASSERT, Client
  <2>2. net' = net /\ \E stages : Job(j, stages, d)
    BY <1>4, <2>1 DEF SocksEof, SocksError
  <2>3. d \in Client
    BY <1>1, client_free_socksType
  <2>4. ASSUME j = i /\ Open(cl[i]) => d.pcb \notin Closing PROVE DeliveredAt(i)
    <3> HIDE DEF d
    <3> QED
      BY <2>2, <2>3, <2>4, JobDelivered
  <2>5. ASSUME ~(j = i /\ Open(cl[i]) => d.pcb \notin Closing) PROVE DeliveredAt(i)
    <3>1. j = i /\ Open(c) /\ d.pcb \in Closing
      BY <2>5
    <3>2. ~PcbKept(c, d)
      BY <1>2, <3>1 DEF PcbKept, Closing
    <3>3. ~c.socks_up \/ (c.rbuf = <<>> /\ ~(c.pending > 0))
      BY <1>1, <3>1, <3>2, client_free_socksPcb DEF Open
    <3>4. Flows(c, held, acked, net[j])
      BY <1>1, <3>1 DEF Flow
    <3>5. ~(c.pending > 0) => c.pending <= acked
      <4>1. c.pending \in Int
        BY <1>1 DEF Client
      <4> QED
        BY <1>1, <4>1
    <3> HIDE DEF held, acked
    <3>6. net[j].app_got = net[j].srv_sent
      BY <1>1, <3>3, <3>4, <3>5, AllDelivered
    <3> QED
      BY <2>2, <3>1, <3>6 DEF DeliveredAt
  <2> QED
    BY <2>4, <2>5
<1> QED
  BY <1>3, <1>4

LEMMA StreamDelivered ==
    ASSUME TypeOK, Ownership, NEW i \in Clients, NEW j \in Clients,
           \/ \E n \in Nat : SendDone(j, n)
           \/ \E n \in 1..SocksRecvBuf, oom, fail \in BOOLEAN : RecvDone(j, n, oom, fail)
    PROVE  DeliveredAt(i)
<1> DEFINE c == cl[j]
<1>1. c \in Client
  BY DEF TypeOK
<1>2. j = i /\ Open(cl[i]) => c.pcb \notin Closing /\ ~c.client_closed
  BY OpenPcb DEF Closing, Open
<1>3. ASSUME NEW n \in Nat, SendDone(j, n) PROVE DeliveredAt(i)
  <2> DEFINE d == client_socks_send_handler_done(c, n)
  <2>1. Job(j, {"acceptsync", "recvsync"}, d)
    BY <1>3 DEF SendDone
  <2>2. d \in Client /\ (~c.client_closed => d.pcb = c.pcb)
    BY <1>1, client_socks_send_handler_doneType, client_socks_send_handler_donePcb
  <2> HIDE DEF d
  <2> QED
    BY <1>2, <2>1, <2>2, JobDelivered
<1>4. ASSUME NEW n \in 1..SocksRecvBuf, NEW oom \in BOOLEAN, NEW fail \in BOOLEAN,
             RecvDone(j, n, oom, fail)
      PROVE  DeliveredAt(i)
  <2> DEFINE data == Bytes(net[j].srv_sent, n)
             d == client_socks_recv_handler_done(c, data, oom, fail)
  <2>1. Job(j, {"acceptsync", "sentsync"}, d)
    BY <1>4 DEF RecvDone
  <2>2. data \in Buffer(SocksRecvBuf)
    <3>1. n \in Nat /\ n <= SocksRecvBuf
      BY SizesAreNatural
    <3> QED
      BY <3>1, BytesAreASequence DEF TypeOK, Net, Buffer
  <2> HIDE DEF data
  <2>3. d \in Client /\ PcbKept(c, d)
    BY <1>1, <2>2, client_socks_recv_handler_doneType, client_socks_recv_handler_donePcb
  <2> HIDE DEF d
  <2>4. j = i /\ Open(cl[i]) => d.pcb \notin Closing
    BY <1>2, <2>3 DEF PcbKept, Closing
  <2> QED
    BY <2>1, <2>3, <2>4, JobDelivered
<1> QED
  BY <1>3, <1>4

LEMMA TerminateDelivered ==
    ASSUME TypeOK, Ownership, NEW i \in Clients, Terminate PROVE DeliveredAt(i)
<1> SUFFICES ASSUME Open(cl[i]) PROVE cl'[i].pcb \notin Closing
  BY DEF DeliveredAt
<1>1. cl[i] \in Client /\ cl[i].alloc /\ ~cl[i].client_closed
  BY OpenPcb DEF Open
<1>2. cl'[i] = client_murder(cl[i])
  BY <1>1 DEF Terminate
<1> QED
  BY <1>1, <1>2, client_murderPcb DEF Closing

LEMMA NextDelivered ==
    ASSUME TypeOK, Ownership, FlowInv, NEW i \in Clients, [Next]_vars PROVE DeliveredAt(i)
<1>1. CASE TcpInputStep
  BY <1>1, InputDelivered, SentDelivered DEF TcpInputStep
<1>2. ASSUME NEW j \in Clients, App(j) PROVE DeliveredAt(i)
  <2>1. \A n : n \in 0..TcpWnd \/ n \in 0..SndBuf \/ n \in 1..SndBuf => n \in Nat
    BY SizesAreNatural
  <2>2. 0 \in Nat
    OBVIOUS
  <2> QED
    BY <1>2, <2>1, <2>2, SegmentDelivered, AppDelivered DEF App
<1>3. ASSUME NEW j \in Clients, Socks(j) PROVE DeliveredAt(i)
  <2>1. \A n \in 1..TcpWnd : n \in Nat
    BY SizesAreNatural
  <2> QED
    BY <1>3, <2>1, StreamDelivered, SocksDelivered DEF Socks
<1>4. CASE Terminate
  BY <1>4, TerminateDelivered
<1>5. CASE UNCHANGED vars
  <2>1. cl'[i] = cl[i]
    BY <1>5 DEF vars
  <2>2. Open(cl[i]) => cl[i].pcb \notin Closing
    BY OpenPcb DEF Closing
  <2> QED
    BY <2>1, <2>2 DEF DeliveredAt
<1> QED
  BY <1>1, <1>2, <1>3, <1>4, <1>5 DEF Next, Exited

\* Unless the app's FIN came first, the relay closes the connection to the app only
\* after the app has acknowledged every byte the server sent.
THEOREM ClosesAfterDelivery == Spec => CloseAfterDelivery
<1>1. TypeOK /\ Ownership /\ FlowInv /\ [Next]_vars =>
        [\A i \in Clients :
           Open(cl[i]) /\ InHand(i).stage # "fin" /\ cl'[i].pcb \in {"CLOSING", "TIME_WAIT", "TO_FREE"}
              => net'[i].app_got = net'[i].srv_sent]_vars
  BY NextDelivered DEF DeliveredAt, Closing
<1> QED
  BY <1>1, TypeCorrect, OwnershipHolds, FlowHolds, PTL DEF Spec, CloseAfterDelivery
=============================================================================
