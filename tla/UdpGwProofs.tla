----------------------------- MODULE UdpGwProofs -----------------------------
(***************************************************************************)
(* Proofs about UdpGw, for any sets of addresses, any number of            *)
(* connections and any sizes.  Packets from the device, whichever of the   *)
(* four ways they take, change the queues only in connection_send, so that *)
(* this has a lemma for each part of the invariant; every other action     *)
(* has a step in each theorem.                                             *)
(***************************************************************************)
EXTENDS UdpGw, SequenceTheorems, TLAPS

-----------------------------------------------------------------------------
(* The pipe *)

LEMMA ConidsAreIntegers == /\ Conids \subseteq Int /\ 0 \in Conids
                           /\ MaxConnections \in Nat \ {0}
                           /\ NoFlow \notin Conids /\ KeepaliveFlow \notin Conids
                           /\ NoFlow # KeepaliveFlow
BY SizesAssumption, NamesAssumption DEF Conids, MaxConnections

LEMMA WaitingFlows ==
    ASSUME NEW q, NEW k
    PROVE  /\ Waiting(q, k) \subseteq Conids \cup {KeepaliveFlow}
           /\ NoFlow \notin Waiting(q, k)
BY ConidsAreIntegers DEF Waiting

LEMMA PassPipe ==
    ASSUME NEW p \in Pipe, NEW f \in Conids \cup {KeepaliveFlow}
    PROVE  /\ Pass(p, f) \in Pipe
           /\ Pass(p, f).sending = f /\ Pass(p, f).output = p.output /\ ~Pass(p, f).timer
           /\ Pass(p, f).stream # "idle" <=> p.output
BY DEF Pass, Pipe

LEMMA FinishedPipe ==
    ASSUME NEW p \in Pipe
    PROVE  /\ Finished(p) \in Pipe
           /\ Finished(p).sending = NoFlow /\ Finished(p).output = p.output
           /\ Finished(p).timer /\ Finished(p).stream = "idle"
BY DEF Finished, Pipe

LEMMA ConnectPipe ==
    ASSUME NEW p \in Pipe
    PROVE  /\ ConnectOutput(p) \in Pipe /\ ConnectOutput(p).output
           /\ ConnectOutput(p).sending = p.sending /\ ConnectOutput(p).timer = p.timer
           /\ ConnectOutput(p).stream # "idle" <=> p.sending # NoFlow
BY DEF ConnectOutput, Pipe

LEMMA DisconnectPipe ==
    ASSUME NEW p \in Pipe
    PROVE  /\ DisconnectOutput(p) \in Pipe /\ ~DisconnectOutput(p).output
           /\ DisconnectOutput(p).sending = p.sending /\ DisconnectOutput(p).timer = p.timer
           /\ DisconnectOutput(p).stream = "idle"
BY DEF DisconnectOutput, Pipe

\* A pipe whose stages agree with each other and, where it has a packet, with a queue.
Consistent(p, q, k) ==
    /\ p.sending # NoFlow => p.sending \in Waiting(q, k)
    /\ p.stream # "idle" <=> p.output /\ p.sending # NoFlow
    /\ p.timer <=> p.sending = NoFlow

\* ... and that has a packet when there is one.
Busy(p, q, k) == Consistent(p, q, k) /\ (p.sending = NoFlow => Waiting(q, k) = {})

LEMMA SchedulePipe ==
    ASSUME NEW p \in Pipe, NEW q, NEW k, NEW r \in schedule(p, q, k)
    PROVE  /\ r \in Pipe /\ r.output = p.output
           /\ Consistent(p, q, k) => Busy(r, q, k)
<1>1. CASE p.sending # NoFlow \/ Waiting(q, k) = {}
  BY <1>1 DEF schedule, Busy
<1>2. CASE ~(p.sending # NoFlow \/ Waiting(q, k) = {})
  <2>1. PICK f \in Waiting(q, k) : r = Pass(p, f)
    BY <1>2 DEF schedule
  <2>2. f \in Conids \cup {KeepaliveFlow} /\ f # NoFlow
    BY WaitingFlows
  <2>3. QED BY <2>1, <2>2, PassPipe DEF Busy, Consistent
<1>3. QED BY <1>1, <1>2

-----------------------------------------------------------------------------
(* Types *)

LEMMA MoveToEndType ==
    ASSUME TypeOK, NEW c \in Conids, MoveToEnd(c)
    PROVE  list' \in Seq(Conids)
<1>1. PICK i \in DOMAIN list : list' = Append(RemoveAt(list, i), c)
  BY DEF MoveToEnd
<1>2. list \in Seq(Conids) /\ i \in 1..Len(list)
  BY DEF TypeOK
<1>3. SubSeq(list, 1, i - 1) \in Seq(Conids) /\ SubSeq(list, i + 1, Len(list)) \in Seq(Conids)
  BY <1>2
<1>4. RemoveAt(list, i) \in Seq(Conids)
  BY <1>3 DEF RemoveAt
<1>5. QED BY <1>1, <1>4

\* What connection_send changes keeps its type.
SendTyped ==
    /\ queue' \in [Conids -> Seq(Packet)]
    /\ \A c \in Conids : Len(queue'[c]) <= MaxBuffered
    /\ pipe' \in Pipe
    /\ accepted' \in [Conids -> Nat]
    /\ rebindLost' \subseteq Conids

LEMMA SendTypes ==
    ASSUME TypeOK, NEW c \in Conids, NEW conaddr \in Conaddr, NEW rebind \in BOOLEAN,
           connection_send(c, conaddr, rebind)
    PROVE  SendTyped
<1> DEFINE packet == [conaddr |-> conaddr, rebind |-> rebind, n |-> accepted[c] + 1]
<1>1. PICK fits \in BOOLEAN :
        /\ StartPacket(queue[c], fits)
        /\ queue' = IF fits THEN [queue EXCEPT ![c] = Append(@, packet)] ELSE queue
        /\ accepted' = IF fits THEN [accepted EXCEPT ![c] = @ + 1] ELSE accepted
        /\ rebindLost' = IF rebind /\ ~fits THEN rebindLost \cup {c} ELSE rebindLost
        /\ pipe' \in schedule(pipe, queue', keepalive_sending)
  BY DEF connection_send
<1>2. packet \in Packet
  BY DEF TypeOK, Packet
<1>3. pipe' \in Pipe
  BY <1>1, SchedulePipe DEF TypeOK
<1>4. accepted' \in [Conids -> Nat] /\ rebindLost' \subseteq Conids
  BY <1>1 DEF TypeOK
<1> HIDE DEF packet
<1>5. CASE fits
  <2>1. queue[c] \in Seq(Packet) /\ Len(queue[c]) <= MaxBuffered /\ Len(queue[c]) # MaxBuffered
    BY <1>1, <1>5 DEF TypeOK, StartPacket
  <2>2. Append(queue[c], packet) \in Seq(Packet) /\ Len(Append(queue[c], packet)) <= MaxBuffered
    BY <2>1, <1>2, SizesAssumption
  <2>3. queue' = [queue EXCEPT ![c] = Append(queue[c], packet)]
    BY <1>1, <1>5
  <2>4. queue' \in [Conids -> Seq(Packet)] /\ \A d \in Conids : Len(queue'[d]) <= MaxBuffered
    BY <2>2, <2>3 DEF TypeOK
  <2>5. QED BY <2>4, <1>3, <1>4 DEF SendTyped
<1>6. CASE ~fits
  <2>1. queue' = queue
    BY <1>1, <1>6
  <2>2. QED BY <2>1, <1>3, <1>4 DEF SendTyped, TypeOK
<1>7. QED BY <1>5, <1>6

LEMMA SubmitTypes ==
    ASSUME TypeOK, NEW conaddr \in Conaddr, SubmitPacket(conaddr)
    PROVE  TypeOK'
<1>1. ASSUME NEW c \in Conids, NEW rebind \in BOOLEAN,
             connection_send(c, conaddr, rebind),
             con' \in [Conids -> Conaddr \cup {NoAddr}], by_conaddr' \subseteq Conaddr \X Conids,
             list' \in Seq(Conids), next_conid' \in Conids
      PROVE  TypeOK'
  <2>1. SendTyped
    BY <1>1, SendTypes
  <2>2. UNCHANGED <<keepalive_sending, have_server, link, freed, answers, server, written>>
    BY <1>1 DEF connection_send
  <2>3. QED BY <1>1, <2>1, <2>2 DEF TypeOK, SendTyped
<1>2. CASE SubmitToConnection(conaddr)
  <2>1. PICK c \in Conids : /\ MoveToEnd(c) /\ connection_send(c, conaddr, FALSE)
                            /\ UNCHANGED <<con, by_conaddr, next_conid>>
    BY <1>2 DEF SubmitToConnection, find_connection_by_conaddr
  <2>2. list' \in Seq(Conids)
    BY <2>1, MoveToEndType
  <2>3. QED BY <2>1, <2>2, <1>1 DEF TypeOK
<1>3. CASE SubmitByReuse(conaddr)
  <2> DEFINE c == Head(list)
  <2>1. /\ by_conaddr' = (by_conaddr \ {<<con[c], c>>}) \cup {<<conaddr, c>>}
        /\ con' = [con EXCEPT ![c] = conaddr]
        /\ MoveToEnd(c) /\ connection_send(c, conaddr, TRUE)
        /\ next_conid' = next_conid
    BY <1>3 DEF SubmitByReuse, reuse_connection
  <2>2. c \in Conids
    BY <1>3, ConidsAreIntegers DEF SubmitByReuse, TypeOK
  <2>3. list' \in Seq(Conids)
    BY <2>1, <2>2, MoveToEndType
  <2>4. con' \in [Conids -> Conaddr \cup {NoAddr}] /\ by_conaddr' \subseteq Conaddr \X Conids
    BY <2>1, <2>2 DEF TypeOK
  <2>5. QED BY <2>1, <2>2, <2>3, <2>4, <1>1 DEF TypeOK
<1>4. CASE SubmitToNew(conaddr) /\ connection_init(conaddr)
  <2>1. PICK c \in Conids : /\ con' = [con EXCEPT ![c] = conaddr]
                            /\ by_conaddr' = by_conaddr \cup {<<conaddr, c>>}
                            /\ list' = Append(list, c) /\ next_conid' = c
                            /\ connection_send(c, conaddr, TRUE)
    BY <1>4 DEF connection_init, find_unused_conid
  <2>2. con' \in [Conids -> Conaddr \cup {NoAddr}] /\ by_conaddr' \subseteq Conaddr \X Conids
    BY <2>1 DEF TypeOK
  <2>3. list' \in Seq(Conids)
    BY <2>1 DEF TypeOK
  <2>4. QED BY <2>1, <2>2, <2>3, <1>1
<1>5. CASE SubmitToNew(conaddr) /\ connection_init_fails
  BY <1>5 DEF connection_init_fails, find_unused_conid, TypeOK
<1>6. QED BY <1>2, <1>3, <1>4, <1>5 DEF SubmitPacket, SubmitToNew

LEMMA HeadAndTail ==
    ASSUME NEW S, NEW s \in Seq(S), s # <<>>
    PROVE  Head(s) \in S /\ Tail(s) \in Seq(S)
OBVIOUS

LEMMA LongerByOne ==
    ASSUME NEW S, NEW s \in Seq(S), NEW e \in S
    PROVE  /\ Append(s, e) \in Seq(S) /\ Append(s, e) # <<>>
           /\ Len(Append(s, e)) = Len(s) + 1
           /\ Append(s, e)[Len(s) + 1] = e
           /\ \A i \in DOMAIN Append(s, e) : i = Len(s) + 1 \/ i \in DOMAIN s
           /\ \A i \in DOMAIN s : Append(s, e)[i] = s[i]
OBVIOUS

LEMMA ShorterByOne ==
    ASSUME NEW S, NEW s \in Seq(S), s # <<>>
    PROVE  /\ Len(Tail(s)) = Len(s) - 1 /\ Head(s) = s[1] /\ 1 \in DOMAIN s
           /\ \A i \in DOMAIN Tail(s) : i \in Nat /\ i + 1 \in DOMAIN s
                                        /\ Tail(s)[i] = s[i + 1]
OBVIOUS

LEMMA EmptyIsSequence == ASSUME NEW S PROVE <<>> \in Seq(S)
OBVIOUS

LEMMA InitTypes == Init => TypeOK
<1> SUFFICES ASSUME Init PROVE TypeOK
  OBVIOUS
<1>1. pipe \in Pipe
  BY DEF Init, Pipe
<1>2. link \in Link
  BY DEF Init, Link
<1>3. /\ queue \in [Conids -> Seq(Packet)]
      /\ \A c \in Conids : Len(queue[c]) <= MaxBuffered
  BY SizesAssumption DEF Init
<1>4. /\ con \in [Conids -> Conaddr \cup {NoAddr}] /\ server \in [Conids -> Conaddr \cup {NoAddr}]
      /\ by_conaddr \subseteq Conaddr \X Conids /\ list \in Seq(Conids)
      /\ answers \in Seq([conid : Conids, conaddr : Conaddr])
  BY DEF Init
<1>5. QED BY <1>1, <1>2, <1>3, <1>4, ConidsAreIntegers DEF Init, TypeOK

LEMMA NextTypes == TypeOK /\ NothingStalls /\ [Next]_vars => TypeOK'
<1> SUFFICES ASSUME TypeOK, NothingStalls, [Next]_vars PROVE TypeOK'
  OBVIOUS
<1>1. ASSUME NEW conaddr \in Conaddr, SubmitPacket(conaddr) PROVE TypeOK'
  BY <1>1, SubmitTypes
<1>2. CASE WritePart
  <2>1. pipe' \in Pipe
    BY <1>2 DEF WritePart, TypeOK, Pipe
  <2>2. QED BY <1>2, <2>1 DEF WritePart, TypeOK, tables
<1>3. ASSUME NEW c \in Conids, PacketWritten(c) PROVE TypeOK'
  <2>1. pipe' \in Pipe
    BY <1>3, FinishedPipe, SchedulePipe DEF PacketWritten, TypeOK
  <2>2. queue[c] \in Seq(Packet) /\ queue[c] # <<>>
    BY <1>3, ConidsAreIntegers DEF PacketWritten, NothingStalls, Waiting, TypeOK
  <2>3. Head(queue[c]) \in Packet
    BY <2>2
  <2>4. Head(queue[c]).conaddr \in Conaddr /\ Head(queue[c]).n \in Nat
    BY <2>3 DEF Packet
  <2>5. /\ Tail(queue[c]) \in Seq(Packet) /\ Len(Tail(queue[c])) <= MaxBuffered
    BY <2>2, SizesAssumption DEF TypeOK
  <2>6. /\ queue' \in [Conids -> Seq(Packet)]
        /\ \A d \in Conids : Len(queue'[d]) <= MaxBuffered
    BY <1>3, <2>5 DEF PacketWritten, TypeOK
  <2>7. server' \in [Conids -> Conaddr \cup {NoAddr}] /\ written' \in [Conids -> Nat]
    BY <1>3, <2>4 DEF PacketWritten, TypeOK
  <2>8. QED BY <1>3, <2>1, <2>6, <2>7 DEF PacketWritten, TypeOK, tables
<1>4. CASE KeepaliveWritten
  <2>1. pipe' \in Pipe
    BY <1>4, FinishedPipe, SchedulePipe DEF KeepaliveWritten, TypeOK
  <2>2. QED BY <1>4, <2>1 DEF KeepaliveWritten, TypeOK, tables
<1>5. CASE KeepaliveTimer
  <2>1. pipe' \in Pipe
    BY <1>5, SchedulePipe DEF KeepaliveTimer, TypeOK
  <2>2. QED BY <1>5, <2>1 DEF KeepaliveTimer, TypeOK, tables
<1>6. ASSUME NEW c \in Conids, ServerAnswers(c) PROVE TypeOK'
  <2>1. server[c] \in Conaddr
    BY <1>6 DEF ServerAnswers, TypeOK
  <2>2. answers' \in Seq([conid : Conids, conaddr : Conaddr])
    BY <1>6, <2>1 DEF ServerAnswers, TypeOK
  <2>3. QED BY <1>6, <2>2 DEF ServerAnswers, TypeOK, tables
<1>7. CASE Receive
  <2> DEFINE a == Head(answers)
  <2>1. a \in [conid : Conids, conaddr : Conaddr]
    BY <1>7, HeadAndTail DEF Receive, TypeOK
  <2>2. answers' \in Seq([conid : Conids, conaddr : Conaddr])
    BY <1>7, HeadAndTail DEF Receive, TypeOK
  <2>3. list' \in Seq(Conids)
    <3>1. CASE MoveToEnd(a.conid)
      BY <2>1, <3>1, MoveToEndType DEF TypeOK
    <3>2. CASE UNCHANGED list
      BY <3>2 DEF TypeOK
    <3>3. QED BY <1>7, <3>1, <3>2 DEF Receive
  <2>4. QED BY <1>7, <2>2, <2>3 DEF Receive, TypeOK
<1>8. CASE reconnect_timer_handler
  <2>1. link' \in Link
    BY <1>8 DEF reconnect_timer_handler, try_connect, TypeOK, Link
  <2>2. QED BY <1>8, <2>1 DEF reconnect_timer_handler, TypeOK, tables
<1>9. CASE SocksUp
  <2>1. link' \in Link
    BY <1>9 DEF SocksUp, TypeOK, Link
  <2>2. pipe' \in Pipe
    BY <1>9, ConnectPipe DEF SocksUp, TypeOK
  <2>3. QED BY <1>9, <2>1, <2>2 DEF SocksUp, TypeOK, tables
<1>10. CASE SocksUpFails
  <2>1. link' \in Link
    BY <1>10 DEF SocksUpFails, TypeOK, Link
  <2>2. QED BY <1>10, <2>1 DEF SocksUpFails, TypeOK, tables
<1>11. CASE SocksError \/ DecoderError
  <2>1. free_socks
    BY <1>11 DEF SocksError, DecoderError
  <2>2. link' \in Link
    BY <2>1 DEF free_socks, TypeOK, Link
  <2>3. pipe' \in Pipe
    BY <2>1, DisconnectPipe DEF free_socks, TypeOK
  <2>4. have_server' \in BOOLEAN
    <3>1. have_server \in BOOLEAN
      BY DEF TypeOK
    <3>2. QED BY <2>1, <3>1, Zenon DEF free_socks
  <2>5. server' \in [Conids -> Conaddr \cup {NoAddr}]
    <3>1. server' = [c \in Conids |-> NoAddr] \/ server' = server
      BY <2>1 DEF free_socks
    <3>2. QED BY <3>1 DEF TypeOK
  <2>6. answers' \in Seq([conid : Conids, conaddr : Conaddr])
    <3>1. answers \in Seq([conid : Conids, conaddr : Conaddr])
      BY DEF TypeOK
    <3>2. answers' = <<>> \/ answers' = answers
      BY <2>1 DEF free_socks
    <3>3. QED BY <3>1, <3>2, EmptyIsSequence, Zenon
  <2>7. QED BY <2>1, <2>2, <2>3, <2>4, <2>5, <2>6 DEF free_socks, TypeOK, tables
<1>12. CASE Free
  <2>1. link' \in Link
    BY <1>12 DEF Free, TypeOK, Link
  <2>2. pipe' \in Pipe
    BY <1>12 DEF Free, Pipe
  <2>3. /\ queue' \in [Conids -> Seq(Packet)]
        /\ \A d \in Conids : Len(queue'[d]) <= MaxBuffered
    BY <1>12, SizesAssumption DEF Free
  <2>4. /\ con' \in [Conids -> Conaddr \cup {NoAddr}] /\ server' \in [Conids -> Conaddr \cup {NoAddr}]
        /\ by_conaddr' \subseteq Conaddr \X Conids /\ list' \in Seq(Conids)
        /\ answers' \in Seq([conid : Conids, conaddr : Conaddr])
    BY <1>12 DEF Free
  <2>5. QED BY <1>12, <2>1, <2>2, <2>3, <2>4 DEF Free, TypeOK
<1>13. CASE UNCHANGED vars
  BY <1>13 DEF vars, tables, TypeOK
<1>14. QED
  BY <1>1, <1>2, <1>3, <1>4, <1>5, <1>6, <1>7, <1>8, <1>9, <1>10, <1>11, <1>12, <1>13
  DEF Next, Write

-----------------------------------------------------------------------------
(* The link *)

\* After SocksUdpGwClient_Free() there is no server any more.
LinkInv == LinkAgrees /\ (freed => ~have_server)

\* Whichever way a packet takes, it is queued by connection_send, or the memory for its
\* connection was missing.
LEMMA SubmitSends ==
    ASSUME TypeOK, NEW conaddr \in Conaddr, SubmitPacket(conaddr)
    PROVE  \/ \E c \in Conids, rebind \in BOOLEAN : connection_send(c, conaddr, rebind)
           \/ UNCHANGED <<queue, keepalive_sending, pipe, have_server, link, freed, answers,
                          server, accepted, written, rebindLost>>
<1>1. CASE SubmitToConnection(conaddr)
  BY <1>1 DEF SubmitToConnection, find_connection_by_conaddr
<1>2. CASE SubmitByReuse(conaddr)
  <2>1. Head(list) \in Conids
    BY <1>2, ConidsAreIntegers DEF SubmitByReuse, TypeOK
  <2>2. QED BY <1>2, <2>1 DEF SubmitByReuse, reuse_connection
<1>3. CASE SubmitToNew(conaddr)
  BY <1>3 DEF SubmitToNew, connection_init, connection_init_fails, find_unused_conid
<1>4. QED BY <1>1, <1>2, <1>3 DEF SubmitPacket

LEMMA SubmitKeeps ==
    ASSUME TypeOK, NEW conaddr \in Conaddr, SubmitPacket(conaddr)
    PROVE  UNCHANGED <<keepalive_sending, have_server, link, freed, answers, server, written>>
BY SubmitSends DEF connection_send

LEMMA ScheduleKeepsOutput ==
    ASSUME NEW p \in Pipe, NEW q, NEW k, NEW r \in schedule(p, q, k)
    PROVE  r.output = p.output
BY SchedulePipe

LEMMA NextLink == TypeOK /\ LinkInv /\ [Next]_vars => LinkInv'
<1> SUFFICES ASSUME TypeOK, LinkInv, [Next]_vars PROVE LinkInv'
  OBVIOUS
<1> USE DEF LinkInv, LinkAgrees
<1>0. pipe \in Pipe /\ link \in Link
  BY DEF TypeOK
<1>1. ASSUME NEW conaddr \in Conaddr, SubmitPacket(conaddr) PROVE LinkInv'
  <2>1. pipe'.output = pipe.output
    BY <1>0, <1>1, SubmitSends, ScheduleKeepsOutput DEF connection_send
  <2>2. QED BY <1>1, <2>1, SubmitKeeps
<1>2. CASE WritePart
  <2>1. pipe'.output = pipe.output
    BY <1>0, <1>2 DEF WritePart, Pipe
  <2>2. QED BY <1>2, <2>1 DEF WritePart
<1>3. ASSUME NEW c \in Conids, PacketWritten(c) PROVE LinkInv'
  <2>1. pipe'.output = pipe.output
    BY <1>0, <1>3, FinishedPipe, ScheduleKeepsOutput DEF PacketWritten
  <2>2. QED BY <1>3, <2>1 DEF PacketWritten
<1>4. CASE KeepaliveWritten
  <2>1. pipe'.output = pipe.output
    <3>1. pipe' \in schedule(Finished(pipe), queue, FALSE)
      BY <1>4 DEF KeepaliveWritten
    <3>2. Finished(pipe) \in Pipe /\ Finished(pipe).output = pipe.output
      BY <1>0, FinishedPipe
    <3>3. QED BY <3>1, <3>2, ScheduleKeepsOutput
  <2>2. QED BY <1>4, <2>1 DEF KeepaliveWritten
<1>5. CASE KeepaliveTimer
  <2>1. pipe'.output = pipe.output
    BY <1>0, <1>5, ScheduleKeepsOutput DEF KeepaliveTimer
  <2>2. QED BY <1>5, <2>1 DEF KeepaliveTimer
<1>6. CASE Receive \/ \E c \in Conids : ServerAnswers(c)
  <2>1. UNCHANGED <<have_server, link, pipe, freed>>
    BY <1>6 DEF Receive, ServerAnswers
  <2>2. QED BY <2>1
<1>7. CASE reconnect_timer_handler
  <2>1. PICK ok \in BOOLEAN : link' = [link EXCEPT !.have_socks = ok, !.timer = ~ok,
                                        !.socks_up = IF ok THEN FALSE ELSE @]
    BY <1>7 DEF reconnect_timer_handler, try_connect
  <2>2. /\ link'.have_socks = ok /\ link'.timer = ~ok
        /\ ok => ~link'.socks_up
    BY <1>0, <2>1 DEF Link
  <2>3. ~freed /\ ~have_server /\ UNCHANGED <<freed, have_server, pipe>>
    BY <1>7 DEF reconnect_timer_handler
  <2>4. QED BY <2>2, <2>3
<1>8. CASE SocksUp
  <2>1. link'.have_socks /\ link'.socks_up /\ link'.timer = link.timer
    BY <1>0, <1>8 DEF SocksUp, Link
  <2>2. pipe'.output
    BY <1>0, <1>8, ConnectPipe DEF SocksUp
  <2>3. QED BY <1>8, <2>1, <2>2 DEF SocksUp
<1>9. CASE SocksUpFails
  <2>1. ~link'.have_socks /\ link'.timer
    BY <1>0, <1>9 DEF SocksUpFails, Link
  <2>2. QED BY <1>9, <2>1 DEF SocksUpFails
<1>10. CASE SocksError \/ DecoderError
  <2>1. free_socks /\ ~freed /\ link.have_socks
    BY <1>10 DEF SocksError, DecoderError
  <2>2. ~link'.have_socks /\ link'.timer
    BY <1>0, <2>1 DEF free_socks, Link
  <2>3. ~have_server' /\ ~pipe'.output
    BY <1>0, <2>1, DisconnectPipe DEF free_socks
  <2>4. QED BY <2>1, <2>2, <2>3 DEF free_socks
<1>11. CASE Free
  BY <1>11 DEF Free
<1>12. CASE UNCHANGED vars
  BY <1>12 DEF vars
<1>13. QED
  BY <1>1, <1>2, <1>3, <1>4, <1>5, <1>6, <1>7, <1>8, <1>9, <1>10, <1>11, <1>12 DEF Next, Write

-----------------------------------------------------------------------------
(* The packets in the pipe *)

PipeInv == ~freed => Busy(pipe, queue, keepalive_sending)

LEMMA PipeFacts ==
    PipeInv <=> NothingStalls /\ KeepaliveWhenIdle
<1>1. NoFlow \notin Waiting(queue, keepalive_sending)
  BY WaitingFlows
<1>2. QED BY <1>1 DEF PipeInv, Busy, Consistent, NothingStalls, KeepaliveWhenIdle

\* A queue that grows leaves a pipe consistent.
LEMMA GrowingQueue ==
    ASSUME NEW p, NEW q, NEW r, NEW k,
           \A c \in Conids : r[c] = <<>> => q[c] = <<>>,
           Consistent(p, q, k)
    PROVE  Consistent(p, r, k)
<1>1. Waiting(q, k) \subseteq Waiting(r, k)
  BY DEF Waiting
<1>2. QED BY <1>1 DEF Consistent

LEMMA SendPipe ==
    ASSUME TypeOK, PipeInv, ~freed, NEW c \in Conids, NEW conaddr \in Conaddr,
           NEW rebind \in BOOLEAN, connection_send(c, conaddr, rebind)
    PROVE  Busy(pipe', queue', keepalive_sending')
<1> DEFINE packet == [conaddr |-> conaddr, rebind |-> rebind, n |-> accepted[c] + 1]
<1>0. packet \in Packet
  BY DEF Packet, TypeOK
<1>1. PICK fits \in BOOLEAN :
        queue' = IF fits THEN [queue EXCEPT ![c] = Append(@, packet)] ELSE queue
  BY DEF connection_send
<1> HIDE DEF packet
<1>2. ASSUME NEW d \in Conids, queue'[d] = <<>> PROVE queue[d] = <<>>
  <2>1. queue[c] \in Seq(Packet) /\ queue \in [Conids -> Seq(Packet)]
    BY DEF TypeOK
  <2>2. Append(queue[c], packet) # <<>>
    BY <2>1, <1>0, LongerByOne
  <2>3. QED BY <1>1, <1>2, <2>1, <2>2
<1>3. Consistent(pipe, queue', keepalive_sending)
  BY <1>2, GrowingQueue DEF PipeInv, Busy
<1>4. /\ pipe' \in schedule(pipe, queue', keepalive_sending)
      /\ keepalive_sending' = keepalive_sending
  BY DEF connection_send
<1>5. QED BY <1>3, <1>4, SchedulePipe DEF TypeOK

LEMMA NextPipe == TypeOK /\ PipeInv /\ [Next]_vars => PipeInv'
<1> SUFFICES ASSUME TypeOK, PipeInv, [Next]_vars PROVE PipeInv'
  OBVIOUS
<1>0. pipe \in Pipe
  BY DEF TypeOK
<1>1. ASSUME NEW conaddr \in Conaddr, SubmitPacket(conaddr) PROVE PipeInv'
  <2>1. CASE \E c \in Conids, rebind \in BOOLEAN : connection_send(c, conaddr, rebind)
    <3>1. ~freed
      BY <1>1 DEF SubmitPacket
    <3>2. QED BY <2>1, <3>1, SendPipe DEF PipeInv
  <2>2. CASE UNCHANGED <<queue, keepalive_sending, pipe, freed>>
    BY <2>2 DEF PipeInv
  <2>3. QED BY <1>1, <2>1, <2>2, SubmitSends
<1>2. CASE WritePart
  <2>1. /\ pipe'.sending = pipe.sending /\ pipe'.output = pipe.output
        /\ pipe'.timer = pipe.timer /\ pipe.stream # "idle" /\ pipe'.stream # "idle"
    BY <1>0, <1>2 DEF WritePart, Pipe
  <2>2. UNCHANGED <<queue, keepalive_sending, freed>>
    BY <1>2 DEF WritePart
  <2>3. QED BY <2>1, <2>2 DEF PipeInv, Busy, Consistent
<1>3. ASSUME NEW c \in Conids, PacketWritten(c) PROVE PipeInv'
  <2>1. /\ pipe' \in schedule(Finished(pipe), queue', keepalive_sending)
        /\ keepalive_sending' = keepalive_sending
    BY <1>3 DEF PacketWritten
  <2>2. Finished(pipe) \in Pipe /\ Consistent(Finished(pipe), queue', keepalive_sending)
    BY <1>0, FinishedPipe DEF Consistent
  <2>3. QED BY <2>1, <2>2, SchedulePipe DEF PipeInv
<1>4. CASE KeepaliveWritten
  <2>1. /\ pipe' \in schedule(Finished(pipe), queue, FALSE)
        /\ keepalive_sending' = FALSE /\ queue' = queue
    BY <1>4 DEF KeepaliveWritten
  <2>2. Finished(pipe) \in Pipe /\ Consistent(Finished(pipe), queue, FALSE)
    BY <1>0, FinishedPipe DEF Consistent
  <2>3. QED BY <2>1, <2>2, SchedulePipe DEF PipeInv
<1>5. CASE KeepaliveTimer
  <2>1. /\ pipe' \in schedule(pipe, queue, TRUE)
        /\ keepalive_sending' = TRUE /\ queue' = queue /\ ~freed
    BY <1>5 DEF KeepaliveTimer
  <2>2. Waiting(queue, keepalive_sending) \subseteq Waiting(queue, TRUE)
    BY DEF Waiting
  <2>3. Consistent(pipe, queue, TRUE)
    BY <2>1, <2>2 DEF PipeInv, Busy, Consistent
  <2>4. QED BY <1>0, <2>1, <2>3, SchedulePipe DEF PipeInv
<1>6. CASE Receive \/ (\E c \in Conids : ServerAnswers(c)) \/ reconnect_timer_handler
             \/ SocksUpFails
  <2>1. UNCHANGED <<queue, keepalive_sending, pipe, freed>>
    BY <1>6 DEF Receive, ServerAnswers, reconnect_timer_handler, SocksUpFails
  <2>2. QED BY <2>1 DEF PipeInv
<1>7. CASE SocksUp
  <2>1. pipe' = ConnectOutput(pipe) /\ UNCHANGED <<queue, keepalive_sending, freed>>
    BY <1>7 DEF SocksUp
  <2>2. QED BY <1>0, <2>1, ConnectPipe DEF PipeInv, Busy, Consistent
<1>8. CASE SocksError \/ DecoderError
  <2>1. /\ pipe' = DisconnectOutput(pipe) \/ pipe' = pipe
        /\ UNCHANGED <<queue, keepalive_sending, freed>>
    BY <1>8 DEF SocksError, DecoderError, free_socks
  <2>2. QED BY <1>0, <2>1, DisconnectPipe DEF PipeInv, Busy, Consistent
<1>9. CASE Free
  BY <1>9 DEF Free, PipeInv
<1>10. CASE UNCHANGED vars
  BY <1>10 DEF vars, PipeInv
<1>11. QED
  BY <1>1, <1>2, <1>3, <1>4, <1>5, <1>6, <1>7, <1>8, <1>9, <1>10 DEF Next, Write

-----------------------------------------------------------------------------
(* The order of packets *)

LEMMA SendOrder ==
    ASSUME TypeOK, WrittenInOrder, ~freed, NEW c \in Conids, NEW conaddr \in Conaddr,
           NEW rebind \in BOOLEAN, connection_send(c, conaddr, rebind)
    PROVE  WrittenInOrder'
<1> DEFINE packet == [conaddr |-> conaddr, rebind |-> rebind, n |-> accepted[c] + 1]
<1>1. PICK fits \in BOOLEAN :
        /\ queue' = IF fits THEN [queue EXCEPT ![c] = Append(@, packet)] ELSE queue
        /\ accepted' = IF fits THEN [accepted EXCEPT ![c] = @ + 1] ELSE accepted
  BY DEF connection_send
<1>2. freed' = freed /\ written' = written
  BY DEF connection_send
<1>3. packet \in Packet /\ packet.n = accepted[c] + 1
  BY DEF TypeOK, Packet
<1> HIDE DEF packet
<1>4. CASE fits
  <2> SUFFICES ASSUME NEW d \in Conids
               PROVE  /\ Len(queue'[d]) = accepted'[d] - written'[d]
                      /\ \A i \in DOMAIN queue'[d] : queue'[d][i].n = written'[d] + i
    BY DEF WrittenInOrder
  <2>1. /\ queue \in [Conids -> Seq(Packet)] /\ queue[d] \in Seq(Packet)
        /\ accepted \in [Conids -> Nat] /\ accepted[d] \in Nat /\ written[d] \in Nat
    BY DEF TypeOK
  <2>2. /\ Len(queue[d]) = accepted[d] - written[d]
        /\ \A i \in DOMAIN queue[d] : queue[d][i].n = written[d] + i
    BY DEF WrittenInOrder
  <2>3. CASE d = c
    <3>1. queue'[d] = Append(queue[d], packet) /\ accepted'[d] = accepted[d] + 1
      BY <1>1, <1>4, <2>1, <2>3
    <3>2. Len(queue'[d]) = accepted'[d] - written'[d]
      BY <1>2, <1>3, <2>1, <2>2, <3>1, LongerByOne
    <3>3. ASSUME NEW i \in DOMAIN Append(queue[d], packet)
          PROVE  Append(queue[d], packet)[i].n = written[d] + i
      <4>1. CASE i = Len(queue[d]) + 1
        <5>1. Append(queue[d], packet)[i].n = accepted[d] + 1
          BY <1>3, <2>1, <2>3, <4>1, LongerByOne
        <5>2. QED BY <2>1, <2>2, <4>1, <5>1
      <4>2. CASE i \in DOMAIN queue[d]
        BY <1>3, <2>1, <2>2, <4>2, LongerByOne
      <4>3. QED BY <1>3, <2>1, <4>1, <4>2, LongerByOne
    <3>4. QED BY <1>2, <3>1, <3>2, <3>3
  <2>4. CASE d # c
    <3>1. queue'[d] = queue[d] /\ accepted'[d] = accepted[d]
      BY <1>1, <1>4, <2>1, <2>4
    <3>2. QED BY <1>2, <2>2, <3>1
  <2>5. QED BY <2>3, <2>4
<1>5. CASE ~fits
  BY <1>1, <1>2, <1>5 DEF WrittenInOrder
<1>6. QED BY <1>4, <1>5

LEMMA NextOrder == TypeOK /\ PipeInv /\ WrittenInOrder /\ [Next]_vars => WrittenInOrder'
<1> SUFFICES ASSUME TypeOK, PipeInv, WrittenInOrder, [Next]_vars PROVE WrittenInOrder'
  OBVIOUS
<1>1. ASSUME NEW conaddr \in Conaddr, SubmitPacket(conaddr) PROVE WrittenInOrder'
  <2>1. CASE \E c \in Conids, rebind \in BOOLEAN : connection_send(c, conaddr, rebind)
    <3>1. ~freed
      BY <1>1 DEF SubmitPacket
    <3>2. QED BY <2>1, <3>1, SendOrder
  <2>2. CASE UNCHANGED <<queue, freed, accepted, written>>
    BY <2>2 DEF WrittenInOrder
  <2>3. QED BY <1>1, <2>1, <2>2, SubmitSends
<1>2. ASSUME NEW c \in Conids, PacketWritten(c) PROVE WrittenInOrder'
  <2>1. /\ queue' = [queue EXCEPT ![c] = Tail(@)]
        /\ written' = [written EXCEPT ![c] = Head(queue[c]).n]
        /\ accepted' = accepted /\ ~freed /\ freed' = freed
    BY <1>2 DEF PacketWritten
  <2>2. /\ queue \in [Conids -> Seq(Packet)] /\ queue[c] \in Seq(Packet)
        /\ written \in [Conids -> Nat] /\ accepted \in [Conids -> Nat]
    BY DEF TypeOK
  <2>3. queue[c] # <<>>
    BY <1>2, <2>1, ConidsAreIntegers DEF PacketWritten, PipeInv, Busy, Consistent, Waiting
  <2> SUFFICES ASSUME NEW d \in Conids
               PROVE  /\ Len(queue'[d]) = accepted'[d] - written'[d]
                      /\ \A i \in DOMAIN queue'[d] : queue'[d][i].n = written'[d] + i
    BY DEF WrittenInOrder
  <2>4. /\ Len(queue[d]) = accepted[d] - written[d]
        /\ \A i \in DOMAIN queue[d] : queue[d][i].n = written[d] + i
    BY <2>1 DEF WrittenInOrder
  <2>5. CASE d = c
    <3>1. queue'[c] = Tail(queue[c]) /\ written'[c] = Head(queue[c]).n
      BY <2>1, <2>2
    <3>2. /\ Len(queue[c]) = accepted[c] - written[c]
          /\ \A i \in DOMAIN queue[c] : queue[c][i].n = written[c] + i
      BY <2>4, <2>5
    <3>3. accepted[c] \in Nat /\ written[c] \in Nat /\ accepted'[c] = accepted[c]
      BY <2>1, <2>2
    <3>4. written'[c] = written[c] + 1
      BY <2>2, <2>3, <3>1, <3>2, ShorterByOne
    <3>5. Len(queue'[c]) = accepted'[c] - written'[c]
      <4>1. Len(Tail(queue[c])) = Len(queue[c]) - 1
        BY <2>2, <2>3, ShorterByOne
      <4>2. QED BY <3>1, <3>2, <3>3, <3>4, <4>1
    <3>6. ASSUME NEW i \in DOMAIN Tail(queue[c])
          PROVE  Tail(queue[c])[i].n = written[c] + 1 + i
      <4>1. i \in Nat /\ i + 1 \in DOMAIN queue[c] /\ Tail(queue[c])[i] = queue[c][i + 1]
        BY <2>2, <2>3, ShorterByOne
      <4>2. Tail(queue[c])[i].n = written[c] + (i + 1)
        BY <3>2, <4>1
      <4>3. ASSUME NEW m \in Nat, NEW n \in Nat PROVE m + (n + 1) = m + 1 + n
        OBVIOUS
      <4>4. QED BY <3>3, <4>1, <4>2, <4>3, Zenon
    <3>7. QED BY <2>5, <3>1, <3>4, <3>5, <3>6
  <2>6. CASE d # c
    <3>1. queue'[d] = queue[d] /\ written'[d] = written[d]
      BY <2>1, <2>2, <2>6
    <3>2. QED BY <2>1, <2>4, <3>1
  <2>7. QED BY <2>5, <2>6
<1>3. CASE \/ WritePart \/ KeepaliveWritten \/ KeepaliveTimer \/ Receive
           \/ (\E c \in Conids : ServerAnswers(c)) \/ reconnect_timer_handler
           \/ SocksUp \/ SocksUpFails \/ SocksError \/ DecoderError
  <2>1. UNCHANGED <<queue, freed, accepted, written>>
    BY <1>3 DEF WritePart, KeepaliveWritten, KeepaliveTimer, Receive, ServerAnswers,
                reconnect_timer_handler, SocksUp, SocksUpFails, SocksError, DecoderError,
                free_socks
  <2>2. QED BY <2>1 DEF WrittenInOrder
<1>4. CASE Free
  BY <1>4 DEF Free, WrittenInOrder
<1>5. CASE UNCHANGED vars
  BY <1>5 DEF vars, WrittenInOrder
<1>6. QED BY <1>1, <1>2, <1>3, <1>4, <1>5 DEF Next, Write

-----------------------------------------------------------------------------
(* The tables *)

\* Moving an element to the end of a sequence.
LEMMA MovedToEnd ==
    ASSUME NEW S, NEW s \in Seq(S), NEW i \in 1..Len(s)
    PROVE  LET t == Append(RemoveAt(s, i), s[i]) IN
           /\ t \in Seq(S) /\ Len(t) = Len(s)
           /\ \A j \in 1..Len(s) :
                 t[j] = IF j < i THEN s[j] ELSE IF j < Len(s) THEN s[j + 1] ELSE s[i]
<1> DEFINE n == Len(s)
           a == SubSeq(s, 1, i - 1)
           b == SubSeq(s, i + 1, n)
           r == a \o b
           t == Append(RemoveAt(s, i), s[i])
<1>0. n \in Nat /\ i \in 1..n /\ \A j \in 1..n : s[j] \in S
  OBVIOUS
<1> HIDE DEF n
<1>1. /\ a \in Seq(S) /\ Len(a) = i - 1
      /\ \A j \in 1..i - 1 : a[j] = s[j]
  <2>1. i - 1 \in Int /\ \A j \in 1..i - 1 : s[j] \in S
    BY <1>0
  <2>2. /\ a \in Seq(S) /\ Len(a) = IF 1 <= i - 1 THEN (i - 1) - 1 + 1 ELSE 0
        /\ \A j \in 1..(i - 1) - 1 + 1 : a[j] = s[1 + j - 1]
    BY <2>1, SubSeqProperties
  <2> HIDE DEF a
  <2>3. QED BY <1>0, <2>2
<1>2. /\ b \in Seq(S) /\ Len(b) = n - i
      /\ \A j \in 1..n - i : b[j] = s[i + j]
  <2>1. i + 1 \in Int /\ n \in Int /\ \A j \in i + 1..n : s[j] \in S
    BY <1>0
  <2>2. /\ b \in Seq(S) /\ Len(b) = IF i + 1 <= n THEN n - (i + 1) + 1 ELSE 0
        /\ \A j \in 1..n - (i + 1) + 1 : b[j] = s[(i + 1) + j - 1]
    BY <2>1, SubSeqProperties
  <2> HIDE DEF b
  <2>3. QED BY <1>0, <2>2
<1>3. RemoveAt(s, i) = r
  BY DEF RemoveAt, n
<1> HIDE DEF a, b
<1>4. /\ r \in Seq(S) /\ Len(r) = n - 1
      /\ \A j \in 1..n - 1 : r[j] = IF j < i THEN s[j] ELSE s[j + 1]
  <2>1. /\ r \in Seq(S) /\ Len(r) = Len(a) + Len(b)
        /\ \A j \in 1..Len(a) + Len(b) :
              r[j] = IF j <= Len(a) THEN a[j] ELSE b[j - Len(a)]
    BY <1>1, <1>2, ConcatProperties
  <2> HIDE DEF r
  <2>2. Len(a) + Len(b) = n - 1
    BY <1>0, <1>1, <1>2
  <2>3. ASSUME NEW j \in 1..n - 1, j < i PROVE r[j] = s[j]
    <3>1. j \in 1..Len(a) + Len(b) /\ j \in 1..i - 1 /\ j <= Len(a)
      BY <1>0, <1>1, <2>2, <2>3
    <3>2. r[j] = a[j]
      BY <2>1, <3>1
    <3>3. QED BY <1>1, <3>1, <3>2
  <2>4. ASSUME NEW j \in 1..n - 1, ~(j < i) PROVE r[j] = s[j + 1]
    <3>1. r[j] = b[j - (i - 1)]
      <4>1. j \in 1..Len(a) + Len(b) /\ ~(j <= Len(a))
        BY <1>0, <1>1, <2>2, <2>4
      <4>2. QED BY <1>1, <2>1, <4>1
    <3>2. j - (i - 1) \in 1..n - i /\ i + (j - (i - 1)) = j + 1
      BY <1>0, <2>4
    <3>3. b[j - (i - 1)] = s[i + (j - (i - 1))]
      BY <1>2, <3>2
    <3>4. QED BY <3>1, <3>2, <3>3
  <2>5. QED BY <2>1, <2>2, <2>3, <2>4
<1> HIDE DEF r
<1>5. t = Append(r, s[i]) /\ s[i] \in S
  BY <1>0, <1>3
<1>6. /\ t \in Seq(S) /\ Len(t) = n
      /\ \A j \in 1..n - 1 : t[j] = r[j]
      /\ t[n] = s[i]
  <2>1. /\ t \in Seq(S) /\ Len(t) = (n - 1) + 1
        /\ \A j \in 1..n - 1 : t[j] = r[j]
        /\ t[(n - 1) + 1] = s[i]
    BY <1>4, <1>5, AppendProperties
  <2>2. (n - 1) + 1 = n
    BY <1>0
  <2>3. QED BY <2>1, <2>2
<1> HIDE DEF t
<1>7. ASSUME NEW j \in 1..n
      PROVE  t[j] = IF j < i THEN s[j] ELSE IF j < n THEN s[j + 1] ELSE s[i]
  <2>1. CASE j < n
    <3>1. j \in 1..n - 1
      BY <1>0, <2>1
    <3>2. QED BY <1>4, <1>6, <2>1, <3>1
  <2>2. CASE j = n
    BY <1>0, <1>6, <2>2
  <2>3. QED BY <1>0, <2>1, <2>2
<1>8. QED BY <1>6, <1>7 DEF t, n

LEMMA MoveToEndKeeps ==
    ASSUME TypeOK, NEW c \in Conids, MoveToEnd(c)
    PROVE  ToSet(list') = ToSet(list) /\ (IsInjective(list) => IsInjective(list'))
<1>2. list \in Seq(Conids) /\ DOMAIN list = 1..Len(list)
  BY DEF TypeOK
<1>1. PICK i \in 1..Len(list) : list[i] = c /\ list' = Append(RemoveAt(list, i), list[i])
  BY <1>2 DEF MoveToEnd
<1>3. /\ list' \in Seq(Conids) /\ Len(list') = Len(list)
      /\ \A j \in 1..Len(list) :
            list'[j] = IF j < i THEN list[j] ELSE IF j < Len(list) THEN list[j + 1] ELSE list[i]
  BY <1>1, <1>2, MovedToEnd
<1>4. DOMAIN list = 1..Len(list) /\ DOMAIN list' = 1..Len(list) /\ Len(list) \in Nat
  BY <1>2, <1>3
<1>5. ASSUME NEW j \in 1..Len(list) PROVE \E k \in 1..Len(list) : list'[j] = list[k]
  <2>1. CASE j < i
    BY <1>3, <2>1
  <2>2. CASE ~(j < i) /\ j < Len(list)
    <3>1. j + 1 \in 1..Len(list) /\ list'[j] = list[j + 1]
      BY <1>3, <1>4, <2>2
    <3>2. QED BY <3>1
  <2>3. CASE ~(j < i) /\ ~(j < Len(list))
    BY <1>3, <2>3
  <2>4. QED BY <2>1, <2>2, <2>3
<1>6. ASSUME NEW k \in 1..Len(list) PROVE \E j \in 1..Len(list) : list'[j] = list[k]
  <2>1. CASE k < i
    BY <1>3, <2>1
  <2>2. CASE k > i
    <3>1. /\ k - 1 \in 1..Len(list) /\ ~(k - 1 < i) /\ k - 1 < Len(list)
          /\ (k - 1) + 1 = k
      BY <1>4, <2>2
    <3>2. QED BY <1>3, <3>1
  <2>3. CASE k = i
    <3>1. /\ Len(list) \in 1..Len(list) /\ ~(Len(list) < i) /\ ~(Len(list) < Len(list))
      BY <1>4
    <3>2. QED BY <1>3, <2>3, <3>1
  <2>4. QED BY <1>4, <2>1, <2>2, <2>3
<1>7. ToSet(list') = ToSet(list)
  <2>1. ToSet(list) = {list[k] : k \in 1..Len(list)}
    BY <1>4 DEF ToSet
  <2>2. ToSet(list') = {list'[k] : k \in 1..Len(list)}
    BY <1>4 DEF ToSet
  <2>3. ToSet(list') \subseteq ToSet(list)
    BY <1>5, <2>1, <2>2
  <2>4. ToSet(list) \subseteq ToSet(list')
    BY <1>6, <2>1, <2>2
  <2>5. QED BY <2>3, <2>4
<1>8. ASSUME IsInjective(list), NEW j \in 1..Len(list), NEW k \in 1..Len(list),
             list'[j] = list'[k]
      PROVE  j = k
  <2> DEFINE from(m) == IF m < i THEN m ELSE IF m < Len(list) THEN m + 1 ELSE i
  <2>1. \A m \in 1..Len(list) : from(m) \in 1..Len(list) /\ list'[m] = list[from(m)]
    BY <1>3, <1>4
  <2>2. from(j) = from(k)
    BY <1>4, <1>8, <2>1 DEF IsInjective
  <2>3. QED BY <1>4, <2>2
<1>9. QED BY <1>4, <1>7, <1>8 DEF IsInjective


\* When connection c has a new pair of addresses, in both trees.
LEMMA PairTakesId ==
    ASSUME TypeOK, TablesAgree, NEW c \in Conids, NEW conaddr \in Conaddr,
           find_connection_by_conaddr(conaddr) = {},
           con' = [con EXCEPT ![c] = conaddr],
           by_conaddr' = (by_conaddr \ {<<con[c], c>>}) \cup {<<conaddr, c>>}
    PROVE  /\ by_conaddr' = {<<con'[d], d>> : d \in {d \in Conids : con'[d] # NoAddr}}
           /\ \A d, e \in Conids : con'[d] = con'[e] /\ con'[d] # NoAddr => d = e
           /\ {d \in Conids : con'[d] # NoAddr} = {d \in Conids : con[d] # NoAddr} \cup {c}
<1>1. con'[c] = conaddr /\ \A d \in Conids \ {c} : con'[d] = con[d]
  BY DEF TypeOK
<1>2. conaddr # NoAddr
  BY NamesAssumption
<1>3. by_conaddr = {<<con[d], d>> : d \in {d \in Conids : con[d] # NoAddr}}
  BY DEF TablesAgree
<1>4. \A d \in Conids : con[d] # conaddr
  BY <1>2, <1>3 DEF find_connection_by_conaddr
<1>5. \A d \in Conids : con'[d] # NoAddr <=> con[d] # NoAddr \/ d = c
  BY <1>1, <1>2
<1>6. by_conaddr' = {<<con'[d], d>> : d \in {d \in Conids : con'[d] # NoAddr}}
  <2>1. ASSUME NEW x \in by_conaddr'
        PROVE  \E d \in Conids : con'[d] # NoAddr /\ x = <<con'[d], d>>
    <3>1. CASE x = <<conaddr, c>>
      BY <1>1, <1>2, <3>1
    <3>2. CASE x \in by_conaddr /\ x # <<con[c], c>>
      <4>1. PICK d \in Conids : con[d] # NoAddr /\ x = <<con[d], d>>
        BY <1>3, <3>2
      <4>2. d # c
        BY <3>2, <4>1
      <4>3. QED BY <1>1, <4>1, <4>2
    <3>3. QED BY <2>1, <3>1, <3>2
  <2>2. ASSUME NEW d \in Conids, con'[d] # NoAddr PROVE <<con'[d], d>> \in by_conaddr'
    <3>1. CASE d = c
      BY <1>1, <3>1
    <3>2. CASE d # c
      <4>1. con'[d] = con[d] /\ con[d] # NoAddr
        BY <1>1, <2>2, <3>2
      <4>2. <<con[d], d>> \in by_conaddr /\ <<con[d], d>> # <<con[c], c>>
        BY <1>3, <3>2, <4>1
      <4>3. QED BY <4>1, <4>2
    <3>3. QED BY <3>1, <3>2
  <2>3. QED BY <2>1, <2>2
<1>7. \A d, e \in Conids : con'[d] = con'[e] /\ con'[d] # NoAddr => d = e
  BY <1>1, <1>4 DEF TablesAgree
<1>8. QED BY <1>5, <1>6, <1>7

\* The list when a new connection is added.
LEMMA AddToList ==
    ASSUME NEW S, NEW s \in Seq(S), NEW x \in S, x \notin ToSet(s)
    PROVE  /\ ToSet(Append(s, x)) = ToSet(s) \cup {x}
           /\ IsInjective(s) => IsInjective(Append(s, x))
<1> DEFINE t == Append(s, x)
           n == Len(s)
<1>1. n \in Nat /\ DOMAIN s = 1..n
  OBVIOUS
<1>2. /\ t \in Seq(S) /\ Len(t) = n + 1 /\ t[n + 1] = x
      /\ \A i \in 1..n : t[i] = s[i]
  BY AppendProperties
<1> HIDE DEF t, n
<1>3. DOMAIN t = 1..n + 1
  BY <1>2
<1>4. 1..n + 1 = 1..n \cup {n + 1}
  BY <1>1
<1>5. ToSet(s) = {s[i] : i \in 1..n} /\ ToSet(t) = {t[i] : i \in 1..n + 1}
  BY <1>1, <1>3 DEF ToSet
<1>6. ToSet(t) = ToSet(s) \cup {x}
  BY <1>2, <1>4, <1>5
<1>7. ASSUME IsInjective(s), NEW i \in 1..n + 1, NEW j \in 1..n + 1, t[i] = t[j]
      PROVE  i = j
  <2>1. \A k \in 1..n : s[k] # x
    BY <1>5
  <2>2. \A k, l \in 1..n : s[k] = s[l] => k = l
    BY <1>1, <1>7 DEF IsInjective
  <2>3. QED BY <1>2, <1>4, <1>7, <2>1, <2>2
<1>8. IsInjective(s) => IsInjective(t)
  BY <1>3, <1>7 DEF IsInjective
<1>9. QED BY <1>6, <1>8 DEF t

LEMMA SubmitTables ==
    ASSUME TypeOK, TablesAgree, NEW conaddr \in Conaddr, SubmitPacket(conaddr)
    PROVE  TablesAgree'
<1>1. CASE SubmitToConnection(conaddr)
  <2>1. PICK c \in Conids : MoveToEnd(c) /\ UNCHANGED <<con, by_conaddr>>
    BY <1>1 DEF SubmitToConnection, find_connection_by_conaddr
  <2>2. QED BY <2>1, MoveToEndKeeps DEF TablesAgree
<1>2. CASE SubmitByReuse(conaddr)
  <2> DEFINE c == Head(list)
  <2>1. list \in Seq(Conids) /\ list # <<>>
    BY <1>2, ConidsAreIntegers DEF SubmitByReuse, TypeOK
  <2>2. c \in Conids /\ c \in ToSet(list)
    BY <2>1 DEF ToSet
  <2>3. /\ find_connection_by_conaddr(conaddr) = {}
        /\ by_conaddr' = (by_conaddr \ {<<con[c], c>>}) \cup {<<conaddr, c>>}
        /\ con' = [con EXCEPT ![c] = conaddr]
        /\ MoveToEnd(c)
    BY <1>2 DEF SubmitByReuse, reuse_connection
  <2> HIDE DEF c
  <2>4. ToSet(list') = ToSet(list) /\ (IsInjective(list) => IsInjective(list'))
    BY <2>2, <2>3, MoveToEndKeeps
  <2>5. /\ by_conaddr' = {<<con'[d], d>> : d \in {d \in Conids : con'[d] # NoAddr}}
        /\ \A d, e \in Conids : con'[d] = con'[e] /\ con'[d] # NoAddr => d = e
        /\ {d \in Conids : con'[d] # NoAddr} = {d \in Conids : con[d] # NoAddr} \cup {c}
    BY <2>2, <2>3, PairTakesId
  <2>6. QED BY <2>2, <2>4, <2>5 DEF TablesAgree
<1>3. ASSUME SubmitToNew(conaddr), connection_init(conaddr) PROVE TablesAgree'
  <2>1. PICK c \in Conids : /\ con[c] = NoAddr
                            /\ con' = [con EXCEPT ![c] = conaddr]
                            /\ by_conaddr' = by_conaddr \cup {<<conaddr, c>>}
                            /\ list' = Append(list, c)
    BY <1>3 DEF connection_init, find_unused_conid
  <2>2. find_connection_by_conaddr(conaddr) = {}
    BY <1>3 DEF SubmitToNew
  <2>3. <<con[c], c>> \notin by_conaddr
    BY <2>1 DEF TablesAgree
  <2>4. by_conaddr' = (by_conaddr \ {<<con[c], c>>}) \cup {<<conaddr, c>>}
    BY <2>1, <2>3
  <2>5. /\ by_conaddr' = {<<con'[d], d>> : d \in {d \in Conids : con'[d] # NoAddr}}
        /\ \A d, e \in Conids : con'[d] = con'[e] /\ con'[d] # NoAddr => d = e
        /\ {d \in Conids : con'[d] # NoAddr} = {d \in Conids : con[d] # NoAddr} \cup {c}
    BY <2>1, <2>2, <2>4, PairTakesId
  <2>6. c \notin ToSet(list) /\ list \in Seq(Conids)
    BY <2>1 DEF TablesAgree, TypeOK
  <2>7. ToSet(list') = ToSet(list) \cup {c} /\ (IsInjective(list) => IsInjective(list'))
    BY <2>1, <2>6, AddToList
  <2>8. QED BY <2>5, <2>7 DEF TablesAgree
<1>4. CASE connection_init_fails
  BY <1>4 DEF connection_init_fails, TablesAgree
<1>5. QED BY <1>1, <1>2, <1>3, <1>4 DEF SubmitPacket, SubmitToNew

LEMMA NoConnections ==
    ASSUME NEW g, NEW b, NEW l, g = [c \in Conids |-> NoAddr], b = {}, l = <<>>
    PROVE  /\ b = {<<g[c], c>> : c \in {d \in Conids : g[d] # NoAddr}}
           /\ \A c, d \in Conids : g[c] = g[d] /\ g[c] # NoAddr => c = d
           /\ ToSet(l) = {c \in Conids : g[c] # NoAddr}
           /\ IsInjective(l)
<1>1. DOMAIN l = {}
  <2>1. l \in Seq({}) /\ Len(l) = 0
    BY EmptyIsSequence
  <2>2. QED BY <2>1
<1>2. \A c \in Conids : g[c] = NoAddr
  OBVIOUS
<1>3. ToSet(l) = {}
  BY <1>1 DEF ToSet
<1>4. IsInjective(l)
  BY <1>1 DEF IsInjective
<1>5. {c \in Conids : g[c] # NoAddr} = {}
  BY <1>2
<1>6. b = {<<g[c], c>> : c \in {d \in Conids : g[d] # NoAddr}}
  BY <1>5
<1>7. QED BY <1>2, <1>3, <1>4, <1>5, <1>6

LEMMA NextTables == TypeOK /\ TablesAgree /\ [Next]_vars => TablesAgree'
<1> SUFFICES ASSUME TypeOK, TablesAgree, [Next]_vars PROVE TablesAgree'
  OBVIOUS
<1>1. ASSUME NEW conaddr \in Conaddr, SubmitPacket(conaddr) PROVE TablesAgree'
  BY <1>1, SubmitTables
<1>2. CASE Receive
  <2>1. UNCHANGED <<con, by_conaddr>>
    BY <1>2 DEF Receive
  <2>2. CASE list' = list
    BY <2>1, <2>2 DEF TablesAgree
  <2>3. CASE list' # list
    <3>1. answers # <<>> /\ answers \in Seq([conid : Conids, conaddr : Conaddr])
      BY <1>2 DEF Receive, TypeOK
    <3>2. Head(answers).conid \in Conids
      <4>1. Head(answers) \in [conid : Conids, conaddr : Conaddr]
        BY <3>1, HeadAndTail
      <4>2. QED BY <4>1
    <3>3. MoveToEnd(Head(answers).conid)
      BY <1>2, <2>3 DEF Receive
    <3>4. QED BY <2>1, <3>2, <3>3, MoveToEndKeeps DEF TablesAgree
  <2>4. QED BY <2>2, <2>3
<1>3. CASE Free
  <2>1. /\ con' = [c \in Conids |-> NoAddr] /\ by_conaddr' = {} /\ list' = <<>>
    BY <1>3 DEF Free
  <2>2. QED BY <2>1, NoConnections DEF TablesAgree
<1>4. CASE UNCHANGED tables
  BY <1>4 DEF tables, TablesAgree
<1>5. Write \/ KeepaliveTimer \/ (\E c \in Conids : ServerAnswers(c))
        \/ reconnect_timer_handler \/ SocksUp \/ SocksUpFails \/ SocksError \/ DecoderError
        \/ UNCHANGED vars => UNCHANGED tables
  BY DEF Write, WritePart, PacketWritten, KeepaliveWritten, KeepaliveTimer, ServerAnswers,
         reconnect_timer_handler, SocksUp, SocksUpFails, SocksError, DecoderError,
         free_socks, vars
<1>6. QED BY <1>1, <1>2, <1>3, <1>4, <1>5 DEF Next

-----------------------------------------------------------------------------
(* Rebinding *)

\* q is the queue of an id that belongs to the pair p and for which the server knows the
\* pair s: where the pair changes along them, a packet has the flag.
Announced(q, s, p) ==
    /\ q # <<>> => q[1].rebind \/ s \in {NoAddr, q[1].conaddr}
    /\ \A i \in DOMAIN q : i # 1 => q[i].rebind \/ q[i].conaddr = q[i - 1].conaddr
    /\ q # <<>> => q[Len(q)].conaddr = p
    /\ q = <<>> => s \in {NoAddr, p}

LEMMA AnnouncedAppend ==
    ASSUME NEW q \in Seq(Packet), NEW e \in Packet, NEW s, NEW p, Announced(q, s, p),
           e.rebind \/ e.conaddr = p
    PROVE  Announced(Append(q, e), s, e.conaddr)
<1> DEFINE t == Append(q, e)
           n == Len(q)
<1>1. n \in Nat /\ DOMAIN q = 1..n /\ (n = 0 <=> q = <<>>)
  OBVIOUS
<1>2. /\ t \in Seq(Packet) /\ t # <<>> /\ Len(t) = n + 1 /\ t[n + 1] = e
      /\ \A i \in 1..n : t[i] = q[i]
  BY AppendProperties
<1> HIDE DEF t, n
<1>3. DOMAIN t = 1..n + 1
  BY <1>2
<1>4. t[1].rebind \/ s \in {NoAddr, t[1].conaddr}
  <2>1. CASE n = 0
    <3>1. q = <<>> /\ t[1] = e
      BY <1>1, <1>2, <2>1
    <3>2. QED BY <3>1 DEF Announced
  <2>2. CASE n # 0
    <3>1. q # <<>> /\ t[1] = q[1]
      BY <1>1, <1>2, <2>2
    <3>2. QED BY <3>1 DEF Announced
  <2>3. QED BY <2>1, <2>2
<1>5. ASSUME NEW i \in 1..n + 1, i # 1 PROVE t[i].rebind \/ t[i].conaddr = t[i - 1].conaddr
  <2>1. i - 1 \in 1..n /\ t[i - 1] = q[i - 1]
    BY <1>1, <1>2, <1>5
  <2>2. CASE i = n + 1
    <3>1. t[i] = e /\ t[i - 1] = q[n] /\ q # <<>>
      BY <1>1, <1>2, <1>5, <2>1, <2>2
    <3>2. q[n].conaddr = p
      BY <3>1 DEF Announced, n
    <3>3. QED BY <3>1, <3>2
  <2>3. CASE i # n + 1
    <3>1. i \in 1..n /\ t[i] = q[i]
      BY <1>1, <1>2, <2>3
    <3>2. QED BY <1>1, <1>5, <2>1, <3>1 DEF Announced
  <2>4. QED BY <2>2, <2>3
<1>6. Announced(t, s, e.conaddr)
  BY <1>2, <1>3, <1>4, <1>5 DEF Announced
<1>7. QED BY <1>6 DEF t

LEMMA AnnouncedTail ==
    ASSUME NEW q \in Seq(Packet), q # <<>>, NEW s, NEW p, Announced(q, s, p)
    PROVE  Announced(Tail(q), Head(q).conaddr, p)
<1> DEFINE t == Tail(q)
           n == Len(q)
<1>1. n \in Nat \ {0} /\ DOMAIN q = 1..n /\ Head(q) = q[1]
  OBVIOUS
<1>2. /\ t \in Seq(Packet) /\ Len(t) = n - 1 /\ (n = 1 <=> t = <<>>)
      /\ \A i \in 1..n - 1 : t[i] = q[i + 1]
  <2>1. /\ t \in Seq(Packet) /\ Len(t) = n - 1
        /\ \A i \in 1..Len(t) : t[i] = q[i + 1]
    BY HeadTailProperties
  <2>2. t = <<>> <=> Len(t) = 0
    BY <2>1
  <2> HIDE DEF t, n
  <2>3. QED BY <1>1, <2>1, <2>2
<1>3. q[n].conaddr = p
  BY DEF Announced
<1> HIDE DEF t, n
<1>4. DOMAIN t = 1..n - 1
  BY <1>2
<1>5. ASSUME NEW i \in 1..n - 1 PROVE t[i].rebind \/ t[i].conaddr = q[i].conaddr
  <2>1. i + 1 \in 1..n /\ i + 1 # 1 /\ (i + 1) - 1 = i
    BY <1>1
  <2>2. q[i + 1].rebind \/ q[i + 1].conaddr = q[(i + 1) - 1].conaddr
    BY <1>1, <2>1 DEF Announced
  <2>3. QED BY <1>2, <2>1, <2>2
<1>6. ASSUME t # <<>> PROVE t[1].rebind \/ t[1].conaddr = q[1].conaddr
  <2>1. 1 \in 1..n - 1
    BY <1>1, <1>2, <1>6
  <2>2. QED BY <1>5, <2>1
<1>7. ASSUME NEW i \in 1..n - 1, i # 1 PROVE t[i].rebind \/ t[i].conaddr = t[i - 1].conaddr
  <2>1. i - 1 \in 1..n - 1 /\ (i - 1) + 1 = i
    BY <1>1, <1>7
  <2>2. t[i - 1] = q[i]
    BY <1>2, <2>1
  <2>3. QED BY <1>5, <2>2
<1>8. ASSUME t # <<>> PROVE t[Len(t)].conaddr = p
  <2>1. n - 1 \in 1..n - 1 /\ (n - 1) + 1 = n
    BY <1>1, <1>2, <1>8
  <2>2. QED BY <1>2, <1>3, <2>1
<1>9. ASSUME t = <<>> PROVE q[1].conaddr = p
  BY <1>2, <1>3, <1>9
<1>10. Announced(t, q[1].conaddr, p)
  BY <1>4, <1>6, <1>7, <1>8, <1>9 DEF Announced
<1>11. QED BY <1>1, <1>10 DEF t

\* So it is for each id that did not lose a packet with the flag.
RebindInv == ~freed => \A c \in Conids \ rebindLost : Announced(queue[c], server[c], con[c])

LEMMA SendRebind ==
    ASSUME TypeOK, RebindInv, ~freed, NEW c \in Conids, NEW conaddr \in Conaddr,
           NEW rebind \in BOOLEAN, connection_send(c, conaddr, rebind),
           con' = [con EXCEPT ![c] = conaddr], rebind \/ con[c] = conaddr
    PROVE  RebindInv'
<1> DEFINE packet == [conaddr |-> conaddr, rebind |-> rebind, n |-> accepted[c] + 1]
<1>1. PICK fits \in BOOLEAN :
        /\ queue' = IF fits THEN [queue EXCEPT ![c] = Append(@, packet)] ELSE queue
        /\ rebindLost' = IF rebind /\ ~fits THEN rebindLost \cup {c} ELSE rebindLost
  BY DEF connection_send
<1>2. server' = server
  BY DEF connection_send
<1>3. packet \in Packet /\ packet.conaddr = conaddr /\ packet.rebind = rebind
  BY DEF TypeOK, Packet
<1> HIDE DEF packet
<1>4. queue \in [Conids -> Seq(Packet)] /\ con \in [Conids -> Conaddr \cup {NoAddr}]
  BY DEF TypeOK
<1>5. ASSUME NEW d \in Conids \ rebindLost' PROVE Announced(queue'[d], server'[d], con'[d])
  <2>1. Announced(queue[d], server[d], con[d])
    BY <1>1 DEF RebindInv
  <2>2. CASE d # c
    <3>1. queue'[d] = queue[d] /\ con'[d] = con[d]
      BY <1>1, <1>4, <2>2
    <3>2. QED BY <1>2, <2>1, <3>1
  <2>3. CASE d = c /\ fits
    <3>1. queue'[c] = Append(queue[c], packet) /\ con'[c] = conaddr
      BY <1>1, <1>4, <2>3
    <3>2. queue[c] \in Seq(Packet) /\ (packet.rebind \/ packet.conaddr = con[c])
      BY <1>3, <1>4
    <3>3. Announced(queue[c], server[c], con[c])
      BY <2>1, <2>3
    <3>4. Announced(Append(queue[c], packet), server[c], packet.conaddr)
      BY <1>3, <3>2, <3>3, AnnouncedAppend
    <3>5. QED BY <1>2, <1>3, <2>3, <3>1, <3>4
  <2>4. CASE d = c /\ ~fits
    <3>1. ~rebind
      BY <1>1, <2>4
    <3>2. queue' = queue /\ con'[c] = con[c]
      BY <1>1, <1>4, <2>4, <3>1
    <3>3. QED BY <1>2, <2>1, <2>4, <3>2
  <2>5. QED BY <2>2, <2>3, <2>4
<1>6. QED BY <1>5 DEF RebindInv

LEMMA SubmitRebind ==
    ASSUME TypeOK, TablesAgree, RebindInv, NEW conaddr \in Conaddr, SubmitPacket(conaddr)
    PROVE  RebindInv' /\ UNCHANGED server
<1>0. ~freed
  BY DEF SubmitPacket
<1>1. ASSUME NEW c \in Conids, NEW rebind \in BOOLEAN, connection_send(c, conaddr, rebind),
             con' = [con EXCEPT ![c] = conaddr], rebind \/ con[c] = conaddr
      PROVE  RebindInv' /\ UNCHANGED server
  <2>1. server' = server
    BY <1>1 DEF connection_send
  <2>2. QED BY <1>0, <1>1, <2>1, SendRebind
<1>2. CASE SubmitToConnection(conaddr)
  <2>1. PICK c \in Conids : /\ <<conaddr, c>> \in by_conaddr
                            /\ connection_send(c, conaddr, FALSE) /\ con' = con
    BY <1>2 DEF SubmitToConnection, find_connection_by_conaddr
  <2>2. con[c] = conaddr
    BY <2>1 DEF TablesAgree
  <2>3. con' = [con EXCEPT ![c] = conaddr]
    BY <2>1, <2>2 DEF TypeOK
  <2>4. QED BY <1>1, <2>1, <2>2, <2>3
<1>3. CASE SubmitByReuse(conaddr)
  <2>1. Head(list) \in Conids
    BY <1>3, ConidsAreIntegers DEF SubmitByReuse, TypeOK
  <2>2. con' = [con EXCEPT ![Head(list)] = conaddr] /\ connection_send(Head(list), conaddr, TRUE)
    BY <1>3 DEF SubmitByReuse, reuse_connection
  <2>3. QED BY <1>1, <2>1, <2>2
<1>4. ASSUME SubmitToNew(conaddr), connection_init(conaddr)
      PROVE  RebindInv' /\ UNCHANGED server
  <2>1. PICK c \in Conids : con' = [con EXCEPT ![c] = conaddr]
                            /\ connection_send(c, conaddr, TRUE)
    BY <1>4 DEF connection_init, find_unused_conid
  <2>2. QED BY <1>1, <2>1
<1>5. CASE connection_init_fails
  BY <1>5 DEF connection_init_fails, RebindInv
<1>6. QED BY <1>2, <1>3, <1>4, <1>5 DEF SubmitPacket, SubmitToNew

\* What a step does to an id's queue and to what the server knows of it.
LEMMA WriteRebind ==
    ASSUME TypeOK, PipeInv, RebindInv, NEW c \in Conids, PacketWritten(c)
    PROVE  /\ RebindInv'
           /\ \A d \in Conids : server'[d] # server[d] =>
                 \/ server[d] = NoAddr \/ Head(queue[d]).rebind \/ d \in rebindLost
<1>1. /\ queue' = [queue EXCEPT ![c] = Tail(@)]
      /\ server' = [server EXCEPT ![c] = Head(queue[c]).conaddr]
      /\ UNCHANGED <<con, rebindLost, freed>> /\ ~freed
  BY DEF PacketWritten, tables
<1>2. /\ queue \in [Conids -> Seq(Packet)] /\ queue[c] \in Seq(Packet)
      /\ server \in [Conids -> Conaddr \cup {NoAddr}]
  BY DEF TypeOK
<1>3. queue[c] # <<>>
  BY <1>1, ConidsAreIntegers DEF PacketWritten, PipeInv, Busy, Consistent, Waiting
<1>4. ASSUME NEW d \in Conids \ rebindLost
      PROVE  /\ Announced(queue'[d], server'[d], con'[d])
             /\ server'[d] = server[d] \/ server[d] = NoAddr \/ Head(queue[d]).rebind
  <2>1. Announced(queue[d], server[d], con[d])
    BY <1>1 DEF RebindInv
  <2>2. CASE d = c
    <3>1. queue'[c] = Tail(queue[c]) /\ server'[c] = Head(queue[c]).conaddr
      BY <1>1, <1>2
    <3>2. Announced(queue[c], server[c], con[c])
      BY <2>1, <2>2
    <3>3. Announced(Tail(queue[c]), Head(queue[c]).conaddr, con[c])
      BY <1>2, <1>3, <3>2, AnnouncedTail
    <3>4. Head(queue[c]) = queue[c][1]
      BY <1>2, <1>3
    <3>5. server'[c] = server[c] \/ server[c] = NoAddr \/ Head(queue[c]).rebind
      BY <1>3, <3>1, <3>2, <3>4 DEF Announced
    <3>6. QED BY <1>1, <2>2, <3>1, <3>3, <3>5
  <2>3. CASE d # c
    <3>1. queue'[d] = queue[d] /\ server'[d] = server[d]
      BY <1>1, <1>2, <2>3
    <3>2. QED BY <1>1, <2>1, <3>1
  <2>4. QED BY <2>2, <2>3
<1>5. RebindInv'
  BY <1>1, <1>4 DEF RebindInv
<1>6. QED BY <1>4, <1>5

\* A step keeps RebindInv, and is one that RebindAnnounced allows.
RebindStep == \A c \in Conids :
                server[c] # NoAddr /\ server'[c] # server[c] /\ server'[c] # NoAddr
                  => Head(queue[c]).rebind \/ c \in rebindLost

LEMMA NextRebind ==
    TypeOK /\ TablesAgree /\ PipeInv /\ RebindInv /\ [Next]_vars => RebindInv' /\ RebindStep
<1> SUFFICES ASSUME TypeOK, TablesAgree, PipeInv, RebindInv, [Next]_vars
             PROVE  RebindInv' /\ RebindStep
  OBVIOUS
<1>1. ASSUME NEW conaddr \in Conaddr, SubmitPacket(conaddr) PROVE RebindInv' /\ RebindStep
  BY <1>1, SubmitRebind DEF RebindStep
<1>2. ASSUME NEW c \in Conids, PacketWritten(c) PROVE RebindInv' /\ RebindStep
  BY <1>2, WriteRebind DEF RebindStep
<1>3. CASE UNCHANGED <<con, queue, server, rebindLost, freed>>
  BY <1>3 DEF RebindInv, RebindStep
<1>4. \/ WritePart \/ KeepaliveWritten \/ KeepaliveTimer \/ Receive
      \/ (\E c \in Conids : ServerAnswers(c)) \/ reconnect_timer_handler
      \/ SocksUp \/ SocksUpFails \/ UNCHANGED vars
      => UNCHANGED <<con, queue, server, rebindLost, freed>>
  BY DEF WritePart, KeepaliveWritten, KeepaliveTimer, Receive, ServerAnswers,
         reconnect_timer_handler, SocksUp, SocksUpFails, vars, tables
<1>5. CASE SocksError \/ DecoderError
  <2>1. /\ UNCHANGED <<con, queue, rebindLost, freed>>
        /\ server' = server \/ server' = [c \in Conids |-> NoAddr]
    BY <1>5 DEF SocksError, DecoderError, free_socks, tables
  <2>2. CASE server' = server
    BY <1>3, <2>1, <2>2
  <2>3. CASE server' = [c \in Conids |-> NoAddr]
    <3>1. \A c \in Conids : server'[c] = NoAddr
      BY <2>3
    <3>2. \A c \in Conids : Announced(queue[c], server[c], con[c])
                              => Announced(queue[c], NoAddr, con[c])
      BY DEF Announced
    <3>3. QED BY <2>1, <3>1, <3>2 DEF RebindInv, RebindStep
  <2>4. QED BY <2>1, <2>2, <2>3
<1>6. CASE Free
  BY <1>6 DEF Free, RebindInv, RebindStep
<1>7. QED BY <1>1, <1>2, <1>3, <1>4, <1>5, <1>6 DEF Next, Write

-----------------------------------------------------------------------------
(* The theorems *)

\* The inductive invariant.
IInv == /\ TypeOK /\ LinkInv /\ PipeInv /\ WrittenInOrder /\ TablesAgree
        /\ RebindInv

LEMMA InitInv == Init => IInv
<1> SUFFICES ASSUME Init PROVE IInv
  OBVIOUS
<1>1. TypeOK
  BY InitTypes
<1>2. PICK ok \in BOOLEAN : link = [have_socks |-> ok, socks_up |-> FALSE, timer |-> ~ok]
  BY DEF Init
<1>3. LinkInv
  BY <1>2 DEF Init, LinkInv, LinkAgrees
<1>4. Waiting(queue, keepalive_sending) = {}
  BY DEF Init, Waiting
<1>5. PipeInv
  BY <1>4 DEF Init, PipeInv, Busy, Consistent
<1>6. WrittenInOrder
  <2>1. \A c \in Conids : queue[c] = <<>> /\ written[c] = 0 /\ accepted[c] = 0
    BY DEF Init
  <2>2. DOMAIN <<>> = {}
    <3>1. Len(<<>>) = 0
      OBVIOUS
    <3>2. QED BY <3>1
  <2>3. QED BY <2>1, <2>2 DEF WrittenInOrder
<1>7. TablesAgree
  BY NoConnections DEF Init, TablesAgree
<1>8. RebindInv
  <2>1. \A c \in Conids : queue[c] = <<>> /\ server[c] = NoAddr
    BY DEF Init
  <2>2. \A i \in DOMAIN <<>> : FALSE
    <3>1. Len(<<>>) = 0
      OBVIOUS
    <3>2. QED BY <3>1
  <2>3. QED BY <2>1, <2>2 DEF RebindInv, Announced
<1>9. QED BY <1>1, <1>3, <1>5, <1>6, <1>7, <1>8 DEF IInv

LEMMA NextInv == IInv /\ [Next]_vars => IInv'
<1> SUFFICES ASSUME IInv, [Next]_vars PROVE IInv'
  OBVIOUS
<1>1. NothingStalls
  BY PipeFacts DEF IInv
<1>2. TypeOK'
  BY <1>1, NextTypes DEF IInv
<1>3. LinkInv' /\ PipeInv' /\ WrittenInOrder' /\ TablesAgree'
  BY NextLink, NextPipe, NextOrder, NextTables DEF IInv
<1>4. RebindInv'
  BY NextRebind DEF IInv
<1>5. QED BY <1>2, <1>3, <1>4 DEF IInv

LEMMA Invariant == Spec => []IInv
BY InitInv, NextInv, PTL DEF Spec

\* Whatever the numbers of connections and of packets a queue can hold: every field keeps
\* its range, and no buffer is overrun.
THEOREM TypeCorrect == Spec => []TypeOK
<1>1. IInv => TypeOK
  BY DEF IInv
<1>2. QED BY <1>1, Invariant, PTL

\* The two trees and the list of UdpGwClient hold the same connections, however
\* connections are made, reused and freed: an id has one pair of addresses, and
\* reuse_connection always finds one.
THEOREM TablesAlwaysAgree == Spec => []TablesAgree
<1>1. IInv => TablesAgree
  BY DEF IInv
<1>2. QED BY <1>1, Invariant, PTL

\* Until it is freed, SocksUdpGwClient has a connection, an attempt at one, or a timer
\* that will start an attempt, and UdpGwClient has a server just when it is up.
THEOREM LinkAlwaysAgrees == Spec => []LinkAgrees
<1>1. IInv => LinkAgrees
  BY DEF IInv, LinkInv
<1>2. QED BY <1>1, Invariant, PTL

\* However connections to the server come and go: a packet that waits is in the pipe or
\* behind another that is, and the sender works on it whenever there is a server.
THEOREM PipeNeverStalls == Spec => []NothingStalls
<1>1. IInv => NothingStalls
  BY PipeFacts DEF IInv
<1>2. QED BY <1>1, Invariant, PTL

\* The timer of the inactivity monitor runs exactly while the pipe is empty.
THEOREM KeepaliveTimerRuns == Spec => []KeepaliveWhenIdle
<1>1. IInv => KeepaliveWhenIdle
  BY PipeFacts DEF IInv
<1>2. QED BY <1>1, Invariant, PTL

\* Both of them: the pipe agrees with what waits for it.
THEOREM PipeAlwaysAgrees == Spec => []PipeAgrees
BY PipeNeverStalls, KeepaliveTimerRuns, PTL DEF PipeAgrees

\* No packet that was queued is lost, sent twice or overtaken by a later one of its id,
\* although a lost connection to the server takes the one it was sending with it.
THEOREM OrderIsKept == Spec => []WrittenInOrder
<1>1. IInv => WrittenInOrder
  BY DEF IInv
<1>2. QED BY <1>1, Invariant, PTL

\* Whatever the packets queued before the reuse of an id, and however often the connection
\* to the server is lost: the server does not take a packet of a new pair for one of the
\* old, unless the queue was full when the id was reused.
THEOREM RebindIsAnnounced == Spec => RebindAnnounced
<1>1. IInv /\ [Next]_vars => [RebindStep]_vars
  BY NextRebind DEF IInv
<1>2. RebindAnnounced <=> [][RebindStep]_vars
  BY PTL DEF RebindAnnounced, RebindStep
<1>3. QED BY <1>1, <1>2, Invariant, PTL DEF Spec
=============================================================================
