------------------------- MODULE SocksClientProofs --------------------------
(***************************************************************************)
(* Proofs about SocksClient, for any methods offered, any length of what   *)
(* is sent, and any number of answers in any pieces.                       *)
(***************************************************************************)
EXTENDS SocksClient, SequenceTheorems, TLAPS

-----------------------------------------------------------------------------
(* The inductive invariant *)

Byte == {"5", "1", "0", "4", "6", "x", "a", "none", "password"}

Bytes == Seq(Byte)

\* What the server has answered, and what it was sent before the request, when it has
\* agreed to a method.
Agreed(method) == <<"5", method>> \o (IF method = "password" THEN <<"1", "0">> ELSE <<>>)

Before(method) == IF method = "password" THEN <<"hello", "password">> ELSE <<"hello">>

Allowed(method) == method \in auth_info /\ (method = "password" => PasswordFits)

\* A message is being sent.
Writing(message) ==
    /\ out = message /\ out_left \in 1..MessageLen /\ buffer = MessageLen
    /\ content = <<>> /\ recv_len = 0 /\ recv_total = 0

\* An answer, or its next part, is being received behind the first skip bytes of it, into a
\* buffer of this size.
Reading(size, skip, total) ==
    /\ out = "none" /\ out_left = 0 /\ buffer = size /\ skip + total <= size
    /\ recv_total = total /\ recv_len \in 0..total - 1 /\ Len(content) = skip + recv_len

Quiet == /\ buffer = 0 /\ content = <<>> /\ out = "none" /\ out_left = 0
         /\ recv_len = 0 /\ recv_total = 0

\* What the state says of the buffer and the streams, of what went to and fro, and of
\* what the user was told.
InState ==
    \/ state = "CONNECTING" /\ Quiet /\ sent = <<>> /\ read = <<>>
    \/ state = "CONNECTED_HANDLER" /\ Quiet /\ sent = <<>> /\ read = <<>>
    \/ state = "SENDING_HELLO" /\ Writing("hello") /\ sent = <<>> /\ read = <<>>
    \/ /\ state = "SENT_HELLO" /\ Reading(HelloLen, 0, HelloLen)
       /\ sent = <<"hello">> /\ read = content
    \/ /\ state = "SENDING_PASSWORD" /\ Writing("password") /\ Allowed("password")
       /\ sent = <<"hello">> /\ read = <<"5", "password">>
    \/ /\ state = "SENT_PASSWORD" /\ Reading(PasswordReplyLen, 0, PasswordReplyLen)
       /\ Allowed("password")
       /\ sent = Before("password") /\ read = <<"5", "password">> \o content
    \/ /\ state = "SENDING_REQUEST" /\ Writing("request")
       /\ \E m \in Methods : Allowed(m) /\ sent = Before(m) /\ read = Agreed(m)
    \/ /\ state = "SENT_REQUEST" /\ Reading(ReplyHeaderLen + AddrLen("6"), 0, ReplyHeaderLen)
       /\ \E m \in Methods : Allowed(m) /\ sent = Asked(m) /\ read = Agreed(m) \o content
    \/ /\ state = "RECEIVED_REPLY_HEADER"
       /\ \E m \in Methods, atyp \in {"4", "6"} :
             /\ Reading(ReplyHeaderLen + AddrLen("6"), ReplyHeaderLen, AddrLen(atyp))
             /\ content[1] = "5" /\ content[2] = "0" /\ content[3] = atyp
             /\ Allowed(m) /\ sent = Asked(m) /\ read = Agreed(m) \o content
    \/ state = "UP" /\ Quiet /\ UpMeansAgreed
    \/ state = "freed" /\ Quiet

Told ==
    /\ state = "CONNECTING" => events = <<>>
    /\ state = "UP" => events = <<"CONNECTED", "UP">>
    /\ state \notin {"CONNECTING", "UP", "freed"} => events = <<"CONNECTED">>
    /\ EventsInOrder

\* Where an answer grants the request, the address that it announces follows.
Granted(s) ==
    \A i \in 1..Len(s) - 1 :
        s[i] = "5" /\ s[i + 1] = "0" =>
            /\ i + 2 <= Len(s)
            /\ s[i + 2] \in {"4", "6"} => i + 3 <= Len(s) /\ s[i + 3] = "a"
            /\ s[i + 2] = "6" => i + 4 <= Len(s) /\ s[i + 4] = "a"

\* What the server has sent consists of whole answers.
WholeAnswers == LET all == read \o stream IN
    /\ Granted(all)
    /\ all # <<>> => all[Len(all)] # "5"

Typed == content \in Bytes /\ stream \in Bytes /\ read \in Bytes
               /\ {fin, fault} \subseteq BOOLEAN /\ messages \in 0..MaxMessages

SocksInv == Typed /\ InState /\ Told /\ WholeAnswers

-----------------------------------------------------------------------------
(* What the server sends *)

LEMMA AddrBytes ==
    ASSUME NEW atyp \in {"4", "6"}
    PROVE  /\ AddrLen(atyp) \in 1..2 /\ (atyp = "4" => AddrLen(atyp) = 1)
           /\ (atyp = "6" => AddrLen(atyp) = 2)
           /\ Addr(AddrLen(atyp)) \in Bytes /\ Len(Addr(AddrLen(atyp))) = AddrLen(atyp)
           /\ \A i \in 1..AddrLen(atyp) : Addr(AddrLen(atyp))[i] = "a"
<1>1. /\ AddrLen(atyp) \in 1..2 /\ (atyp = "4" => AddrLen(atyp) = 1)
      /\ (atyp = "6" => AddrLen(atyp) = 2)
  BY DEF AddrLen
<1> DEFINE n == AddrLen(atyp)
<1>2. Addr(n) = [i \in 1..n |-> "a"]
  BY DEF Addr
<1>3. "a" \in Byte
  BY DEF Byte
<1> HIDE DEF n
<1>4. n \in 1..2
  BY <1>1 DEF n
<1>5. Addr(n) \in Bytes /\ Len(Addr(n)) = n /\ \A i \in 1..n : Addr(n)[i] = "a"
  BY <1>2, <1>3, <1>4 DEF Bytes
<1>6. QED BY <1>1, <1>5 DEF n

LEMMA GrantBytes ==
    ASSUME NEW atyp \in {"4", "6"}, NEW r, r = <<"5", "0", atyp>> \o Addr(AddrLen(atyp))
    PROVE  /\ r \in Bytes /\ Len(r) = 3 + AddrLen(atyp)
           /\ r[1] = "5" /\ r[2] = "0" /\ r[3] = atyp
           /\ \A i \in 4..Len(r) : r[i] = "a"
<1> DEFINE h == <<"5", "0", atyp>>
           d == Addr(AddrLen(atyp))
<1>1. h \in Seq(Byte) /\ Len(h) = 3 /\ h[1] = "5" /\ h[2] = "0" /\ h[3] = atyp
  BY DEF Byte
<1>2. d \in Seq(Byte) /\ Len(d) = AddrLen(atyp) /\ AddrLen(atyp) \in 1..2
      /\ \A i \in 1..AddrLen(atyp) : d[i] = "a"
  BY AddrBytes DEF Bytes
<1>3. r = h \o d
  OBVIOUS
<1> HIDE DEF h, d
<1>4. /\ h \o d \in Seq(Byte) /\ Len(h \o d) = Len(h) + Len(d)
      /\ \A i \in 1..Len(h) + Len(d) : (h \o d)[i] = IF i <= Len(h) THEN h[i] ELSE d[i - Len(h)]
  <2>1. h \in Seq(Byte) /\ d \in Seq(Byte)
    BY <1>1, <1>2
  <2>2. QED BY <2>1, ConcatProperties
<1>5. /\ r \in Seq(Byte) /\ Len(r) = 3 + AddrLen(atyp)
      /\ \A i \in 1..Len(r) : r[i] = IF i <= 3 THEN h[i] ELSE d[i - 3]
  BY <1>1, <1>2, <1>3, <1>4
<1>6. QED BY <1>1, <1>2, <1>5 DEF Bytes

\* Every answer is whole.
LEMMA ReplyIsWhole ==
    ASSUME NEW r \in Replies
    PROVE  r \in Bytes /\ Len(r) >= 1 /\ Granted(r) /\ r[Len(r)] # "5"
<1>1. ASSUME NEW atyp \in {"4", "6"}, r = <<"5", "0", atyp>> \o Addr(AddrLen(atyp))
      PROVE  r \in Bytes /\ Len(r) >= 1 /\ Granted(r) /\ r[Len(r)] # "5"
  <2>1. /\ r \in Bytes /\ Len(r) = 3 + AddrLen(atyp)
        /\ r[1] = "5" /\ r[2] = "0" /\ r[3] = atyp
        /\ \A i \in 4..Len(r) : r[i] = "a"
    BY <1>1, GrantBytes
  <2>2. /\ AddrLen(atyp) \in 1..2 /\ (atyp = "4" => AddrLen(atyp) = 1)
        /\ (atyp = "6" => AddrLen(atyp) = 2)
    BY AddrBytes
  <2>3. Len(r) \in 4..5 /\ r[Len(r)] = "a"
    BY <2>1, <2>2
  <2>4. ASSUME NEW i \in 1..Len(r) - 1, r[i] = "5" PROVE i = 1
    BY <2>1, <2>3, <2>4
  <2>5. Granted(r)
    BY <2>1, <2>2, <2>3, <2>4 DEF Granted
  <2>6. QED BY <2>1, <2>3, <2>5
<1>2. ASSUME NEW b \in Byte, NEW c \in Byte, r = <<b, c>>, b = "5" => c # "0", c # "5"
      PROVE  r \in Bytes /\ Len(r) >= 1 /\ Granted(r) /\ r[Len(r)] # "5"
  <2>1. r \in Bytes /\ Len(r) = 2 /\ r[1] = b /\ r[2] = c
    BY <1>2 DEF Bytes
  <2>2. Granted(r)
    BY <1>2, <2>1 DEF Granted
  <2>3. QED BY <1>2, <2>1, <2>2
<1>3. ASSUME NEW b \in Byte, NEW c \in Byte, NEW d \in Byte, r = <<b, c, d>>,
             b = "5" /\ c = "0" => d = "x", c # "5", d # "5"
      PROVE  r \in Bytes /\ Len(r) >= 1 /\ Granted(r) /\ r[Len(r)] # "5"
  <2>1. r \in Bytes /\ Len(r) = 3 /\ r[1] = b /\ r[2] = c /\ r[3] = d
    BY <1>3 DEF Bytes
  <2>2. Granted(r)
    BY <1>3, <2>1 DEF Granted
  <2>3. QED BY <1>3, <2>1, <2>2
<1>4. /\ "5" \in Byte /\ "1" \in Byte /\ "0" \in Byte /\ "4" \in Byte /\ "x" \in Byte
      /\ "none" \in Byte /\ "password" \in Byte
  BY DEF Byte
<1>5. \/ r = <<"5", "none">> \/ r = <<"5", "password">> \/ r = <<"5", "x">>
      \/ r = <<"x", "none">> \/ r = <<"1", "0">> \/ r = <<"1", "x">> \/ r = <<"x", "0">>
      \/ r = <<"5", "0", "4">> \o Addr(AddrLen("4"))
      \/ r = <<"5", "0", "6">> \o Addr(AddrLen("6"))
      \/ r = <<"5", "0", "x">> \/ r = <<"5", "x", "4">> \/ r = <<"x", "0", "4">>
  BY DEF Replies
<1>6. QED BY <1>1, <1>2, <1>3, <1>4, <1>5

LEMMA WholeGrows ==
    ASSUME NEW s \in Bytes, NEW r \in Bytes, Granted(s), Granted(r),
           s # <<>> => s[Len(s)] # "5", Len(r) >= 1, r[Len(r)] # "5"
    PROVE  Granted(s \o r) /\ (s \o r)[Len(s \o r)] # "5"
<1> DEFINE t == s \o r
<1>1. /\ Len(s) \in Nat /\ Len(r) \in Nat /\ Len(t) = Len(s) + Len(r)
      /\ \A i \in 1..Len(s) + Len(r) : t[i] = IF i <= Len(s) THEN s[i] ELSE r[i - Len(s)]
  BY ConcatProperties DEF Bytes
<1>2. Len(s) >= 1 => s[Len(s)] # "5"
  BY DEF Bytes
<1> HIDE DEF t
<1>3. t[Len(t)] # "5"
  BY <1>1
<1>4. ASSUME NEW i \in 1..Len(t) - 1, t[i] = "5", t[i + 1] = "0"
      PROVE  /\ i + 2 <= Len(t)
             /\ t[i + 2] \in {"4", "6"} => i + 3 <= Len(t) /\ t[i + 3] = "a"
             /\ t[i + 2] = "6" => i + 4 <= Len(t) /\ t[i + 4] = "a"
  <2>1. CASE i + 1 <= Len(s)
    <3>1. s[i] = "5" /\ s[i + 1] = "0" /\ i \in 1..Len(s) - 1
      BY <1>1, <1>4, <2>1
    <3>2. /\ i + 2 <= Len(s)
          /\ s[i + 2] \in {"4", "6"} => i + 3 <= Len(s) /\ s[i + 3] = "a"
          /\ s[i + 2] = "6" => i + 4 <= Len(s) /\ s[i + 4] = "a"
      BY <3>1 DEF Granted
    <3>3. \A j \in 0..4 : i + j <= Len(s) => t[i + j] = s[i + j]
      BY <1>1
    <3>4. QED BY <1>1, <3>2, <3>3
  <2>2. CASE i = Len(s)
    BY <1>1, <1>2, <1>4, <2>2
  <2>3. CASE i > Len(s)
    <3> DEFINE k == i - Len(s)
    <3>1. k \in 1..Len(r) - 1 /\ \A j \in 0..4 : k + j <= Len(r) => t[i + j] = r[k + j]
      BY <1>1, <2>3
    <3>2. i + 2 <= Len(t) <=> k + 2 <= Len(r)
      BY <1>1
    <3>3. (i + 3 <= Len(t) <=> k + 3 <= Len(r)) /\ (i + 4 <= Len(t) <=> k + 4 <= Len(r))
      BY <1>1
    <3> HIDE DEF k
    <3>4. r[k] = "5" /\ r[k + 1] = "0"
      BY <1>1, <1>4, <3>1
    <3>5. /\ k + 2 <= Len(r)
          /\ r[k + 2] \in {"4", "6"} => k + 3 <= Len(r) /\ r[k + 3] = "a"
          /\ r[k + 2] = "6" => k + 4 <= Len(r) /\ r[k + 4] = "a"
      BY <3>1, <3>4 DEF Granted
    <3>6. QED BY <3>1, <3>2, <3>3, <3>5
  <2>4. QED BY <1>1, <2>1, <2>2, <2>3
<1>5. Granted(t)
  BY <1>4 DEF Granted
<1>6. QED BY <1>3, <1>5 DEF t

-----------------------------------------------------------------------------
(* What the user is told *)

LEMMA EventSequences ==
    /\ <<>> \o <<>> = <<>> /\ <<>> \o <<"ERROR">> = <<"ERROR">>
    /\ <<>> \o <<"CONNECTED">> = <<"CONNECTED">> /\ <<"CONNECTED">> \o <<>> = <<"CONNECTED">>
    /\ Append(<<>>, "CONNECTED") = <<"CONNECTED">>
    /\ Append(<<"CONNECTED">>, "UP") = <<"CONNECTED", "UP">>
    /\ <<"CONNECTED", "UP">> \o <<>> = <<"CONNECTED", "UP">>
    /\ <<"CONNECTED", "UP">> \o <<"ERROR_CLOSED">> = <<"CONNECTED", "UP", "ERROR_CLOSED">>
<1>1. <<>> \o <<>> = <<>> /\ <<>> \o <<"ERROR">> = <<"ERROR">>
  BY ConcatEmptySeq
<1>2. <<>> \o <<"CONNECTED">> = <<"CONNECTED">> /\ <<"CONNECTED">> \o <<>> = <<"CONNECTED">>
  OBVIOUS
<1>3. Append(<<>>, "CONNECTED") = <<"CONNECTED">>
  OBVIOUS
<1> DEFINE E == {"CONNECTED", "UP", "ERROR_CLOSED"}
<1>4. Append(<<"CONNECTED">>, "UP") = <<"CONNECTED", "UP">>
  <2> DEFINE s == Append(<<"CONNECTED">>, "UP")
             t == <<"CONNECTED", "UP">>
  <2>1. s \in Seq(E) /\ Len(s) = 2 /\ s[1] = "CONNECTED" /\ s[2] = "UP"
    OBVIOUS
  <2>2. t \in Seq(E) /\ Len(t) = 2 /\ t[1] = "CONNECTED" /\ t[2] = "UP"
    OBVIOUS
  <2> HIDE DEF s, t
  <2>3. Len(s) = Len(t) /\ \A i \in 1..Len(s) : s[i] = t[i]
    BY <2>1, <2>2
  <2>4. s = t
    BY <2>1, <2>2, <2>3, SeqEqual
  <2>5. QED BY <2>4 DEF s, t
<1>5. <<"CONNECTED", "UP">> \o <<>> = <<"CONNECTED", "UP">>
  OBVIOUS
<1>6. <<"CONNECTED", "UP">> \o <<"ERROR_CLOSED">> = <<"CONNECTED", "UP", "ERROR_CLOSED">>
  <2> DEFINE s == <<"CONNECTED", "UP">> \o <<"ERROR_CLOSED">>
             t == <<"CONNECTED", "UP", "ERROR_CLOSED">>
  <2>1. s \in Seq(E) /\ Len(s) = 3 /\ s[1] = "CONNECTED" /\ s[2] = "UP" /\ s[3] = "ERROR_CLOSED"
    OBVIOUS
  <2>2. t \in Seq(E) /\ Len(t) = 3 /\ t[1] = "CONNECTED" /\ t[2] = "UP" /\ t[3] = "ERROR_CLOSED"
    OBVIOUS
  <2> HIDE DEF s, t
  <2>3. Len(s) = Len(t) /\ \A i \in 1..Len(s) : s[i] = t[i]
    BY <2>1, <2>2
  <2>4. s = t
    BY <2>1, <2>2, <2>3, SeqEqual
  <2>5. QED BY <2>4 DEF s, t
<1>7. QED BY <1>1, <1>2, <1>3, <1>4, <1>5, <1>6

\* Until it is freed.
LEMMA ToldInOrder ==
    ASSUME events \in {<<>>, <<"CONNECTED">>, <<"CONNECTED", "UP">>}
    PROVE  EventsInOrder
BY EventSequences DEF EventsInOrder

\* The client that is freed has told everything in order.
LEMMA FreeStep ==
    ASSUME Told, state # "freed", NEW told, Free(told),
           \/ told \in {<<>>, <<"ERROR">>}
           \/ told = <<"CONNECTED">> /\ state = "CONNECTING"
           \/ told = <<"ERROR_CLOSED">> /\ state = "UP"
    PROVE  InState' /\ Told'
<1>1. state' = "freed" /\ Quiet'
  BY DEF Free, NoIO, Quiet
<1>2. events' = events \o told
  BY DEF Free
<1>3. EventsInOrder'
  <2>1. \/ state = "CONNECTING" /\ events = <<>>
        \/ events = <<"CONNECTED">> /\ state # "UP" /\ state # "CONNECTING"
        \/ state = "UP" /\ events = <<"CONNECTED", "UP">>
    BY DEF Told
  <2>2. CASE state = "CONNECTING" /\ events = <<>>
    <3>1. events' \in {<<>>, <<"ERROR">>, <<"CONNECTED">> \o <<>>}
      BY <1>2, <2>2, EventSequences
    <3>2. QED BY <3>1 DEF EventsInOrder
  <2>3. CASE events = <<"CONNECTED">> /\ state # "UP" /\ state # "CONNECTING"
    <3>1. events' \in {<<"CONNECTED">> \o <<>>, <<"CONNECTED">> \o <<"ERROR">>}
      BY <1>2, <2>3
    <3>2. QED BY <3>1 DEF EventsInOrder
  <2>4. CASE state = "UP" /\ events = <<"CONNECTED", "UP">>
    <3>1. events' \in {<<"CONNECTED", "UP">> \o <<>>, <<"CONNECTED", "UP">> \o <<"ERROR">>,
                       <<"CONNECTED", "UP", "ERROR_CLOSED">>}
      BY <1>2, <2>4, EventSequences
    <3>2. QED BY <3>1 DEF EventsInOrder
  <2>5. QED BY <2>1, <2>2, <2>3, <2>4
<1>4. InState'
  BY <1>1 DEF InState
<1>5. Told'
  BY <1>1, <1>3 DEF Told
<1>6. QED BY <1>4, <1>5

\* During the handshake the user is told nothing.
LEMMA ToldNothing ==
    ASSUME Told, state \notin {"CONNECTING", "UP", "freed"},
           state' \notin {"CONNECTING", "UP", "freed"}, events' = events
    PROVE  Told'
BY DEF Told, EventsInOrder

-----------------------------------------------------------------------------
(* The steps of the handshake *)

LEMMA SendStep ==
    ASSUME NEW message, NEW next, Send(message, next)
    PROVE  state' = next /\ Writing(message)' /\ events' = events
BY SocksClientAssumption DEF Send, Writing

LEMMA ReceiveStep ==
    ASSUME NEW size, NEW c \in Bytes, NEW total \in Nat \ {0}, NEW next,
           start_receive(size, c, total, next), Len(c) + total <= size
    PROVE  /\ state' = next /\ Reading(size, Len(c), total)' /\ content' = c /\ events' = events
<1>1. Len(c) \in Nat
  BY DEF Bytes
<1>2. state' = next /\ content' = c /\ events' = events
  BY DEF start_receive
<1>3. /\ out' = "none" /\ out_left' = 0 /\ buffer' = size
      /\ recv_total' = total /\ recv_len' = 0
  BY DEF start_receive
<1>4. recv_len' \in 0..total - 1 /\ Len(content') = Len(c) + recv_len'
  BY <1>1, <1>2, <1>3
<1>5. QED BY <1>2, <1>3, <1>4 DEF Reading

LEMMA Lengths ==
    /\ HelloLen = 2 /\ PasswordReplyLen = 2 /\ ReplyHeaderLen = 3 /\ AddrLen("6") = 2
    /\ AddrLen("4") = 1 /\ ReplyHeaderLen + AddrLen("6") = 5
    /\ <<>> \in Bytes /\ Len(<<>>) = 0
<1>1. <<>> \in Bytes
  BY DEF Bytes
<1>2. QED BY <1>1 DEF HelloLen, PasswordReplyLen, ReplyHeaderLen, AddrLen

LEMMA ConnectorKeeps ==
    ASSUME SocksInv, NEW is_error \in BOOLEAN, connector_handler(is_error)
    PROVE  InState' /\ Told'
<1>1. /\ state = "CONNECTING" /\ Quiet /\ sent = <<>> /\ read = <<>> /\ Told
      /\ sent' = sent /\ read' = read
  BY DEF connector_handler, SocksInv, InState
<1>2. CASE Free(<<"ERROR">>) \/ Free(<<"CONNECTED">>)
  BY <1>1, <1>2, FreeStep
<1>3. CASE /\ state' = "CONNECTED_HANDLER" /\ events' = Append(events, "CONNECTED")
           /\ UNCHANGED <<buffer, content, out, out_left, recv_len, recv_total>>
  <2>1. InState'
    BY <1>1, <1>3 DEF InState, Quiet
  <2>2. events' = <<"CONNECTED">>
    BY <1>1, <1>3, EventSequences DEF Told
  <2>3. EventsInOrder'
    BY <2>2, EventSequences DEF EventsInOrder
  <2>4. QED BY <1>3, <2>1, <2>2, <2>3 DEF Told
<1>4. QED BY <1>2, <1>3 DEF connector_handler, report_error

LEMMA JobKeeps ==
    ASSUME SocksInv, continue_job_handler PROVE InState' /\ Told'
<1>1. /\ state = "CONNECTED_HANDLER" /\ sent = <<>> /\ read = <<>> /\ Told
      /\ sent' = sent /\ read' = read
  BY DEF continue_job_handler, SocksInv, InState
<1>2. CASE Free(<<"ERROR">>)
  BY <1>1, <1>2, FreeStep
<1>3. CASE Send("hello", "SENDING_HELLO")
  <2>1. state' = "SENDING_HELLO" /\ Writing("hello")' /\ events' = events
    BY <1>3, SendStep
  <2>2. QED BY <1>1, <2>1, ToldNothing DEF InState
<1>4. QED BY <1>2, <1>3 DEF continue_job_handler, Reserving, report_error

\* Whatever ends the handshake, also of the user.
LEMMA EndKeeps ==
    ASSUME SocksInv, connection_handler_closed \/ connection_handler_error \/ UserFrees
    PROVE  InState' /\ Told'
<1>1. Told
  BY DEF SocksInv
<1>2. state # "freed"
  BY DEF connection_handler_closed, connection_handler_error, UserFrees, SocksInv, InState, Quiet
<1>3. \/ Free(<<"ERROR">>) \/ Free(<<>>) \/ (state = "UP" /\ Free(<<"ERROR_CLOSED">>))
  BY DEF connection_handler_closed, connection_handler_error, UserFrees, report_error, ClosedEvent
<1>4. QED BY <1>1, <1>2, <1>3, FreeStep

\* What has been sent, and agreed to.
LEMMA TwoMembers ==
    ASSUME NEW S, NEW s \in Seq(S), Len(s) = 2
    PROVE  s = <<s[1], s[2]>>
OBVIOUS

LEMMA ThreeMembers ==
    ASSUME NEW S, NEW s \in Seq(S), Len(s) = 3
    PROVE  s = <<s[1], s[2], s[3]>>
OBVIOUS

LEMMA Appended ==
    ASSUME NEW x, NEW y, NEW z
    PROVE  /\ Append(<<>>, x) = <<x>>
           /\ Append(<<x>>, y) = <<x, y>>
           /\ Append(<<x, y>>, z) = <<x, y, z>>
<1> DEFINE S == {x, y, z}
<1>1. Append(<<>>, x) = <<x>>
  OBVIOUS
<1>2. Append(<<x>>, y) = <<x, y>>
  <2> DEFINE s == Append(<<x>>, y)
  <2>1. s \in Seq(S) /\ Len(s) = 2 /\ s[1] = x /\ s[2] = y
    OBVIOUS
  <2>2. s = <<s[1], s[2]>>
    BY <2>1, TwoMembers
  <2>3. QED BY <2>1, <2>2
<1>3. Append(<<x, y>>, z) = <<x, y, z>>
  <2> DEFINE s == Append(<<x, y>>, z)
  <2>1. s \in Seq(S) /\ Len(s) = 3 /\ s[1] = x /\ s[2] = y /\ s[3] = z
    OBVIOUS
  <2>2. s = <<s[1], s[2], s[3]>>
    BY <2>1, ThreeMembers
  <2>3. QED BY <2>1, <2>2
<1>4. QED BY <1>1, <1>2, <1>3

LEMMA AgreedBytes ==
    /\ Agreed("none") = <<"5", "none">> /\ Agreed("password") = <<"5", "password">> \o <<"1", "0">>
    /\ \A m \in Methods : Agreed(m) \in Bytes
    /\ <<"5", "password">> \in Bytes
<1>1. <<"5", "none">> \in Bytes /\ <<"5", "password">> \in Bytes /\ <<"1", "0">> \in Bytes
  BY DEF Bytes, Byte
<1>2. <<"5", "none">> \o <<>> = <<"5", "none">>
  BY <1>1, ConcatEmptySeq DEF Bytes
<1>3. Agreed("none") = <<"5", "none">> /\ Agreed("password") = <<"5", "password">> \o <<"1", "0">>
  BY <1>2 DEF Agreed
<1>4. <<"5", "password">> \o <<"1", "0">> \in Bytes
  BY <1>1, ConcatProperties DEF Bytes
<1>5. QED BY <1>1, <1>3, <1>4 DEF Methods

\* A message, or a part of it, has been sent.
LEMMA WriteKeeps ==
    ASSUME SocksInv, NEW n \in 1..MessageLen, Write(n)
    PROVE  InState' /\ Told'
<1>1. n \in 1..out_left /\ read' = read /\ Told
  BY DEF Write, SocksInv
<1>2. CASE n < out_left
  <2>1. /\ out_left' = out_left - n
        /\ UNCHANGED <<state, buffer, content, out, recv_len, recv_total, events, sent, read>>
    BY <1>2 DEF Write
  <2>2. state \in Sending
    BY <1>1 DEF SocksInv, InState, Quiet, Reading, Sending
  <2>3. ASSUME NEW message, Writing(message) PROVE Writing(message)'
    BY <1>2, <2>1, <2>3, SocksClientAssumption DEF Writing
  <2>4. InState'
    BY <2>1, <2>2, <2>3 DEF SocksInv, InState, Sending
  <2>5. QED BY <1>1, <2>1, <2>4 DEF Told, EventsInOrder
<1>3. CASE n >= out_left
  <2>1. send_handler_done /\ sent' = Append(sent, out)
    BY <1>1, <1>3 DEF Write, SocksInv, InState, Quiet, Writing, Reading
  <2>2. state \in Sending
    BY <1>1 DEF SocksInv, InState, Quiet, Reading, Sending
  <2>3. CASE Free(<<"ERROR">>)
    BY <1>1, <2>2, <2>3, FreeStep DEF Sending
  <2>4. CASE state = "SENDING_HELLO" /\ ~Free(<<"ERROR">>)
    <3>1. start_receive(HelloLen, <<>>, HelloLen, "SENT_HELLO")
      BY <2>1, <2>4 DEF send_handler_done, HelloSent, Reserving, report_error
    <3>2. state' = "SENT_HELLO" /\ Reading(HelloLen, 0, HelloLen)' /\ content' = <<>>
          /\ events' = events
      BY <3>1, ReceiveStep, Lengths
    <3>3. sent = <<>> /\ out = "hello" /\ read = <<>>
      BY <2>4 DEF SocksInv, InState, Writing
    <3>4. sent' = <<"hello">>
      BY <2>1, <3>3, Appended
    <3>5. QED BY <1>1, <2>4, <3>2, <3>3, <3>4, ToldNothing DEF InState
  <2>5. CASE state = "SENDING_PASSWORD" /\ ~Free(<<"ERROR">>)
    <3>1. start_receive(PasswordReplyLen, <<>>, PasswordReplyLen, "SENT_PASSWORD")
      BY <2>1, <2>5 DEF send_handler_done, PasswordSent, Reserving, report_error
    <3>2. state' = "SENT_PASSWORD" /\ Reading(PasswordReplyLen, 0, PasswordReplyLen)'
          /\ content' = <<>> /\ events' = events
      BY <3>1, ReceiveStep, Lengths
    <3>3. sent = <<"hello">> /\ out = "password" /\ read = <<"5", "password">> /\ Allowed("password")
      BY <2>5 DEF SocksInv, InState, Writing
    <3>4. sent' = Before("password")
      BY <2>1, <3>3, Appended DEF Before
    <3>5. read' = <<"5", "password">> \o content'
      BY <1>1, <3>2, <3>3, AgreedBytes, ConcatEmptySeq DEF Bytes
    <3>6. Allowed("password")'
      BY <3>3 DEF Allowed
    <3>7. QED BY <1>1, <2>5, <3>2, <3>4, <3>5, <3>6, ToldNothing DEF InState
  <2>6. CASE state = "SENDING_REQUEST" /\ ~Free(<<"ERROR">>)
    <3>1. start_receive(ReplyHeaderLen + AddrLen("6"), <<>>, ReplyHeaderLen, "SENT_REQUEST")
      BY <2>1, <2>6 DEF send_handler_done, RequestSent, Reserving, report_error
    <3>2. state' = "SENT_REQUEST" /\ Reading(ReplyHeaderLen + AddrLen("6"), 0, ReplyHeaderLen)'
          /\ content' = <<>> /\ events' = events
      BY <3>1, ReceiveStep, Lengths
    <3>3. PICK m \in Methods : Allowed(m) /\ sent = Before(m) /\ read = Agreed(m)
      BY <2>6 DEF SocksInv, InState
    <3>4. out = "request"
      BY <2>6 DEF SocksInv, InState, Writing
    <3>5. sent' = Asked(m)
      BY <2>1, <3>3, <3>4, Appended DEF Before, Asked
    <3>6. read' = Agreed(m) \o content'
      BY <1>1, <3>2, <3>3, AgreedBytes, ConcatEmptySeq DEF Bytes
    <3>7. QED BY <1>1, <2>6, <3>2, <3>3, <3>5, <3>6, ToldNothing DEF InState, Allowed
  <2>7. QED BY <2>2, <2>3, <2>4, <2>5, <2>6 DEF Sending
<1>4. QED
  <2>1. out_left \in Nat
    BY SocksClientAssumption DEF SocksInv, InState, Quiet, Reading, Writing
  <2>2. QED BY <1>1, <1>2, <1>3, <2>1

LEMMA Concatenated ==
    ASSUME NEW s \in Bytes, NEW t \in Bytes
    PROVE  s \o t \in Bytes
BY ConcatProperties DEF Bytes

LEMMA Members ==
    ASSUME NEW s \in Bytes, NEW t \in Bytes
    PROVE  /\ Len(s) \in Nat /\ Len(t) \in Nat /\ Len(s \o t) = Len(s) + Len(t)
           /\ \A i \in 1..Len(s) : (s \o t)[i] = s[i]
           /\ \A i \in 1..Len(t) : (s \o t)[Len(s) + i] = t[i]
<1>1. s \in Seq(Byte) /\ t \in Seq(Byte) /\ Len(s) \in Nat /\ Len(t) \in Nat
  BY DEF Bytes
<1>2. /\ Len(s \o t) = Len(s) + Len(t)
      /\ \A i \in 1..Len(s) + Len(t) : (s \o t)[i] = IF i <= Len(s) THEN s[i] ELSE t[i - Len(s)]
  BY <1>1, ConcatProperties
<1>3. ASSUME NEW i \in 1..Len(t) PROVE (s \o t)[Len(s) + i] = t[i]
  <2>1. Len(s) + i \in 1..Len(s) + Len(t) /\ ~(Len(s) + i <= Len(s)) /\ (Len(s) + i) - Len(s) = i
    BY <1>1
  <2>2. QED BY <1>2, <2>1
<1>4. ASSUME NEW i \in 1..Len(s) PROVE (s \o t)[i] = s[i]
  BY <1>1, <1>2
<1>5. QED BY <1>1, <1>2, <1>3, <1>4

LEMMA Associated ==
    ASSUME NEW s \in Bytes, NEW t \in Bytes, NEW u \in Bytes
    PROVE  (s \o t) \o u = s \o (t \o u)
<1>1. s \in Seq(Byte) /\ t \in Seq(Byte) /\ u \in Seq(Byte)
  BY DEF Bytes
<1>2. QED BY <1>1, ConcatAssociative

\* A piece of an answer, or the rest of it, is read.
LEMMA PieceRead ==
    ASSUME SocksInv, NEW n \in 1..ReplyHeaderLen, recv_handler_done(n),
           NEW d, d = SubSeq(stream, 1, n), NEW c, c = content \o d
    PROVE  /\ c \in Bytes /\ Len(c) = Len(content) + n
           /\ \A i \in 1..Len(content) : c[i] = content[i]
           /\ read' \in Bytes /\ stream' \in Bytes /\ read' \o stream' = read \o stream
           /\ \A base \in Bytes : read = base \o content => read' = base \o c
<1> DEFINE e == SubSeq(stream, n + 1, Len(stream))
<1>1. /\ content \in Seq(Byte) /\ stream \in Seq(Byte) /\ read \in Seq(Byte)
      /\ n \in Nat \ {0} /\ n <= Len(stream) /\ Len(stream) \in Nat
      /\ stream' = e /\ read' = read \o d
  BY DEF SocksInv, Typed, Bytes, recv_handler_done, ReplyHeaderLen
<1>2. d \in Seq(Byte) /\ Len(d) = n
  <2>1. \A i \in 1..n : stream[i] \in Byte
    BY <1>1, ElementOfSeq
  <2>2. QED BY <1>1, <2>1, SubSeqProperties
<1>3. e \in Seq(Byte)
  <2>1. \A i \in n + 1..Len(stream) : stream[i] \in Byte
    BY <1>1, ElementOfSeq
  <2>2. QED BY <1>1, <2>1, SubSeqProperties
<1>4. d \o e = stream
  <2>1. 1 \in 1..Len(stream) + 1 /\ n \in 1 - 1..Len(stream) /\ Len(stream) \in n..Len(stream)
    BY <1>1
  <2>2. SubSeq(stream, 1, n) \o SubSeq(stream, n + 1, Len(stream)) = SubSeq(stream, 1, Len(stream))
    BY <1>1, <2>1, ConcatAdjacentSubSeq
  <2>3. QED BY <1>1, <2>2, SubSeqFull
<1> HIDE DEF e
<1>5. /\ c \in Seq(Byte) /\ Len(c) = Len(content) + n
      /\ \A i \in 1..Len(content) : c[i] = content[i]
  <2>1. /\ content \o d \in Seq(Byte) /\ Len(content \o d) = Len(content) + Len(d)
        /\ \A i \in 1..Len(content) + Len(d) :
              (content \o d)[i] = IF i <= Len(content) THEN content[i] ELSE d[i - Len(content)]
    BY <1>1, <1>2, ConcatProperties
  <2>2. Len(content) \in Nat
    BY <1>1
  <2>3. QED BY <1>2, <2>1, <2>2
<1>6. read \o d \in Seq(Byte) /\ (read \o d) \o e = read \o (d \o e)
  <2>1. read \in Bytes /\ d \in Bytes /\ e \in Bytes
    BY <1>1, <1>2, <1>3 DEF Bytes
  <2>2. read \o d \in Bytes
    BY <2>1, Concatenated
  <2>3. (read \o d) \o e = read \o (d \o e)
    BY <2>1, Associated
  <2>4. QED BY <2>2, <2>3 DEF Bytes
<1>7. ASSUME NEW base \in Bytes, read = base \o content PROVE read' = base \o c
  <2>1. (base \o content) \o d = base \o (content \o d)
    <3>1. content \in Bytes /\ d \in Bytes
      BY <1>1, <1>2 DEF Bytes
    <3>2. QED BY <3>1, Associated
  <2>2. QED BY <1>1, <1>7, <2>1
<1>8. read' \o stream' = read \o stream
  BY <1>1, <1>4, <1>6
<1>9. QED BY <1>1, <1>3, <1>5, <1>6, <1>7, <1>8 DEF Bytes

\* A client that receives is in a state that says what.
LEMMA ReceiverState ==
    ASSUME SocksInv, recv_total > 0
    PROVE  state \in Receiving /\ state \notin {"CONNECTING", "UP", "freed"}
BY DEF SocksInv, InState, Quiet, Writing, Receiving

LEMMA ReadingNow ==
    ASSUME SocksInv, NEW n \in 1..ReplyHeaderLen, recv_handler_done(n)
    PROVE  /\ recv_total > 0 /\ n \in 1..recv_total - recv_len
           /\ recv_total \in Nat /\ recv_len \in Nat
<1>1. n \in 1..recv_total - recv_len /\ n \in Nat \ {0}
  BY DEF recv_handler_done, ReplyHeaderLen
<1>2. recv_total \in Nat /\ recv_len \in Nat
  BY AddrBytes, Lengths DEF SocksInv, InState, Quiet, Writing, Reading
<1>3. QED BY <1>1, <1>2

\* More is to come of the same answer.
LEMMA PartKeeps ==
    ASSUME SocksInv, NEW n \in 1..ReplyHeaderLen, recv_handler_done(n), recv_len + n < recv_total
    PROVE  InState' /\ Told' /\ content' \in Bytes
<1> DEFINE d == SubSeq(stream, 1, n)
           c == content \o d
<1>1. /\ content' = c /\ recv_len' = recv_len + n
      /\ UNCHANGED <<state, buffer, out, out_left, recv_total, events, sent>>
  BY DEF recv_handler_done, do_receive
<1>2. /\ c \in Bytes /\ Len(c) = Len(content) + n
      /\ \A i \in 1..Len(content) : c[i] = content[i]
      /\ \A base \in Bytes : read = base \o content => read' = base \o c
  <2>1. d = SubSeq(stream, 1, n) /\ c = content \o d
    OBVIOUS
  <2> HIDE DEF c, d
  <2>2. QED BY <2>1, PieceRead
<1>3. content \in Bytes /\ Len(content) \in Nat /\ n \in Nat \ {0}
  BY DEF SocksInv, Typed, Bytes, ReplyHeaderLen
<1> HIDE DEF c, d
<1>4. ASSUME NEW size, NEW skip \in {0, 3}, NEW total \in {1, 2, 3}, Reading(size, skip, total)
      PROVE  Reading(size, skip, total)'
  <2>1. recv_total = total /\ recv_len \in 0..total - 1 /\ Len(content) = skip + recv_len
    BY <1>4 DEF Reading
  <2>2. recv_len + n \in 0..total - 1 /\ Len(c) = skip + (recv_len + n)
    BY <1>2, <1>3, <2>1
  <2>3. QED BY <1>1, <1>4, <2>2 DEF Reading
<1>5. recv_total > 0
  BY ReadingNow
<1>6. state \in Receiving /\ Told
  BY <1>5, ReceiverState DEF SocksInv
<1>7. CASE state = "SENT_HELLO"
  <2>1. Reading(HelloLen, 0, HelloLen) /\ sent = <<"hello">> /\ read = content
    BY <1>7 DEF SocksInv, InState
  <2>2. read = <<>> \o content
    BY <1>3, <2>1, ConcatEmptySeq DEF Bytes
  <2>3. read' = <<>> \o c
    BY <1>2, <2>2, Lengths
  <2>4. read' = content'
    BY <1>1, <1>2, <2>3, ConcatEmptySeq DEF Bytes
  <2>5. Reading(HelloLen, 0, HelloLen)'
    BY <1>4, <2>1, Lengths
  <2>6. QED BY <1>1, <1>2, <1>6, <1>7, <2>1, <2>4, <2>5, ToldNothing DEF InState
<1>8. CASE state = "SENT_PASSWORD"
  <2>1. /\ Reading(PasswordReplyLen, 0, PasswordReplyLen) /\ Allowed("password")
        /\ sent = Before("password") /\ read = <<"5", "password">> \o content
    BY <1>8 DEF SocksInv, InState
  <2>2. read' = <<"5", "password">> \o c
    BY <1>2, <2>1, AgreedBytes
  <2>3. Reading(PasswordReplyLen, 0, PasswordReplyLen)'
    BY <1>4, <2>1, Lengths
  <2>4. QED BY <1>1, <1>2, <1>6, <1>8, <2>1, <2>2, <2>3, ToldNothing DEF InState, Allowed
<1>9. CASE state = "SENT_REQUEST"
  <2>1. Reading(ReplyHeaderLen + AddrLen("6"), 0, ReplyHeaderLen)
    BY <1>9 DEF SocksInv, InState
  <2>2. PICK m \in Methods : Allowed(m) /\ sent = Asked(m) /\ read = Agreed(m) \o content
    BY <1>9 DEF SocksInv, InState
  <2>3. read' = Agreed(m) \o c
    BY <1>2, <2>2, AgreedBytes
  <2>4. Reading(ReplyHeaderLen + AddrLen("6"), 0, ReplyHeaderLen)'
    BY <1>4, <2>1, Lengths
  <2>5. QED BY <1>1, <1>2, <1>6, <1>9, <2>2, <2>3, <2>4, ToldNothing DEF InState, Allowed
<1>10. CASE state = "RECEIVED_REPLY_HEADER"
  <2>1. PICK m \in Methods, atyp \in {"4", "6"} :
             /\ Reading(ReplyHeaderLen + AddrLen("6"), ReplyHeaderLen, AddrLen(atyp))
             /\ content[1] = "5" /\ content[2] = "0" /\ content[3] = atyp
             /\ Allowed(m) /\ sent = Asked(m) /\ read = Agreed(m) \o content
    BY <1>10 DEF SocksInv, InState
  <2>2. read' = Agreed(m) \o c
    BY <1>2, <2>1, AgreedBytes
  <2>3. Reading(ReplyHeaderLen + AddrLen("6"), ReplyHeaderLen, AddrLen(atyp))'
    BY <1>4, <2>1, AddrBytes, Lengths
  <2>4. Len(content) >= 3
    BY <1>3, <2>1, AddrBytes, Lengths DEF Reading
  <2>5. c[1] = "5" /\ c[2] = "0" /\ c[3] = atyp
    BY <1>2, <1>3, <2>1, <2>4
  <2>6. QED BY <1>1, <1>2, <1>6, <1>10, <2>1, <2>2, <2>3, <2>5, ToldNothing DEF InState, Allowed
<1>11. QED BY <1>6, <1>7, <1>8, <1>9, <1>10 DEF Receiving

LEMMA RequestIsSent ==
    ASSUME Told, state \in Receiving, auth_finished
    PROVE  \/ InState' /\ Told' /\ content' = <<>>
           \/ /\ state' = "SENDING_REQUEST" /\ Writing("request")' /\ content' = <<>> /\ Told'
<1>1. CASE Free(<<"ERROR">>)
  <2>1. InState' /\ Told'
    BY <1>1, FreeStep DEF Receiving
  <2>2. content' = <<>>
    BY <1>1 DEF Free
  <2>3. QED BY <2>1, <2>2
<1>2. CASE Send("request", "SENDING_REQUEST")
  <2>1. state' = "SENDING_REQUEST" /\ Writing("request")' /\ events' = events
    BY <1>2, SendStep
  <2>2. QED BY <2>1, ToldNothing DEF Receiving, Writing
<1>3. QED BY <1>1, <1>2 DEF auth_finished, Reserving, report_error

\* The address of the answer that grants the request.
LEMMA AddressFollows ==
    ASSUME SocksInv, NEW n \in 1..ReplyHeaderLen, recv_handler_done(n),
           NEW m \in Methods, NEW atyp \in {"4", "6"},
           NEW c \in Bytes, Len(c) = 3 + AddrLen(atyp),
           c[1] = "5", c[2] = "0", c[3] = atyp,
           read' = Agreed(m) \o c, stream' \in Bytes, read' \o stream' = read \o stream
    PROVE  read' = AnsweredTo(m, atyp)
<1> DEFINE b == Agreed(m)
           h == <<"5", "0", atyp>>
           a == Addr(AddrLen(atyp))
           all == read \o stream
<1>1. b \in Bytes /\ a \in Bytes /\ h \in Bytes /\ Len(b) \in Nat
  <2>1. b \in Bytes /\ a \in Bytes
    BY AgreedBytes, AddrBytes
  <2>2. h \in Bytes
    BY DEF Bytes, Byte
  <2>3. QED BY <2>1, <2>2 DEF Bytes
<1>2. AddrLen(atyp) \in 1..2 /\ (atyp = "4" => AddrLen(atyp) = 1)
      /\ (atyp = "6" => AddrLen(atyp) = 2)
  BY AddrBytes
<1>3. Granted(all)
  BY DEF SocksInv, WholeAnswers
<1>4. all = (b \o c) \o stream'
  OBVIOUS
<1> HIDE DEF b, all
<1> DEFINE p == b \o c
<1>5. /\ p \in Bytes /\ Len(p) = Len(b) + Len(c) /\ Len(c) \in Nat
      /\ \A i \in 1..Len(c) : p[Len(b) + i] = c[i]
  BY <1>1, Concatenated, Members
<1>p. all = p \o stream'
  BY <1>4
<1> HIDE DEF p
<1>6. /\ Len(all) >= Len(b) + Len(c) /\ Len(all) \in Nat
      /\ \A i \in 1..Len(c) : all[Len(b) + i] = c[i]
  <2>1. /\ Len(stream') \in Nat /\ Len(p \o stream') = Len(p) + Len(stream')
        /\ \A i \in 1..Len(p) : (p \o stream')[i] = p[i]
    BY <1>5, Members
  <2>2. \A i \in 1..Len(c) : Len(b) + i \in 1..Len(p)
    BY <1>1, <1>5
  <2>3. Len(all) = Len(b) + Len(c) + Len(stream')
    BY <1>1, <1>5, <1>p, <2>1
  <2>4. ASSUME NEW i \in 1..Len(c) PROVE all[Len(b) + i] = c[i]
    <3>1. all[Len(b) + i] = p[Len(b) + i]
      BY <1>p, <2>1, <2>2
    <3>2. QED BY <1>5, <3>1
  <2>5. QED BY <1>1, <1>5, <2>1, <2>3, <2>4
<1>7. \A i \in 4..Len(c) : c[i] = "a"
  <2> DEFINE k == Len(b) + 1
  <2>1. /\ all[k] = "5" /\ all[k + 1] = "0" /\ all[k + 2] = atyp
        /\ k \in 1..Len(all) - 1
    <3>1. Len(b) + 1 + 1 = Len(b) + 2 /\ Len(b) + 1 + 2 = Len(b) + 3 /\ 1 \in 1..Len(c)
          /\ 2 \in 1..Len(c) /\ 3 \in 1..Len(c)
      BY <1>1, <1>2
    <3>2. QED BY <1>1, <1>2, <1>6, <3>1
  <2>2. /\ all[k + 2] \in {"4", "6"} => all[k + 3] = "a"
        /\ all[k + 2] = "6" => all[k + 4] = "a"
    BY <1>3, <2>1 DEF Granted
  <2>3. all[k + 3] = "a" /\ (atyp = "6" => all[k + 4] = "a")
    BY <2>1, <2>2
  <2>4. k + 3 = Len(b) + 4 /\ k + 4 = Len(b) + 5
    BY <1>1
  <2> HIDE DEF k
  <2>5. ASSUME NEW i \in 4..Len(c) PROVE c[i] = "a"
    <3>1. i \in 1..Len(c) /\ (i = 4 \/ (i = 5 /\ atyp = "6"))
      BY <1>2, <2>5
    <3>2. QED BY <1>6, <2>3, <2>4, <3>1
  <2>6. QED BY <2>5
<1>8. c = h \o a
  <2>1. /\ h \o a \in Bytes /\ Len(h \o a) = 3 + AddrLen(atyp)
        /\ (h \o a)[1] = "5" /\ (h \o a)[2] = "0" /\ (h \o a)[3] = atyp
        /\ \A i \in 4..Len(h \o a) : (h \o a)[i] = "a"
    BY GrantBytes
  <2> DEFINE t == h \o a
  <2> HIDE DEF t
  <2>2. /\ t \in Bytes /\ Len(t) = Len(c) /\ t[1] = "5" /\ t[2] = "0" /\ t[3] = atyp
        /\ \A i \in 4..Len(c) : t[i] = "a"
    BY <2>1 DEF t
  <2>3. \A i \in 1..Len(c) : c[i] = t[i]
    BY <1>2, <1>7, <2>2
  <2>4. c = t
    BY <2>2, <2>3, SeqEqual DEF Bytes
  <2>5. QED BY <2>4 DEF t
<1>9. read' = (b \o h) \o a
  <2>1. read' = b \o (h \o a)
    BY <1>8 DEF b
  <2>2. (b \o h) \o a = b \o (h \o a)
    <3> HIDE DEF h, a
    <3>1. QED BY <1>1, Associated
  <2>3. QED BY <2>1, <2>2
<1>10. QED
  <2>1. AnsweredTo(m, atyp) = (Agreed(m) \o h) \o a
    BY DEF AnsweredTo, Agreed
  <2>2. QED BY <1>9, <2>1 DEF b

\* The rest of an answer is read, and decides what comes next.
LEMMA WholeKeeps ==
    ASSUME SocksInv, NEW n \in 1..ReplyHeaderLen, recv_handler_done(n), recv_len + n >= recv_total
    PROVE  InState' /\ Told' /\ content' \in Bytes
<1> DEFINE d == SubSeq(stream, 1, n)
           c == content \o d
<1>1. Received(c) /\ sent' = sent
  <2>1. ~(recv_len + n < recv_total)
    BY ReadingNow
  <2>2. QED BY <2>1 DEF recv_handler_done
<1>2. /\ c \in Bytes /\ Len(c) = Len(content) + n
      /\ \A i \in 1..Len(content) : c[i] = content[i]
      /\ read' \in Bytes /\ stream' \in Bytes /\ read' \o stream' = read \o stream
      /\ \A base \in Bytes : read = base \o content => read' = base \o c
  <2>1. d = SubSeq(stream, 1, n) /\ c = content \o d
    OBVIOUS
  <2> HIDE DEF c, d
  <2>2. QED BY <2>1, PieceRead
<1> HIDE DEF c, d
<1>3. content \in Bytes /\ Len(content) \in Nat /\ n \in Nat \ {0} /\ Told
  BY DEF SocksInv, Typed, Bytes, ReplyHeaderLen
<1>4. recv_total > 0 /\ n \in 1..recv_total - recv_len
  BY ReadingNow
<1>5. state \in Receiving /\ state # "freed"
  BY <1>4, ReceiverState
<1>6. ASSUME NEW size, NEW skip \in {0, 3}, NEW total \in {1, 2, 3}, Reading(size, skip, total)
      PROVE  Len(c) = skip + total /\ buffer = size
  <2>1. recv_total = total /\ recv_len \in 0..total - 1 /\ Len(content) = skip + recv_len
        /\ buffer = size
    BY <1>6 DEF Reading
  <2>2. QED BY <1>2, <1>3, <1>4, <2>1
<1>f. CASE Free(<<"ERROR">>)
  <2>1. InState' /\ Told'
    BY <1>3, <1>5, <1>f, FreeStep
  <2>2. content' = <<>>
    BY <1>f DEF Free
  <2>3. QED BY <2>1, <2>2, Lengths
<1>7. CASE state = "SENT_HELLO" /\ ~Free(<<"ERROR">>)
  <2>1. Reading(HelloLen, 0, HelloLen) /\ sent = <<"hello">> /\ read = content
    BY <1>7 DEF SocksInv, InState
  <2>2. read' = c
    <3>1. read = <<>> \o content
      BY <1>3, <2>1, ConcatEmptySeq DEF Bytes
    <3>2. read' = <<>> \o c
      BY <1>2, <3>1, Lengths
    <3>3. QED BY <1>2, <3>2, ConcatEmptySeq DEF Bytes
  <2>3. Len(c) = 2
    BY <1>6, <2>1, Lengths
  <2>4. HelloReceived(c)
    BY <1>1, <1>7 DEF Received
  <2>5. c[1] = "5" /\ c[2] \in auth_info /\ c[2] \in Methods
    BY <1>7, <2>4, SocksClientAssumption DEF HelloReceived, report_error
  <2>6. c = <<"5", c[2]>>
    BY <1>2, <2>3, <2>5, TwoMembers DEF Bytes
  <2>7. CASE c[2] = "none"
    <3>1. auth_finished
      BY <1>7, <2>4, <2>5, <2>7 DEF HelloReceived, report_error
    <3>2. \/ InState' /\ Told' /\ content' = <<>>
          \/ state' = "SENDING_REQUEST" /\ Writing("request")' /\ content' = <<>> /\ Told'
      BY <1>3, <1>5, <3>1, RequestIsSent
    <3>3. Allowed("none") /\ sent' = Before("none") /\ read' = Agreed("none") /\ "none" \in Methods
      BY <1>1, <2>1, <2>2, <2>5, <2>6, <2>7, AgreedBytes DEF Allowed, Before
    <3>4. QED BY <3>2, <3>3, Lengths DEF InState, Allowed
  <2>8. CASE c[2] = "password"
    <3>1. PasswordFits /\ Send("password", "SENDING_PASSWORD")
      BY <1>7, <2>4, <2>5, <2>8 DEF HelloReceived, report_error, Reserving
    <3>2. state' = "SENDING_PASSWORD" /\ Writing("password")' /\ events' = events
      BY <3>1, SendStep
    <3>3. Allowed("password") /\ sent' = <<"hello">> /\ read' = <<"5", "password">>
      BY <1>1, <2>1, <2>2, <2>5, <2>6, <2>8, <3>1 DEF Allowed
    <3>4. InState'
      BY <3>2, <3>3 DEF InState, Allowed
    <3>5. content' = <<>>
      BY <3>1 DEF Send
    <3>6. QED BY <1>3, <1>7, <3>2, <3>4, <3>5, ToldNothing, Lengths
  <2>9. QED BY <2>5, <2>7, <2>8 DEF Methods
<1>8. CASE state = "SENT_PASSWORD" /\ ~Free(<<"ERROR">>)
  <2>1. /\ Reading(PasswordReplyLen, 0, PasswordReplyLen) /\ Allowed("password")
        /\ sent = Before("password") /\ read = <<"5", "password">> \o content
    BY <1>8 DEF SocksInv, InState
  <2>2. read' = <<"5", "password">> \o c
    BY <1>2, <2>1, AgreedBytes
  <2>3. Len(c) = 2
    BY <1>6, <2>1, Lengths
  <2>4. PasswordReceived(c)
    BY <1>1, <1>8 DEF Received
  <2>5. c[1] = "1" /\ c[2] = "0" /\ auth_finished
    BY <1>8, <2>4 DEF PasswordReceived, report_error
  <2>6. c = <<"1", "0">>
    BY <1>2, <2>3, <2>5, TwoMembers DEF Bytes
  <2>7. \/ InState' /\ Told' /\ content' = <<>>
        \/ state' = "SENDING_REQUEST" /\ Writing("request")' /\ content' = <<>> /\ Told'
    BY <1>3, <1>5, <2>5, RequestIsSent
  <2>8. /\ Allowed("password") /\ sent' = Before("password") /\ read' = Agreed("password")
        /\ "password" \in Methods
    BY <1>1, <2>1, <2>2, <2>6, AgreedBytes DEF Methods
  <2>9. QED BY <2>7, <2>8, Lengths DEF InState, Allowed
<1>9. CASE state = "SENT_REQUEST" /\ ~Free(<<"ERROR">>)
  <2>1. Reading(ReplyHeaderLen + AddrLen("6"), 0, ReplyHeaderLen)
    BY <1>9 DEF SocksInv, InState
  <2>2. PICK m \in Methods : Allowed(m) /\ sent = Asked(m) /\ read = Agreed(m) \o content
    BY <1>9 DEF SocksInv, InState
  <2>3. read' = Agreed(m) \o c
    BY <1>2, <2>2, AgreedBytes
  <2>4. Len(c) = 3 /\ buffer = ReplyHeaderLen + AddrLen("6")
    BY <1>6, <2>1, Lengths
  <2>5. ReplyReceived(c)
    BY <1>1, <1>9 DEF Received
  <2>6. /\ c[1] = "5" /\ c[2] = "0" /\ c[3] \in {"4", "6"}
        /\ start_receive(buffer, c, AddrLen(c[3]), "RECEIVED_REPLY_HEADER")
    BY <1>9, <2>5 DEF ReplyReceived, report_error
  <2>7. PICK atyp \in {"4", "6"} : c[3] = atyp
    BY <2>6
  <2>8. /\ state' = "RECEIVED_REPLY_HEADER" /\ content' = c /\ events' = events
        /\ out' = "none" /\ out_left' = 0 /\ recv_len' = 0 /\ recv_total' = AddrLen(atyp)
        /\ buffer' = buffer
    BY <2>6, <2>7 DEF start_receive
  <2>9. Reading(ReplyHeaderLen + AddrLen("6"), ReplyHeaderLen, AddrLen(atyp))'
    <3>1. AddrLen(atyp) \in 1..2 /\ 0 \in 0..AddrLen(atyp) - 1
      BY AddrBytes
    <3>2. Len(content') = ReplyHeaderLen + recv_len'
      BY <2>4, <2>8, Lengths
    <3>3. ReplyHeaderLen + AddrLen(atyp) <= ReplyHeaderLen + AddrLen("6")
      BY <3>1, Lengths
    <3>4. QED BY <2>4, <2>8, <3>1, <3>2, <3>3 DEF Reading
  <2>10. Told'
    BY <1>3, <1>9, <2>8, ToldNothing
  <2>11. InState'
    <3>1. content'[1] = "5" /\ content'[2] = "0" /\ content'[3] = atyp
      BY <2>6, <2>7, <2>8
    <3>2. read' = Agreed(m) \o content' /\ sent' = Asked(m) /\ Allowed(m)'
      BY <1>1, <2>2, <2>3, <2>8 DEF Allowed
    <3>3. QED BY <2>8, <2>9, <3>1, <3>2 DEF InState
  <2>12. QED BY <1>2, <2>8, <2>10, <2>11
<1>10. CASE state = "RECEIVED_REPLY_HEADER" /\ ~Free(<<"ERROR">>)
  <2>1. PICK m \in Methods, atyp \in {"4", "6"} :
             /\ Reading(ReplyHeaderLen + AddrLen("6"), ReplyHeaderLen, AddrLen(atyp))
             /\ content[1] = "5" /\ content[2] = "0" /\ content[3] = atyp
             /\ Allowed(m) /\ sent = Asked(m) /\ read = Agreed(m) \o content
    BY <1>10 DEF SocksInv, InState
  <2>2. read' = Agreed(m) \o c
    BY <1>2, <2>1, AgreedBytes
  <2>3. Len(c) = 3 + AddrLen(atyp)
    BY <1>6, <2>1, AddrBytes, Lengths
  <2>4. Len(content) >= 3
    BY <1>3, <2>1, AddrBytes, Lengths DEF Reading
  <2>5. c[1] = "5" /\ c[2] = "0" /\ c[3] = atyp
    <3>1. 1 \in 1..Len(content) /\ 2 \in 1..Len(content) /\ 3 \in 1..Len(content)
      BY <1>3, <2>4
    <3>2. \A i \in 1..Len(content) : c[i] = content[i]
      BY <1>2
    <3>3. QED BY <2>1, <3>1, <3>2
  <2>6. read' = AnsweredTo(m, atyp)
    BY <1>2, <2>2, <2>3, <2>5, AddressFollows
  <2>7. Up
    BY <1>1, <1>10 DEF Received
  <2>8. state' = "UP" /\ Quiet' /\ content' = <<>> /\ events' = Append(events, "UP")
    BY <2>7 DEF Up, NoIO, Quiet
  <2>9. UpMeansAgreed'
    BY <1>1, <2>1, <2>6 DEF UpMeansAgreed, Allowed
  <2>10. events' = <<"CONNECTED", "UP">>
    BY <1>3, <1>10, <2>8, EventSequences DEF Told
  <2>11. Told'
    BY <2>8, <2>10, EventSequences DEF Told, EventsInOrder
  <2>12. QED BY <2>8, <2>9, <2>11, Lengths DEF InState
<1>11. QED BY <1>5, <1>f, <1>7, <1>8, <1>9, <1>10 DEF Receiving

-----------------------------------------------------------------------------
(* The invariant *)

LEMMA SocksInit == Init => SocksInv
<1> SUFFICES ASSUME Init PROVE SocksInv
  OBVIOUS
<1>1. Typed
  <2>1. content \in Bytes /\ stream \in Bytes /\ read \in Bytes
    BY Lengths DEF Init
  <2>2. fin = FALSE /\ fault = FALSE /\ messages = 0
    BY DEF Init
  <2>3. 0 \in 0..MaxMessages
    BY SocksClientAssumption
  <2>4. QED BY <2>1, <2>2, <2>3 DEF Typed
<1>2. InState
  BY DEF Init, InState, Quiet
<1>3. Told
  BY ToldInOrder DEF Init, Told
<1>4. WholeAnswers
  <2>1. read \o stream = <<>>
    BY EventSequences DEF Init
  <2>2. Granted(<<>>)
    BY Lengths DEF Granted
  <2>3. QED BY <2>1, <2>2 DEF WholeAnswers
<1>5. QED BY <1>1, <1>2, <1>3, <1>4 DEF SocksInv

\* The steps of the client that read nothing.
LEMMA ClientNext ==
    ASSUME SocksInv,
           \/ \E is_error \in BOOLEAN : connector_handler(is_error)
           \/ continue_job_handler \/ SomeWrite
           \/ connection_handler_closed \/ connection_handler_error \/ UserFrees
    PROVE  SocksInv'
<1>1. InState' /\ Told'
  BY ConnectorKeeps, JobKeeps, WriteKeeps, EndKeeps DEF SomeWrite
<1>2. read' = read /\ stream' = stream /\ UNCHANGED server
  BY DEF connector_handler, continue_job_handler, SomeWrite, Write, connection_handler_closed,
         connection_handler_error, UserFrees
<1>3. content' \in {content, <<>>}
  <2>1. ASSUME NEW is_error \in BOOLEAN, connector_handler(is_error) PROVE content' \in {content, <<>>}
    BY <2>1 DEF connector_handler, report_error, Free
  <2>2. CASE continue_job_handler
    BY <2>2 DEF continue_job_handler, Reserving, report_error, Free, Send
  <2>3. CASE connection_handler_closed \/ connection_handler_error \/ UserFrees
    BY <2>3 DEF connection_handler_closed, connection_handler_error, UserFrees, report_error, Free
  <2>4. ASSUME NEW n \in 1..MessageLen, Write(n) PROVE content' \in {content, <<>>}
    <3>1. state \in Sending
      BY <2>4 DEF Write, SocksInv, InState, Quiet, Reading, Sending
    <3>2. \/ content' = content
          \/ HelloSent \/ PasswordSent \/ RequestSent
      BY <2>4, <3>1 DEF Write, send_handler_done, Sending
    <3>3. QED BY <3>2 DEF HelloSent, PasswordSent, RequestSent, Reserving, report_error, Free,
                          start_receive
  <2>5. QED BY <2>1, <2>2, <2>3, <2>4 DEF SomeWrite
<1>4. Typed'
  BY <1>2, <1>3, Lengths DEF SocksInv, Typed, server
<1>5. WholeAnswers'
  BY <1>2 DEF SocksInv, WholeAnswers
<1>6. QED BY <1>1, <1>4, <1>5 DEF SocksInv

LEMMA ReadNext ==
    ASSUME SocksInv, SomeRead PROVE SocksInv'
<1>1. PICK n \in 1..ReplyHeaderLen : recv_handler_done(n)
  BY DEF SomeRead
<1>2. InState' /\ Told' /\ content' \in Bytes
  <2>1. n \in Int /\ recv_len \in Nat /\ recv_total \in Nat
    BY <1>1, ReadingNow DEF ReplyHeaderLen
  <2>2. recv_len + n < recv_total \/ recv_len + n >= recv_total
    BY <2>1
  <2>3. QED BY <1>1, <2>2, PartKeeps, WholeKeeps
<1>3. read' \in Bytes /\ stream' \in Bytes /\ read' \o stream' = read \o stream
  BY <1>1, PieceRead
<1>4. UNCHANGED server
  BY <1>1 DEF recv_handler_done
<1>5. Typed'
  BY <1>2, <1>3, <1>4 DEF SocksInv, Typed, server
<1>6. WholeAnswers'
  BY <1>3 DEF SocksInv, WholeAnswers
<1>7. QED BY <1>2, <1>5, <1>6 DEF SocksInv

LEMMA ServerNext ==
    ASSUME SocksInv,
           (\E reply \in Replies : ServerSends(reply)) \/ ServerCloses \/ ConnectionFails
           \/ UNCHANGED vars
    PROVE  SocksInv'
<1>1. UNCHANGED control
  BY DEF ServerSends, ServerCloses, ConnectionFails, vars
<1>2. InState' /\ Told'
  BY <1>1 DEF control, SocksInv, InState, Told, EventsInOrder, UpMeansAgreed, Quiet, Writing,
              Reading, Allowed
<1>3. ASSUME NEW reply \in Replies, ServerSends(reply) PROVE Typed' /\ WholeAnswers'
  <2>1. reply \in Bytes /\ Len(reply) >= 1 /\ Granted(reply) /\ reply[Len(reply)] # "5"
    BY ReplyIsWhole
  <2>2. /\ stream' = stream \o reply /\ messages' = messages + 1 /\ messages < MaxMessages
        /\ UNCHANGED <<fin, fault>> /\ read' = read /\ content' = content
    BY <1>1, <1>3 DEF ServerSends, control
  <2>3. content \in Bytes /\ stream \in Bytes /\ read \in Bytes /\ messages \in 0..MaxMessages
        /\ {fin, fault} \subseteq BOOLEAN
    BY DEF SocksInv, Typed
  <2>4. stream' \in Bytes
    BY <2>1, <2>2, <2>3, Concatenated
  <2>5. messages' \in 0..MaxMessages
    BY <2>2, <2>3, SocksClientAssumption
  <2>6. Typed'
    BY <2>2, <2>3, <2>4, <2>5 DEF Typed
  <2> DEFINE all == read \o stream
  <2>7. all \in Bytes /\ Granted(all) /\ (all # <<>> => all[Len(all)] # "5")
    BY <2>3, Concatenated DEF SocksInv, WholeAnswers
  <2>8. read' \o stream' = all \o reply
    BY <2>1, <2>2, <2>3, Associated
  <2> HIDE DEF all
  <2>9. Granted(all \o reply) /\ (all \o reply)[Len(all \o reply)] # "5"
    BY <2>1, <2>7, WholeGrows
  <2>10. QED BY <2>6, <2>8, <2>9 DEF WholeAnswers
<1>4. ASSUME ServerCloses \/ ConnectionFails \/ UNCHANGED vars PROVE Typed' /\ WholeAnswers'
  <2>1. /\ stream' = stream /\ read' = read /\ content' = content /\ messages' = messages
        /\ fin' \in {fin, TRUE} /\ fault' \in {fault, TRUE}
    BY <1>1, <1>4 DEF ServerCloses, ConnectionFails, vars, server, control
  <2>2. fin \in BOOLEAN /\ fault \in BOOLEAN
    BY DEF SocksInv, Typed
  <2>3. Typed'
    BY <2>1, <2>2 DEF SocksInv, Typed
  <2>4. WholeAnswers'
    BY <2>1 DEF SocksInv, WholeAnswers
  <2>5. QED BY <2>3, <2>4
<1>5. Typed' /\ WholeAnswers'
  BY <1>3, <1>4
<1>6. QED BY <1>2, <1>5 DEF SocksInv

LEMMA SocksNext == SocksInv /\ [Next]_vars => SocksInv'
BY ClientNext, ReadNext, ServerNext DEF Next

\* The state says what the buffer and the streams are used for, what has been agreed to,
\* and what the user was told.
THEOREM SocksHolds == Spec => []SocksInv
BY SocksInit, SocksNext, PTL DEF Spec

\* The buffer and the two streams are used for one thing at a time, and always for one,
\* in whatever pieces the connection writes and reads.
THEOREM HandshakeAlwaysAgrees == Spec => []HandshakeAgrees
<1>1. SocksInv => HandshakeAgrees
  <2> SUFFICES ASSUME SocksInv PROVE HandshakeAgrees
    OBVIOUS
  <2>1. Typed /\ InState /\ MessageLen \in Nat \ {0}
    BY SocksClientAssumption DEF SocksInv
  <2>2. content \in Bytes /\ {fin, fault} \subseteq BOOLEAN /\ messages \in 0..MaxMessages
    BY <2>1 DEF Typed
  <2>3. CASE Quiet /\ state \in {"CONNECTING", "CONNECTED_HANDLER", "UP", "freed"}
    BY <2>1, <2>2, <2>3, Lengths
       DEF Quiet, HandshakeAgrees, TypeOK, BufferFits, NeverIdle, Sending, Receiving
  <2>4. ASSUME NEW message \in {"hello", "password", "request"}, Writing(message),
               state \in Sending
        PROVE  HandshakeAgrees
    BY <2>1, <2>2, <2>4, Lengths
       DEF Writing, HandshakeAgrees, TypeOK, BufferFits, NeverIdle, Sending, Receiving
  <2>5. ASSUME NEW size \in {2, 5}, NEW skip \in {0, 3}, NEW total \in {1, 2, 3},
               Reading(size, skip, total), state \in Receiving
        PROVE  HandshakeAgrees
    <3>1. /\ out = "none" /\ out_left = 0 /\ buffer = size /\ skip + total <= size
          /\ recv_total = total /\ recv_len \in 0..total - 1 /\ Len(content) = skip + recv_len
      BY <2>5 DEF Reading
    <3>2. TypeOK
      BY <2>1, <2>2, <2>5, <3>1, Lengths DEF TypeOK, Sending, Receiving
    <3>3. BufferFits
      BY <3>1 DEF BufferFits
    <3>4. NeverIdle
      BY <2>5, <3>1 DEF NeverIdle, Sending, Receiving
    <3>5. QED BY <3>2, <3>3, <3>4 DEF HandshakeAgrees
  <2>6. \/ Quiet /\ state \in {"CONNECTING", "CONNECTED_HANDLER", "UP", "freed"}
        \/ \E message \in {"hello", "password", "request"} : Writing(message) /\ state \in Sending
        \/ \E size \in {2, 5}, skip \in {0, 3}, total \in {1, 2, 3} :
              Reading(size, skip, total) /\ state \in Receiving
    BY <2>1, AddrBytes, Lengths DEF InState, Sending, Receiving
  <2>7. QED BY <2>3, <2>4, <2>5, <2>6
<1>2. QED BY <1>1, SocksHolds, PTL

\* The client is up only when the server has agreed to everything, and has read no byte
\* that belongs to the tunnel; the user is told so, in order.
THEOREM UserCanAlwaysRely == Spec => []UserCanRely
<1>1. SocksInv => UserCanRely
  <2> SUFFICES ASSUME SocksInv PROVE UserCanRely
    OBVIOUS
  <2>1. UpMeansAgreed
    BY DEF SocksInv, InState, UpMeansAgreed
  <2>2. EventsInOrder
    BY DEF SocksInv, Told
  <2>3. QED BY <2>1, <2>2 DEF UserCanRely
<1>2. QED BY <1>1, SocksHolds, PTL
=============================================================================
