--------------------------- MODULE ConnectionProofs ---------------------------
(***************************************************************************)
(* Proofs about Connection, for all limits and however much the peer       *)
(* sends.                                                                  *)
(*                                                                         *)
(* connection_send and connection_recv run in the middle of a handler:     *)
(* what is monitored, the jobs that are pending and what epoll told are    *)
(* then their parameters.  The invariant is stated over these, so that it  *)
(* says at the call what it says between two steps.                        *)
(***************************************************************************)
EXTENDS Connection, FiniteSetTheorems, SequenceTheorems, TLAPS

\* Before the user is told of the end there are both operations, and afterwards nothing.
Alive ==
    IF told = "no" THEN {send, recv} \subseteq {"READY", "BUSY"}
    ELSE /\ send = "NOT_INITED" /\ recv = "NOT_INITED"
         /\ jobs = <<>> /\ wait_events = {} /\ fetched = {}

\* What epoll told of the socket is so, and it tells nothing of one that hung up.
Reported(hupd, events) ==
    /\ "ERROR" \in events => fault # "no"
    /\ "HUP" \in events => fault # "no"
    /\ hupd => fault # "no" /\ events = {}

\* The sender is started, or goes on, or is over, and only once; it waits when it is busy.
Sending(waits, pending, hupd) ==
    /\ send = "BUSY" <=> "WRITE" \in waits /\ ~hupd
    /\ ~({"send_op", "send_done"} \subseteq pending)
    /\ pending \cap {"send_op", "send_done"} # {} => send = "READY"

ReceiverJobs == {"recv_op", "recv_done", "recv_job"}

\* So is the receiver, which also goes on in a job.
Receiving(waits, pending, hupd) ==
    /\ "READ" \in waits /\ ~hupd => recv = "BUSY"
    /\ recv = "BUSY" => ("READ" \in waits /\ ~hupd) \/ "recv_job" \in pending
    /\ "recv_job" \in pending => recv = "BUSY"
    /\ pending \cap {"recv_op", "recv_done"} # {} => recv = "READY"
    /\ \A x, y \in pending \cap ReceiverJobs : x = y

Reading == unread > 0 /\ recv_count < BCONNECTION_RECV_LIMIT

\* A receiver that is still waited for when an error makes it go on has nothing to read, or is
\* made to wait again by the limit.
WaitsOn(waits, pending, hupd, events) ==
    /\ "ERROR" \in events /\ "READ" \in waits /\ "READ" \notin events => ~Reading
    /\ "recv_job" \in pending /\ "READ" \in waits /\ ~hupd => fault # "no" /\ ~Reading

Going(waits, pending, hupd, events) ==
    /\ Reported(hupd, events) /\ WaitsOn(waits, pending, hupd, events)
    /\ Sending(waits, pending, hupd) /\ Receiving(waits, pending, hupd)

ConnectionInv ==
    /\ TypeOK /\ Alive /\ ToldTheTruth
    /\ told = "no" => Going(wait_events, Range(jobs), is_hupd, fetched)

-----------------------------------------------------------------------------
(* Lists without repetition *)

\* The first job is taken off, and is not pending any more.
LEMMA TakenOff ==
    ASSUME NEW s \in Seq(Jobs), IsInjective(s), s # <<>>
    PROVE  /\ Head(s) \in Range(s) /\ Tail(s) \in Seq(Jobs) /\ IsInjective(Tail(s))
           /\ Range(Tail(s)) = Range(s) \ {Head(s)} /\ Head(s) \in Jobs
<1> DEFINE r == Tail(s)
<1>1. Len(s) \in Nat /\ DOMAIN s = 1..Len(s) /\ Len(s) # 0
  BY LenProperties, EmptySeq
<1>2. Head(s) = s[1] /\ 1 \in DOMAIN s
  BY <1>1
<1>3. /\ Head(s) \in Jobs /\ r \in Seq(Jobs) /\ Len(r) = Len(s) - 1
      /\ \A i \in 1..Len(r) : r[i] = s[i + 1]
  BY HeadTailProperties
<1> HIDE DEF r
<1>4. DOMAIN r = 1..Len(s) - 1
  BY <1>3, LenProperties
<1>5. \A k \in DOMAIN r : k + 1 \in DOMAIN s /\ r[k] = s[k + 1]
  BY <1>1, <1>3, <1>4
<1>6. \A k \in DOMAIN s : k = 1 \/ (k - 1 \in DOMAIN r /\ r[k - 1] = s[k])
  <2> SUFFICES ASSUME NEW k \in DOMAIN s, k # 1 PROVE k - 1 \in DOMAIN r /\ r[k - 1] = s[k]
    OBVIOUS
  <2>1. k - 1 \in DOMAIN r /\ (k - 1) + 1 = k
    BY <1>1, <1>4
  <2>2. QED BY <2>1, <1>5
<1>7. \A k \in DOMAIN s : s[k] = s[1] <=> k = 1
  BY <1>2 DEF IsInjective
<1>8. IsInjective(r)
  <2> SUFFICES ASSUME NEW i \in DOMAIN r, NEW j \in DOMAIN r, r[i] = r[j] PROVE i = j
    BY DEF IsInjective
  <2>1. i + 1 = j + 1
    BY <1>5 DEF IsInjective
  <2>2. QED BY <2>1, <1>1, <1>4
<1>9. Range(r) = Range(s) \ {s[1]}
  <2>1. \A k \in DOMAIN r : k + 1 # 1
    BY <1>1, <1>4
  <2>2. Range(r) \subseteq Range(s) \ {s[1]}
    BY <1>5, <1>7, <2>1 DEF Range
  <2>3. Range(s) \ {s[1]} \subseteq Range(r)
    BY <1>6 DEF Range
  <2>4. QED BY <2>2, <2>3
<1>10. Head(s) \in Range(s)
  BY <1>2 DEF Range
<1>11. QED BY <1>2, <1>3, <1>8, <1>9, <1>10 DEF r

\* Two lists that have nothing in common are one list without repetition.
LEMMA OneAfterTheOther ==
    ASSUME NEW s \in Seq(Jobs), NEW t \in Seq(Jobs), IsInjective(s), IsInjective(t),
           Range(s) \cap Range(t) = {}
    PROVE  /\ s \o t \in Seq(Jobs) /\ IsInjective(s \o t)
           /\ Range(s \o t) = Range(s) \cup Range(t)
<1> DEFINE r == s \o t
<1>1. Len(s) \in Nat /\ DOMAIN s = 1..Len(s) /\ Len(t) \in Nat /\ DOMAIN t = 1..Len(t)
  BY LenProperties
<1>2. /\ r \in Seq(Jobs) /\ Len(r) = Len(s) + Len(t)
      /\ \A k \in 1..Len(s) + Len(t) : r[k] = IF k <= Len(s) THEN s[k] ELSE t[k - Len(s)]
  BY ConcatProperties
<1> HIDE DEF r
<1>3. DOMAIN r = 1..Len(s) + Len(t)
  BY <1>2, LenProperties
<1>4. \A k \in DOMAIN s : k \in DOMAIN r /\ r[k] = s[k]
  BY <1>1, <1>2, <1>3
<1>5. \A k \in DOMAIN t : k + Len(s) \in DOMAIN r /\ r[k + Len(s)] = t[k]
  BY <1>1, <1>2, <1>3
<1>6. \A k \in DOMAIN r : \/ k \in DOMAIN s /\ r[k] = s[k]
                          \/ k - Len(s) \in DOMAIN t /\ r[k] = t[k - Len(s)]
  BY <1>1, <1>2, <1>3
<1>7. \A i \in DOMAIN s, j \in DOMAIN t : s[i] # t[j]
  BY DEF Range
<1>8. IsInjective(r)
  <2> SUFFICES ASSUME NEW i \in DOMAIN r, NEW j \in DOMAIN r, r[i] = r[j] PROVE i = j
    BY DEF IsInjective
  <2>1. CASE i \in DOMAIN s /\ j \in DOMAIN s
    BY <2>1, <1>4 DEF IsInjective
  <2>2. CASE i \notin DOMAIN s /\ j \notin DOMAIN s
    <3>1. i - Len(s) = j - Len(s)
      BY <2>2, <1>6 DEF IsInjective
    <3>2. QED BY <3>1, <1>1, <1>3
  <2>3. ~(i \in DOMAIN s /\ j \notin DOMAIN s) /\ ~(i \notin DOMAIN s /\ j \in DOMAIN s)
    BY <1>4, <1>6, <1>7
  <2>4. QED BY <2>1, <2>2, <2>3
<1>9. Range(r) = Range(s) \cup Range(t)
  <2>1. Range(r) \subseteq Range(s) \cup Range(t)
    BY <1>6 DEF Range
  <2>2. Range(s) \cup Range(t) \subseteq Range(r)
    BY <1>4, <1>5 DEF Range
  <2>3. QED BY <2>1, <2>2
<1>10. QED BY <1>2, <1>8, <1>9 DEF r

\* A list of one job.
LEMMA OneJob ==
    ASSUME NEW x \in Jobs
    PROVE  <<x>> \in Seq(Jobs) /\ IsInjective(<<x>>) /\ Range(<<x>>) = {x}
<1>1. <<x>> \in Seq(Jobs) /\ DOMAIN <<x>> = {1} /\ <<x>>[1] = x
  OBVIOUS
<1>2. QED BY <1>1 DEF IsInjective, Range

LEMMA NoJob == <<>> \in Seq(Jobs) /\ IsInjective(<<>>) /\ Range(<<>>) = {}
<1>1. <<>> \in Seq(Jobs) /\ DOMAIN <<>> = {}
  OBVIOUS
<1>2. QED BY <1>1 DEF IsInjective, Range

\* Jobs in some order are a list without repetition.
LEMMA Ordered ==
    ASSUME NEW ops \in SUBSET {"send_op", "recv_op"}, NEW order \in SetToSeqs(ops)
    PROVE  order \in Seq(Jobs) /\ IsInjective(order) /\ Range(order) \subseteq ops
<1> DEFINE n == Cardinality(ops)
<1>1. IsFiniteSet({"send_op", "recv_op"})
  <2>1. IsFiniteSet({} \cup {"send_op"})
    BY FS_EmptySet, FS_AddElement
  <2>2. IsFiniteSet(({} \cup {"send_op"}) \cup {"recv_op"})
    BY <2>1, FS_AddElement
  <2>3. ({} \cup {"send_op"}) \cup {"recv_op"} = {"send_op", "recv_op"}
    OBVIOUS
  <2>4. QED BY <2>2, <2>3
<1>2. n \in Nat
  BY <1>1, FS_Subset, FS_CardinalityType
<1>3. order \in [1..n -> ops] /\ \A i, j \in 1..n : i # j => order[i] # order[j]
  BY DEF SetToSeqs
<1> HIDE DEF n
<1>4. order \in Seq(ops)
  BY <1>2, <1>3, SeqDef
<1>5. \A i \in 1..n : order[i] \in Jobs
  BY <1>3 DEF Jobs
<1>6. order \in Seq(Jobs)
  BY <1>2, <1>3, <1>5, SeqDef
<1>7. IsInjective(order)
  BY <1>3 DEF IsInjective
<1>8. Range(order) \subseteq ops
  BY <1>3 DEF Range
<1>9. QED BY <1>6, <1>7, <1>8
-----------------------------------------------------------------------------
(* The handlers *)

Events == {"READ", "WRITE", "ERROR", "HUP"}

\* Told of the end, with a reason for it, the user keeps nothing.
LEMMA ToldKeeps ==
    ASSUME TypeOK, NEW event \in {"freed", "ERROR", "RECVCLOSED"}, Tell(event),
           event = "ERROR" => fault # "no",
           event = "RECVCLOSED" => fin /\ unread = 0,
           is_hupd' \in BOOLEAN, fetched' = {}
    PROVE  ConnectionInv'
<1>1. TypeOK'
  <2>1. jobs' \in Seq(Jobs) /\ IsInjective(jobs')
    BY NoJob DEF Tell, Freed
  <2>2. /\ send_count' \in 0..BCONNECTION_SEND_LIMIT /\ recv_count' \in 0..BCONNECTION_RECV_LIMIT
    BY ConnectionAssumption DEF Tell, Freed
  <2>3. QED BY <2>1, <2>2 DEF TypeOK, Tell, Freed, socket, States
<1>2. Alive' /\ told' # "no"
  BY DEF Alive, Tell, Freed
<1>3. ToldTheTruth'
  BY DEF ToldTheTruth, Tell, Freed, socket
<1>4. QED BY <1>1, <1>2, <1>3 DEF ConnectionInv

\* What the callers of the two operations know: what waits, what is pending and what was told
\* are what their types say, and the user was told of nothing.
Called(waits, rest, hupd, events) ==
    /\ TypeOK /\ told = "no" /\ {send, recv} \subseteq {"READY", "BUSY"}
    /\ waits \subseteq {"READ", "WRITE"} /\ hupd \in BOOLEAN /\ events \subseteq Events
    /\ rest \in Seq(Jobs) /\ IsInjective(rest)
    /\ Reported(hupd, events)

Handled(hupd, events) ==
    /\ is_hupd' = hupd
    /\ fetched' = IF told' = "no" THEN events ELSE {}

\* The sender: it is waited for, or a callback is due, or the user is told of the fault.
LEMMA SendKeeps ==
    ASSUME NEW waits, NEW rest, NEW hupd, NEW events,
           Called(waits, rest, hupd, events),
           Range(rest) \cap {"send_op", "send_done"} = {},
           "WRITE" \in waits => hupd \/ fault # "no",
           ~hupd => Receiving(waits, Range(rest), hupd),
           WaitsOn(waits, Range(rest), hupd, events),
           connection_send(waits, rest, hupd), Handled(hupd, events)
    PROVE  ConnectionInv'
<1> USE DEF Called
<1>1. CASE Tell("ERROR") /\ fault # "no"
  BY <1>1, ToldKeeps DEF Tell, Handled
<1>2. CASE SendWaits(waits, rest) /\ send_count' \in 0..BCONNECTION_SEND_LIMIT /\ ~hupd
  <2>1. TypeOK'
    BY <1>2 DEF SendWaits, WaitFor, TypeOK, socket, Handled, States, Events
  <2>2. Alive' /\ told' = "no" /\ ToldTheTruth'
    BY <1>2 DEF SendWaits, Alive, ToldTheTruth
  <2>3. Reported(is_hupd, fetched)' /\ WaitsOn(wait_events, Range(jobs), is_hupd, fetched)'
    BY <1>2 DEF SendWaits, WaitFor, Handled, Reported, WaitsOn, Reading, socket
  <2>4. Sending(wait_events, Range(jobs), is_hupd)'
    BY <1>2 DEF SendWaits, WaitFor, Handled, Sending
  <2>5. Receiving(wait_events, Range(jobs), is_hupd)'
    BY <1>2 DEF SendWaits, WaitFor, Handled, Receiving
  <2>6. QED BY <2>1, <2>2, <2>3, <2>4, <2>5 DEF ConnectionInv, Going
<1>3. CASE Written(waits, rest) /\ send_count' \in 0..BCONNECTION_SEND_LIMIT /\ fault = "no"
  <2>1. "send_done" \in Jobs /\ ~hupd /\ "WRITE" \notin waits
    BY <1>3 DEF Jobs, Reported
  <2>2. /\ jobs' \in Seq(Jobs) /\ IsInjective(jobs')
        /\ Range(jobs') = {"send_done"} \cup Range(rest)
    <3>1. /\ <<"send_done">> \in Seq(Jobs) /\ IsInjective(<<"send_done">>)
          /\ Range(<<"send_done">>) = {"send_done"}
      BY <2>1, OneJob
    <3>2. Range(<<"send_done">>) \cap Range(rest) = {}
      BY <2>1, <3>1
    <3>3. jobs' = <<"send_done">> \o rest
      BY <1>3 DEF Written
    <3>4. QED BY <3>1, <3>2, <3>3, OneAfterTheOther
  <2>3. TypeOK'
    BY <1>3, <2>2 DEF Written, TypeOK, Handled, States, Events
  <2>4. Alive' /\ told' = "no" /\ ToldTheTruth'
    BY <1>3 DEF Written, Alive, ToldTheTruth
  <2>5. Reported(is_hupd, fetched)' /\ WaitsOn(wait_events, Range(jobs), is_hupd, fetched)'
    BY <1>3, <2>2 DEF Written, Handled, Reported, WaitsOn, Reading
  <2>6. Sending(wait_events, Range(jobs), is_hupd)'
    BY <1>3, <2>1, <2>2 DEF Written, Handled, Sending
  <2>7. Receiving(wait_events, Range(jobs), is_hupd)'
    BY <1>3, <2>1, <2>2 DEF Written, Handled, Receiving, ReceiverJobs
  <2>8. QED BY <2>3, <2>4, <2>5, <2>6, <2>7 DEF ConnectionInv, Going
<1>4. \/ Tell("ERROR") /\ fault # "no"
      \/ SendWaits(waits, rest) /\ send_count' \in 0..BCONNECTION_SEND_LIMIT /\ ~hupd
      \/ Written(waits, rest) /\ send_count' \in 0..BCONNECTION_SEND_LIMIT /\ fault = "no"
  BY ConnectionAssumption
     DEF connection_send, AtLimit, Counted, Increment, Again, TypeOK, Reported
<1>5. QED BY <1>1, <1>2, <1>3, <1>4

\* The receiver: it is waited for, or a callback is due, or the user is told of the fault or
\* of the peer's end.
LEMMA RecvKeeps ==
    ASSUME NEW waits, NEW rest, NEW hupd, NEW events,
           Called(waits, rest, hupd, events),
           Range(rest) \cap ReceiverJobs = {},
           Sending(waits, Range(rest), hupd),
           "READ" \in waits => hupd \/ ~Reading,
           connection_recv(waits, rest, hupd), Handled(hupd, events)
    PROVE  ConnectionInv'
<1> USE DEF Called
<1>1. ASSUME NEW event \in {"ERROR", "RECVCLOSED"}, Tell(event),
             event = "ERROR" => fault # "no", event = "RECVCLOSED" => fin /\ unread = 0
      PROVE  ConnectionInv'
  BY <1>1, ToldKeeps DEF Tell, Handled
<1>2. CASE /\ RecvWaits(waits, rest) /\ recv_count' \in 0..BCONNECTION_RECV_LIMIT /\ ~hupd
           /\ fault # "no" => ~Reading'
  <2>1. TypeOK'
    BY <1>2 DEF RecvWaits, WaitFor, TypeOK, socket, Handled, States, Events
  <2>2. Alive' /\ told' = "no" /\ ToldTheTruth'
    BY <1>2 DEF RecvWaits, Alive, ToldTheTruth
  <2>3. Reported(is_hupd, fetched)'
    BY <1>2 DEF RecvWaits, Handled, Reported, socket
  <2>4. WaitsOn(wait_events, Range(jobs), is_hupd, fetched)'
    BY <1>2 DEF RecvWaits, Handled, Reported, WaitsOn, ReceiverJobs
  <2>5. Sending(wait_events, Range(jobs), is_hupd)'
    BY <1>2 DEF RecvWaits, WaitFor, Handled, Sending
  <2>6. Receiving(wait_events, Range(jobs), is_hupd)'
    BY <1>2 DEF RecvWaits, WaitFor, Handled, Receiving, ReceiverJobs
  <2>7. QED BY <2>1, <2>2, <2>3, <2>4, <2>5, <2>6 DEF ConnectionInv, Going
<1>3. CASE /\ Read(waits, rest) /\ recv_count' \in 0..BCONNECTION_RECV_LIMIT
           /\ hupd \/ "READ" \notin waits
  <2>1. "recv_done" \in Jobs /\ "recv_done" \notin Range(rest)
    BY DEF Jobs, ReceiverJobs
  <2>2. /\ jobs' \in Seq(Jobs) /\ IsInjective(jobs')
        /\ Range(jobs') = {"recv_done"} \cup Range(rest)
    <3>1. /\ <<"recv_done">> \in Seq(Jobs) /\ IsInjective(<<"recv_done">>)
          /\ Range(<<"recv_done">>) = {"recv_done"}
      BY <2>1, OneJob
    <3>2. Range(<<"recv_done">>) \cap Range(rest) = {}
      BY <2>1, <3>1
    <3>3. jobs' = <<"recv_done">> \o rest
      BY <1>3 DEF Read
    <3>4. QED BY <3>1, <3>2, <3>3, OneAfterTheOther
  <2>3. unread' \in 0..arrived
    BY <1>3 DEF Read, TypeOK
  <2>4. TypeOK'
    BY <1>3, <2>2, <2>3 DEF Read, TypeOK, Handled, States, Events
  <2>5. Alive' /\ told' = "no" /\ ToldTheTruth'
    BY <1>3 DEF Read, Alive, ToldTheTruth
  <2>6. Reported(is_hupd, fetched)'
    BY <1>3 DEF Read, Handled, Reported
  <2>7. WaitsOn(wait_events, Range(jobs), is_hupd, fetched)'
    BY <1>3, <2>2 DEF Read, Handled, Reported, WaitsOn, ReceiverJobs
  <2>8. Sending(wait_events, Range(jobs), is_hupd)'
    BY <1>3, <2>2 DEF Read, Handled, Sending
  <2>9. Receiving(wait_events, Range(jobs), is_hupd)'
    BY <1>3, <2>2 DEF Read, Handled, Receiving, ReceiverJobs
  <2>10. QED BY <2>4, <2>5, <2>6, <2>7, <2>8, <2>9 DEF ConnectionInv, Going
<1>4. CASE AtLimit(recv_count, BCONNECTION_RECV_LIMIT, hupd)
  <2>1. /\ RecvWaits(waits, rest) /\ recv_count' = recv_count /\ ~hupd
        /\ recv_count >= BCONNECTION_RECV_LIMIT
    BY <1>4 DEF connection_recv, AtLimit
  <2>2. recv_count' \in 0..BCONNECTION_RECV_LIMIT /\ ~Reading'
    BY <2>1, ConnectionAssumption DEF TypeOK, Reading
  <2>3. QED BY <1>2, <2>1, <2>2
<1>5. CASE ~AtLimit(recv_count, BCONNECTION_RECV_LIMIT, hupd)
  <2>1. Counted(recv_count, hupd) \in 0..BCONNECTION_RECV_LIMIT
    BY <1>5, ConnectionAssumption DEF AtLimit, Counted, Increment, TypeOK
  <2>2. CASE unread > 0
    <3>1. Read(waits, rest) /\ recv_count' \in 0..BCONNECTION_RECV_LIMIT
      BY <1>5, <2>1, <2>2 DEF connection_recv
    <3>2. hupd \/ "READ" \notin waits
      BY <1>5, <2>2, ConnectionAssumption DEF AtLimit, Reading, TypeOK
    <3>3. QED BY <1>3, <3>1, <3>2
  <2>3. CASE ~(unread > 0) /\ NothingYet /\ Again(hupd)
    <3>1. /\ RecvWaits(waits, rest) /\ recv_count' \in 0..BCONNECTION_RECV_LIMIT
          /\ ~hupd /\ fault = "no"
      BY <1>5, <2>1, <2>3 DEF connection_recv, NothingYet, Again
    <3>2. QED BY <1>2, <3>1
  <2>4. CASE ~(unread > 0) /\ ~(NothingYet /\ Again(hupd))
    <3>1. Tell(IF fault = "no" /\ fin THEN "RECVCLOSED" ELSE "ERROR") /\ unread = 0
      BY <1>5, <2>4 DEF connection_recv, TypeOK
    <3>2. CASE fault = "no" /\ fin
      BY <1>1, <3>1, <3>2
    <3>3. CASE ~(fault = "no" /\ fin)
      <4>1. fault # "no"
        BY <2>4, <3>1, <3>3 DEF NothingYet, Again, Reported
      <4>2. QED BY <1>1, <3>1, <4>1
    <3>4. QED BY <3>2, <3>3
  <2>5. QED BY <2>2, <2>3, <2>4
<1>6. QED BY <1>4, <1>5
-----------------------------------------------------------------------------
(* The steps *)

\* The user starts what is over, or frees the connection.
LEMMA CallbackKeeps ==
    ASSUME ConnectionInv, told = "no", NEW rest \in Seq(Jobs), IsInjective(rest),
           Going(wait_events, Range(rest), is_hupd, fetched),
           Callback(rest), is_hupd' = is_hupd, fetched' = IF told' = "no" THEN fetched ELSE {}
    PROVE  ConnectionInv'
<1>1. TypeOK /\ Alive
  BY DEF ConnectionInv
<1>2. CASE Tell("freed")
  BY <1>1, <1>2, ToldKeeps DEF Tell, TypeOK
<1>3. CASE Starts(rest) /\ UNCHANGED <<send, recv, wait_events, limits, told, socket>>
  <2>1. PICK ops \in SUBSET Ready(rest) : \E s \in SetToSeqs(ops) : jobs' = s \o rest
    BY <1>3 DEF Starts
  <2>2. PICK s \in SetToSeqs(ops) : jobs' = s \o rest
    BY <2>1
  <2>3. {rest[i] : i \in DOMAIN rest} = Range(rest)
    BY DEF Range
  <2>4. /\ Ready(rest) \subseteq {"send_op", "recv_op"}
        /\ "send_op" \in Ready(rest) =>
              send = "READY" /\ Range(rest) \cap {"send_op", "send_done"} = {}
        /\ "recv_op" \in Ready(rest) =>
              recv = "READY" /\ Range(rest) \cap {"recv_op", "recv_done"} = {}
    BY <2>3 DEF Ready
  <2>5. s \in Seq(Jobs) /\ IsInjective(s) /\ Range(s) \subseteq ops
    BY <2>2, <2>4, Ordered
  <2>6. Range(s) \cap Range(rest) = {}
    BY <2>4, <2>5
  <2>7. jobs' \in Seq(Jobs) /\ IsInjective(jobs') /\ Range(jobs') = Range(s) \cup Range(rest)
    BY <2>2, <2>5, <2>6, OneAfterTheOther
  <2>8. UNCHANGED <<send, recv, wait_events, limits, told, socket, is_hupd, fetched>>
    BY <1>3
  <2>9. TypeOK'
    BY <1>1, <2>7, <2>8 DEF TypeOK, limits, socket
  <2>10. Alive' /\ told' = "no"
    BY <1>1, <2>8 DEF Alive
  <2>11. ToldTheTruth'
    BY <2>10 DEF ToldTheTruth
  <2>12. Reported(is_hupd, fetched)' /\ WaitsOn(wait_events, Range(jobs), is_hupd, fetched)'
    BY <2>4, <2>5, <2>7, <2>8 DEF Going, Reported, WaitsOn, Reading, limits, socket
  <2>13. Sending(wait_events, Range(jobs), is_hupd)'
    BY <2>4, <2>5, <2>7, <2>8 DEF Going, Sending
  <2>14. Receiving(wait_events, Range(jobs), is_hupd)'
    <3>1. "recv_op" \in Range(s) => Range(rest) \cap ReceiverJobs = {}
      BY <2>4, <2>5 DEF Going, Receiving, ReceiverJobs
    <3>2. Range(s) \cap ReceiverJobs \subseteq {"recv_op"}
      BY <2>4, <2>5 DEF ReceiverJobs
    <3>3. \A x, y \in Range(jobs') \cap ReceiverJobs : x = y
      BY <2>7, <3>1, <3>2 DEF Going, Receiving
    <3>4. QED BY <2>4, <2>5, <2>7, <2>8, <3>3 DEF Going, Receiving
  <2>15. QED BY <2>9, <2>10, <2>11, <2>12, <2>13, <2>14 DEF ConnectionInv, Going
<1>4. QED BY <1>2, <1>3 DEF Callback

LEMMA RunJobKeeps == ASSUME ConnectionInv, RunJob PROVE ConnectionInv'
<1> DEFINE rest == Tail(jobs)
<1>1. TypeOK /\ told = "no" /\ Going(wait_events, Range(jobs), is_hupd, fetched)
  BY DEF ConnectionInv, Alive, RunJob
<1>2. {send, recv} \subseteq {"READY", "BUSY"}
  BY <1>1 DEF ConnectionInv, Alive
<1>3. /\ Head(jobs) \in Range(jobs) /\ Head(jobs) \in Jobs
      /\ rest \in Seq(Jobs) /\ IsInjective(rest) /\ Range(rest) = Range(jobs) \ {Head(jobs)}
  BY <1>1, TakenOff DEF TypeOK, RunJob
<1>4. /\ CASE Head(jobs) = "send_op" -> connection_send(wait_events, rest, is_hupd)
           [] Head(jobs) \in {"recv_op", "recv_job"} ->
                connection_recv(wait_events, rest, is_hupd)
           [] OTHER -> Callback(rest)
      /\ Handled(is_hupd, fetched)
  BY DEF RunJob, Handled
<1> HIDE DEF rest
<1>5. Called(wait_events, rest, is_hupd, fetched)
  BY <1>1, <1>2, <1>3 DEF Called, Going, TypeOK, Events
<1>6. CASE Head(jobs) = "send_op"
  <2>1. /\ send = "READY" /\ Range(rest) \cap {"send_op", "send_done"} = {}
        /\ "WRITE" \in wait_events => is_hupd
    BY <1>1, <1>3, <1>6 DEF Going, Sending
  <2>2. Receiving(wait_events, Range(rest), is_hupd)
    BY <1>1, <1>3, <1>6 DEF Going, Receiving
  <2>3. WaitsOn(wait_events, Range(rest), is_hupd, fetched)
    BY <1>1, <1>3 DEF Going, WaitsOn
  <2>4. connection_send(wait_events, rest, is_hupd)
    BY <1>4, <1>6
  <2>5. QED BY <1>4, <1>5, <2>1, <2>2, <2>3, <2>4, SendKeeps
<1>7. CASE Head(jobs) \in {"recv_op", "recv_job"}
  <2>1. Range(rest) \cap ReceiverJobs = {}
    BY <1>1, <1>3, <1>7 DEF Going, Receiving, ReceiverJobs
  <2>2. Sending(wait_events, Range(rest), is_hupd)
    BY <1>1, <1>3 DEF Going, Sending
  <2>3. "READ" \in wait_events => is_hupd \/ ~Reading
    <3>1. CASE Head(jobs) = "recv_op"
      BY <1>1, <1>3, <3>1 DEF Going, Receiving
    <3>2. CASE Head(jobs) = "recv_job"
      BY <1>1, <1>3, <3>2 DEF Going, WaitsOn
    <3>3. QED BY <1>7, <3>1, <3>2
  <2>4. connection_recv(wait_events, rest, is_hupd)
    BY <1>4, <1>7
  <2>5. QED BY <1>4, <1>5, <2>1, <2>2, <2>3, <2>4, RecvKeeps
<1>8. CASE Head(jobs) \in {"send_done", "recv_done"}
  <2>1. Going(wait_events, Range(rest), is_hupd, fetched)
    BY <1>1, <1>3, <1>8 DEF Going, WaitsOn, Sending, Receiving
  <2>2. Callback(rest)
    BY <1>4, <1>8
  <2>3. QED BY <1>1, <1>3, <1>4, <2>1, <2>2, CallbackKeeps DEF Handled
<1>9. QED BY <1>3, <1>6, <1>7, <1>8 DEF Jobs

LEMMA OtherHandlerKeeps == ASSUME ConnectionInv, OtherHandler PROVE ConnectionInv'
<1>1. told = "no" /\ Going(wait_events, Range(<<>>), is_hupd, fetched)
  BY DEF ConnectionInv, OtherHandler
<1>2. QED BY <1>1, NoJob, CallbackKeeps DEF OtherHandler

\* What epoll tells is so when it tells it.
LEMMA WaitKeeps == ASSUME ConnectionInv, WaitForEvents PROVE ConnectionInv'
<1>1. TypeOK /\ Alive /\ told = "no" /\ Going(wait_events, {}, is_hupd, {})
  BY NoJob DEF ConnectionInv, WaitForEvents
<1>2. /\ fetched' \subseteq Events
      /\ "ERROR" \in fetched' => fault # "no"
      /\ "HUP" \in fetched' => fault # "no"
      /\ is_hupd => fetched' = {}
      /\ "READ" \in wait_events /\ "READ" \notin fetched' /\ ~is_hupd => ~(unread > 0)
  BY DEF WaitForEvents, Pollable, Failures, Events
<1>3. /\ UNCHANGED <<send, recv, wait_events, is_hupd, jobs, told, socket>>
      /\ send_count' = 0 /\ recv_count' = 0 /\ Range(jobs') = {}
  BY NoJob DEF WaitForEvents
<1>4. TypeOK'
  BY <1>1, <1>2, <1>3, ConnectionAssumption DEF TypeOK, Events, socket
<1>5. Alive' /\ ToldTheTruth'
  BY <1>1, <1>3 DEF Alive, ToldTheTruth
<1>6. Reported(is_hupd, fetched)'
  BY <1>1, <1>2, <1>3 DEF Going, Reported, socket
<1>7. WaitsOn(wait_events, Range(jobs), is_hupd, fetched)'
  BY <1>2, <1>3 DEF WaitsOn, Reading, socket
<1>8. Sending(wait_events, Range(jobs), is_hupd)' /\ Receiving(wait_events, Range(jobs), is_hupd)'
  BY <1>1, <1>3 DEF Going, Sending, Receiving
<1>9. QED BY <1>4, <1>5, <1>6, <1>7, <1>8 DEF ConnectionInv, Going

\* The handler goes on with the sender, and with the receiver after it or alone.
LEMMA FdHandlerKeeps ==
    ASSUME ConnectionInv, told = "no", jobs = <<>>, ~is_hupd,
           NEW events, events # {},
           events = (fetched \cap {"ERROR", "HUP"}) \cup (fetched \cap wait_events),
           connection_fd_handler(events), fetched' = {}
    PROVE  ConnectionInv'
<1> DEFINE waits == Unhandled(events)
           hupd == "HUP" \in events
           Have(event, state) ==
               event \in events \/ (events \cap {"ERROR", "HUP"} # {} /\ state = "BUSY")
           have_send == Have("WRITE", send)
           have_recv == Have("READ", recv)
<1>1. TypeOK /\ {send, recv} \subseteq {"READY", "BUSY"} /\ Going(wait_events, {}, is_hupd, fetched)
  BY NoJob DEF ConnectionInv, Alive
<1>2. /\ events \subseteq Events /\ waits \subseteq {"READ", "WRITE"} /\ hupd \in BOOLEAN
      /\ \A e \in {"READ", "WRITE"} : e \in waits <=> e \in wait_events /\ e \notin events
      /\ \A e \in {"READ", "WRITE"} : e \in events <=> e \in wait_events /\ e \in fetched
      /\ events \cap {"ERROR", "HUP"} # {} => fault # "no"
      /\ "ERROR" \in events => "ERROR" \in fetched
  BY <1>1 DEF TypeOK, Unhandled, Events, Going, Reported
<1>3. /\ send = "BUSY" <=> "WRITE" \in wait_events
      /\ recv = "BUSY" <=> "READ" \in wait_events
  BY <1>1 DEF Going, Sending, Receiving
<1>4. /\ have_send <=> "WRITE" \in events \/ (events \cap {"ERROR", "HUP"} # {} /\ send = "BUSY")
      /\ have_recv <=> "READ" \in events \/ (events \cap {"ERROR", "HUP"} # {} /\ recv = "BUSY")
  OBVIOUS
<1>5. "READ" \in waits /\ have_recv /\ ~hupd => fault # "no" /\ ~Reading
  <2>1. "READ" \in waits /\ have_recv /\ ~hupd => "ERROR" \in events
    BY <1>2, <1>4
  <2>2. QED BY <1>1, <1>2, <2>1 DEF Going, WaitsOn
<1>6. have_send \in BOOLEAN /\ have_recv \in BOOLEAN
  OBVIOUS
<1>7. /\ is_hupd' = hupd
      /\ IF have_send THEN connection_send(waits, AfterSend(have_recv), hupd)
         ELSE IF have_recv THEN connection_recv(waits, <<>>, hupd)
         ELSE IF ~hupd THEN Tell("ERROR")
         ELSE wait_events' = waits /\ UNCHANGED <<send, recv, limits, jobs, told, socket>>
  BY DEF connection_fd_handler
<1> HIDE DEF waits, hupd, have_send, have_recv
<1>8. hupd <=> "HUP" \in events
  BY DEF hupd
<1>9. Handled(hupd, {}) /\ Reported(hupd, {})
  BY <1>2, <1>7, <1>8 DEF Handled, Reported
<1>10. CASE have_send
  <2> DEFINE rest == AfterSend(have_recv)
  <2>1. /\ rest \in Seq(Jobs) /\ IsInjective(rest)
        /\ Range(rest) = IF have_recv THEN {"recv_job"} ELSE {}
    <3>1. CASE have_recv
      <4>1. rest = <<"recv_job">> /\ "recv_job" \in Jobs
        BY <3>1 DEF AfterSend, Jobs
      <4>2. QED BY <3>1, <4>1, OneJob
    <3>2. CASE ~have_recv
      BY <3>2, NoJob DEF AfterSend
    <3>3. QED BY <3>1, <3>2
  <2>2. connection_send(waits, rest, hupd)
    BY <1>7, <1>10
  <2> HIDE DEF rest
  <2>3. Called(waits, rest, hupd, {})
    BY <1>1, <1>2, <1>9, <2>1 DEF Called
  <2>4. "WRITE" \in waits => hupd \/ fault # "no"
    BY <1>2, <1>4, <1>10
  <2>5. ~hupd => Receiving(waits, Range(rest), hupd)
    BY <1>2, <1>3, <1>4, <1>8, <2>1 DEF Receiving, ReceiverJobs
  <2>6. WaitsOn(waits, Range(rest), hupd, {})
    BY <1>5, <2>1 DEF WaitsOn
  <2>7. Range(rest) \cap {"send_op", "send_done"} = {}
    BY <2>1
  <2>8. QED BY <1>9, <2>2, <2>3, <2>4, <2>5, <2>6, <2>7, SendKeeps
<1>11. CASE ~have_send /\ have_recv
  <2>1. connection_recv(waits, <<>>, hupd)
    BY <1>7, <1>11
  <2>2. Called(waits, <<>>, hupd, {})
    BY <1>1, <1>2, <1>9, NoJob DEF Called
  <2>3. Sending(waits, Range(<<>>), hupd)
    BY <1>2, <1>3, <1>4, <1>8, <1>11, NoJob DEF Sending
  <2>4. "READ" \in waits => hupd \/ ~Reading
    BY <1>5, <1>11
  <2>5. QED BY <1>9, <2>1, <2>2, <2>3, <2>4, NoJob, RecvKeeps
<1>12. CASE ~have_send /\ ~have_recv /\ ~hupd
  <2>1. fault # "no" /\ Tell("ERROR")
    BY <1>2, <1>4, <1>7, <1>12 DEF Events
  <2>2. QED BY <1>1, <1>2, <1>7, <2>1, ToldKeeps DEF Tell
<1>13. CASE ~have_send /\ ~have_recv /\ hupd
  <2>1. wait_events' = waits /\ UNCHANGED <<send, recv, limits, jobs, told, socket>>
    BY <1>7, <1>13
  <2>2. is_hupd' /\ is_hupd' \in BOOLEAN /\ fetched' = {} /\ Range(jobs') = {}
    BY <1>2, <1>7, <1>13, <2>1, NoJob
  <2>3. send # "BUSY" /\ recv # "BUSY" /\ fault # "no"
    BY <1>2, <1>4, <1>8, <1>13
  <2>4. TypeOK'
    BY <1>1, <1>2, <2>1, <2>2 DEF TypeOK, limits, socket
  <2>5. Alive' /\ ToldTheTruth' /\ told' = "no"
    BY <1>1, <2>1, <2>2 DEF Alive, ToldTheTruth
  <2>6. Reported(is_hupd, fetched)' /\ WaitsOn(wait_events, Range(jobs), is_hupd, fetched)'
    BY <2>1, <2>2, <2>3 DEF Reported, WaitsOn, socket
  <2>7. Sending(wait_events, Range(jobs), is_hupd)'
    BY <2>1, <2>2, <2>3 DEF Sending
  <2>8. Receiving(wait_events, Range(jobs), is_hupd)'
    BY <2>1, <2>2, <2>3 DEF Receiving
  <2>9. QED BY <2>4, <2>5, <2>6, <2>7, <2>8 DEF ConnectionInv, Going
<1>14. QED BY <1>10, <1>11, <1>12, <1>13

LEMMA DispatchKeeps == ASSUME ConnectionInv, Dispatch PROVE ConnectionInv'
<1> DEFINE events == (fetched \cap {"ERROR", "HUP"}) \cup (fetched \cap wait_events)
<1>1. told = "no" /\ jobs = <<>> /\ fetched' = {}
  BY DEF Dispatch
<1>2. TypeOK /\ Alive /\ Going(wait_events, Range(jobs), is_hupd, fetched)
  BY <1>1 DEF ConnectionInv
<1>3. ~is_hupd
  BY <1>2 DEF Dispatch, Going, Reported
<1>4. CASE events # {}
  <2>1. connection_fd_handler(events)
    BY <1>4 DEF Dispatch
  <2> HIDE DEF events
  <2>2. QED BY <1>1, <1>3, <1>4, <2>1, FdHandlerKeeps DEF events
<1>5. CASE events = {}
  <2>1. UNCHANGED <<send, recv, wait_events, is_hupd, limits, jobs, told, socket>>
    BY <1>5 DEF Dispatch
  <2>2. TypeOK'
    BY <1>1, <1>2, <2>1 DEF TypeOK, limits, socket
  <2>3. Alive' /\ ToldTheTruth'
    BY <1>1, <1>2, <2>1 DEF Alive, ToldTheTruth
  <2>4. Going(wait_events, Range(jobs), is_hupd, fetched)'
    <3>1. Reported(is_hupd, fetched)' /\ WaitsOn(wait_events, Range(jobs), is_hupd, fetched)'
      BY <1>1, <1>2, <2>1 DEF Going, Reported, WaitsOn, Reading, limits, socket
    <3>2. Sending(wait_events, Range(jobs), is_hupd)'
      BY <1>2, <2>1 DEF Going, Sending
    <3>3. Receiving(wait_events, Range(jobs), is_hupd)'
      BY <1>2, <2>1 DEF Going, Receiving
    <3>4. QED BY <3>1, <3>2, <3>3 DEF Going
  <2>5. QED BY <2>2, <2>3, <2>4 DEF ConnectionInv
<1>6. QED BY <1>4, <1>5

\* The socket only gets worse, and one that has failed gives no more to read.
LEMMA SocketKeeps ==
    ASSUME ConnectionInv, PeerSends \/ PeerCloses \/ PeerTakes \/ Fault
    PROVE  ConnectionInv'
<1>1. UNCHANGED ours /\ (fault # "no" => fault' # "no") /\ (fin => fin')
  BY DEF PeerSends, PeerCloses, PeerTakes, Fault
<1>2. (fault # "no" \/ fin) => unread' = unread
  BY DEF PeerSends, PeerCloses, PeerTakes, Fault
<1>3. TypeOK'
  <2>1. UNCHANGED <<send, recv, wait_events, is_hupd, send_count, recv_count, jobs, fetched, told>>
    BY <1>1 DEF ours, limits
  <2>2. arrived' \in 0..MaxData /\ unread' \in 0..arrived'
    BY ConnectionAssumption DEF ConnectionInv, TypeOK, PeerSends, PeerCloses, PeerTakes, Fault
  <2>3. {fin', room'} \subseteq BOOLEAN /\ fault' \in {"no", "error", "hangup"}
    BY DEF ConnectionInv, TypeOK, PeerSends, PeerCloses, PeerTakes, Fault
  <2>4. QED BY <2>1, <2>2, <2>3 DEF ConnectionInv, TypeOK
<1>4. Alive' /\ ToldTheTruth'
  BY <1>1, <1>2 DEF ConnectionInv, Alive, ToldTheTruth, ours
<1>5. ASSUME told = "no" PROVE Going(wait_events, Range(jobs), is_hupd, fetched)'
  <2>1. Going(wait_events, Range(jobs), is_hupd, fetched)
    BY <1>5 DEF ConnectionInv
  <2>2. Reported(is_hupd, fetched)'
    BY <1>1, <2>1 DEF Going, Reported, ours
  <2>3. fault # "no" /\ ~Reading => ~Reading'
    BY <1>1, <1>2 DEF Reading, ours, limits
  <2>4. WaitsOn(wait_events, Range(jobs), is_hupd, fetched)'
    BY <1>1, <2>1, <2>3 DEF Going, Reported, WaitsOn, ours
  <2>5. Sending(wait_events, Range(jobs), is_hupd)'
    BY <1>1, <2>1 DEF Going, Sending, ours
  <2>6. Receiving(wait_events, Range(jobs), is_hupd)'
    BY <1>1, <2>1 DEF Going, Receiving, ours
  <2>7. QED BY <2>2, <2>4, <2>5, <2>6 DEF Going
<1>6. QED BY <1>1, <1>3, <1>4, <1>5 DEF ConnectionInv, ours

LEMMA InitHolds == Init => ConnectionInv
<1> SUFFICES ASSUME Init PROVE ConnectionInv
  OBVIOUS
<1>1. jobs \in Seq(Jobs) /\ IsInjective(jobs) /\ Range(jobs) = {}
  BY NoJob DEF Init
<1>2. TypeOK
  <2>1. {fin, room} \subseteq BOOLEAN /\ is_hupd \in BOOLEAN
    BY DEF Init
  <2>2. /\ send_count \in 0..BCONNECTION_SEND_LIMIT /\ recv_count \in 0..BCONNECTION_RECV_LIMIT
        /\ arrived \in 0..MaxData /\ unread \in 0..arrived
    BY ConnectionAssumption DEF Init
  <2>3. /\ send \in States /\ recv \in States /\ fault \in {"no", "error", "hangup"}
        /\ wait_events \subseteq {"READ", "WRITE"} /\ fetched \subseteq Events /\ told = "no"
    BY DEF Init, States
  <2>4. QED BY <1>1, <2>1, <2>2, <2>3 DEF TypeOK, Events
<1>3. Alive /\ ToldTheTruth
  BY DEF Init, Alive, ToldTheTruth
<1>4. Going(wait_events, Range(jobs), is_hupd, fetched)
  BY <1>1 DEF Init, Going, Reported, WaitsOn, Sending, Receiving
<1>5. QED BY <1>2, <1>3, <1>4 DEF ConnectionInv

LEMMA NextKeeps == ConnectionInv /\ [Next]_vars => ConnectionInv'
<1> SUFFICES ASSUME ConnectionInv, [Next]_vars PROVE ConnectionInv'
  OBVIOUS
<1>1. CASE RunJob
  BY <1>1, RunJobKeeps
<1>2. CASE OtherHandler
  BY <1>2, OtherHandlerKeeps
<1>3. CASE WaitForEvents
  BY <1>3, WaitKeeps
<1>4. CASE Dispatch
  BY <1>4, DispatchKeeps
<1>5. CASE PeerSends \/ PeerCloses \/ PeerTakes \/ Fault
  BY <1>5, SocketKeeps
<1>6. CASE UNCHANGED vars
  <2>1. UNCHANGED <<send, recv, wait_events, is_hupd, send_count, recv_count, jobs, fetched,
                    told, arrived, unread, fin, fault, room>>
    BY <1>6 DEF vars, limits, socket
  <2>2. TypeOK'
    BY <2>1 DEF ConnectionInv, TypeOK
  <2>3. Alive' /\ ToldTheTruth'
    BY <2>1 DEF ConnectionInv, Alive, ToldTheTruth
  <2>4. Going(wait_events, Range(jobs), is_hupd, fetched)'
            <=> Going(wait_events, Range(jobs), is_hupd, fetched)
    BY <2>1 DEF Going, Reported, WaitsOn, Reading, Sending, Receiving
  <2>5. QED BY <2>1, <2>2, <2>3, <2>4 DEF ConnectionInv
<1>7. QED BY <1>1, <1>2, <1>3, <1>4, <1>5, <1>6 DEF Next

-----------------------------------------------------------------------------
\* What an operation waits for, what is pending and what the socket told agree, between any two
\* steps of the loop, of the user and of the peer.
THEOREM ConnectionHolds == Spec => []ConnectionInv
BY InitHolds, NextKeeps, PTL DEF Spec

\* For all limits and however much the peer sends: a descriptor is monitored for operations
\* that are on their way and for those only, none of them is left with nothing that would wake
\* it up, and the user is told of an error or of the peer's end only when it is so.
THEOREM ConnectionAlwaysAgrees == Spec => []ConnectionAgrees
<1>1. ConnectionInv => ConnectionAgrees
  <2> SUFFICES ASSUME ConnectionInv PROVE OnlyBusyWaits /\ NobodyForgotten
    BY DEF ConnectionInv, ConnectionAgrees
  <2>1. CASE told = "no"
    BY <2>1 DEF ConnectionInv, Going, Sending, Receiving, OnlyBusyWaits, NobodyForgotten
  <2>2. CASE told # "no"
    BY <2>2, NoJob DEF ConnectionInv, Alive, OnlyBusyWaits, NobodyForgotten
  <2>3. QED BY <2>1, <2>2
<1>2. QED BY <1>1, ConnectionHolds, PTL
=============================================================================
