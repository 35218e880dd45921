----------------------------- MODULE Connection -----------------------------
(***************************************************************************)
(* BConnection: a non-blocking socket driven by the reactor, with one      *)
(* sending and one receiving operation that end in callbacks.              *)
(*                                                                         *)
(* An operation that cannot go on waits for the descriptor.  Two limits    *)
(* make it wait although it could go on, so that the reactor gets its turn.*)
(* A descriptor that hung up is monitored no more: from then on operations *)
(* are answered by the socket at once.                                     *)
(*                                                                         *)
(* The user of the connection starts operations in the callbacks and in    *)
(* the handlers of other descriptors, and frees it when told of an error   *)
(* or of the peer's end.  The socket is the kernel's, which works on its   *)
(* own between any two steps.                                              *)
(***************************************************************************)
EXTENDS Integers, Sequences, SequencesExt

CONSTANTS
    BCONNECTION_SEND_LIMIT, BCONNECTION_RECV_LIMIT,
    MaxData         \* bound on what the peer sends

ASSUME ConnectionAssumption ==
    /\ BCONNECTION_SEND_LIMIT \in Nat \ {0} /\ BCONNECTION_RECV_LIMIT \in Nat \ {0}
    /\ MaxData \in Nat

VARIABLES
    send, recv,     \* their states
    wait_events,    \* what the descriptor is monitored for
    is_hupd,        \* it is not monitored
    send_count, recv_count,     \* the limits
    jobs,           \* the reactor's pending jobs of this connection, the next one first
    fetched,        \* what epoll_wait told of the descriptor, until the loop gets to it
    told,           \* the event the user was told, by which it freed the connection
    arrived, unread,            \* socket: what the peer has sent, and what was not read
    fin,            \* socket: the peer has closed its side
    fault,          \* socket: "no", "error" or "hangup"
    room            \* socket: a write takes something

limits == <<send_count, recv_count>>
socket == <<arrived, unread, fin, fault, room>>
vars == <<send, recv, wait_events, is_hupd, limits, jobs, fetched, told, socket>>

-----------------------------------------------------------------------------
\* The user.  An operation is started by a job; it is over when its callback has run.

Ready(rest) ==
    LET over == {rest[i] : i \in DOMAIN rest} IN
    (IF send = "READY" /\ over \cap {"send_op", "send_done"} = {} THEN {"send_op"} ELSE {}) \cup
    (IF recv = "READY" /\ over \cap {"recv_op", "recv_done"} = {} THEN {"recv_op"} ELSE {})

\* Whatever is ready may be started, in either order.
Starts(rest) ==
    \E ops \in SUBSET Ready(rest) : \E s \in SetToSeqs(ops) : jobs' = s \o rest

\* BConnection_SendAsync_Free, BConnection_RecvAsync_Free and BConnection_Free.
Freed ==
    /\ send' = "NOT_INITED" /\ recv' = "NOT_INITED"
    /\ jobs' = <<>> /\ wait_events' = {} /\ send_count' = 0 /\ recv_count' = 0

\* report_error of the user leads to its end.
Tell(event) == told' = event /\ Freed /\ UNCHANGED socket

-----------------------------------------------------------------------------
\* BReactorLimit

Increment(count) == count + 1

-----------------------------------------------------------------------------
\* connection_send and connection_recv: rest is what has to run after them, waits what the
\* descriptor is monitored for besides, hupd whether it is not.

AtLimit_HupdToo(count, limit, hupd) == count >= limit

AtLimit(count, limit, hupd) == ~hupd /\ count >= limit

Counted(count, hupd) == IF hupd THEN count ELSE Increment(count)

\* EAGAIN is no error while the descriptor can be waited for.
Again(hupd) == ~hupd

WaitFor(event, waits) == waits \cup {event}

SendWaits(waits, rest) ==
    /\ send' = "BUSY" /\ wait_events' = WaitFor("WRITE", waits) /\ jobs' = rest
    /\ UNCHANGED <<recv, recv_count, told, socket>>

Written(waits, rest) ==
    /\ send' = "READY" /\ jobs' = <<"send_done">> \o rest /\ wait_events' = waits
    /\ room' \in BOOLEAN
    /\ UNCHANGED <<recv, recv_count, told, arrived, unread, fin, fault>>

connection_send(waits, rest, hupd) ==
    IF AtLimit(send_count, BCONNECTION_SEND_LIMIT, hupd)
    THEN SendWaits(waits, rest) /\ UNCHANGED send_count
    ELSE IF fault = "no" /\ (room \/ Again(hupd))
    THEN /\ IF room THEN Written(waits, rest) ELSE SendWaits(waits, rest)
         /\ send_count' = Counted(send_count, hupd)
    ELSE Tell("ERROR")

RecvWaits(waits, rest) ==
    /\ recv' = "BUSY" /\ wait_events' = WaitFor("READ", waits) /\ jobs' = rest
    /\ UNCHANGED <<send, send_count, told, socket>>

Read(waits, rest) ==
    /\ recv' = "READY" /\ jobs' = <<"recv_done">> \o rest /\ wait_events' = waits
    /\ unread' \in 0..unread - 1
    /\ UNCHANGED <<send, send_count, told, arrived, fin, fault, room>>

NothingYet == unread = 0 /\ ~fin /\ fault = "no"

connection_recv(waits, rest, hupd) ==
    IF AtLimit(recv_count, BCONNECTION_RECV_LIMIT, hupd)
    THEN RecvWaits(waits, rest) /\ UNCHANGED recv_count
    ELSE IF unread > 0 \/ (NothingYet /\ Again(hupd))
    THEN /\ IF unread > 0 THEN Read(waits, rest) ELSE RecvWaits(waits, rest)
         /\ recv_count' = Counted(recv_count, hupd)
    ELSE Tell(IF fault = "no" /\ fin THEN "RECVCLOSED" ELSE "ERROR")

-----------------------------------------------------------------------------
\* The jobs

\* A callback of the user, which may start operations or free the connection.
Callback(rest) ==
    \/ /\ Starts(rest)
       /\ UNCHANGED <<send, recv, wait_events, limits, told, socket>>
    \/ Tell("freed")

RunJob ==
    /\ jobs # <<>>
    /\ LET rest == Tail(jobs) IN
       CASE Head(jobs) = "send_op" -> connection_send(wait_events, rest, is_hupd)
         [] Head(jobs) \in {"recv_op", "recv_job"} -> connection_recv(wait_events, rest, is_hupd)
         [] OTHER -> Callback(rest)
    /\ UNCHANGED is_hupd
    /\ fetched' = IF told' = "no" THEN fetched ELSE {}

-----------------------------------------------------------------------------
\* The reactor

\* The handler of another descriptor or of a timer.
OtherHandler ==
    /\ jobs = <<>> /\ told = "no"
    /\ Callback(<<>>)
    /\ UNCHANGED is_hupd
    /\ fetched' = IF told' = "no" THEN fetched ELSE {}

Pollable ==
    (IF unread > 0 \/ fin \/ fault = "hangup" THEN {"READ"} ELSE {}) \cup
    (IF room \/ fault = "hangup" THEN {"WRITE"} ELSE {})

Failures ==
    (IF fault # "no" THEN {"ERROR"} ELSE {}) \cup (IF fault = "hangup" THEN {"HUP"} ELSE {})

\* epoll_wait has returned, with results of this descriptor or without; the limits are reset.
WaitForEvents ==
    /\ jobs = <<>> /\ told = "no" /\ fetched = {}
    /\ send_count' = 0 /\ recv_count' = 0
    /\ fetched' = IF is_hupd THEN {} ELSE (Pollable \cap wait_events) \cup Failures
    /\ UNCHANGED <<send, recv, wait_events, is_hupd, jobs, told, socket>>

AfterSend_Nothing(have_recv) == <<>>

\* The receiver's turn comes after the sender's callback.
AfterSend(have_recv) == IF have_recv THEN <<"recv_job">> ELSE <<>>

Unhandled(events) == wait_events \ events

connection_fd_handler(events) ==
    LET waits == Unhandled(events)
        hupd == "HUP" \in events
        Have(event, state) ==
            event \in events \/ (events \cap {"ERROR", "HUP"} # {} /\ state = "BUSY")
        have_send == Have("WRITE", send)
        have_recv == Have("READ", recv)
    IN /\ is_hupd' = hupd
       /\ IF have_send THEN connection_send(waits, AfterSend(have_recv), hupd)
          ELSE IF have_recv THEN connection_recv(waits, <<>>, hupd)
          ELSE IF ~hupd THEN Tell("ERROR")
          ELSE wait_events' = waits /\ UNCHANGED <<send, recv, limits, jobs, told, socket>>

\* What is no longer waited for when the loop gets to the result is not reported.
Dispatch ==
    /\ jobs = <<>> /\ told = "no" /\ fetched # {}
    /\ fetched' = {}
    /\ LET events == (fetched \cap {"ERROR", "HUP"}) \cup (fetched \cap wait_events) IN
       IF events # {} THEN connection_fd_handler(events)
       ELSE UNCHANGED <<send, recv, wait_events, is_hupd, limits, jobs, told, socket>>

-----------------------------------------------------------------------------
\* The socket

ours == <<send, recv, wait_events, is_hupd, limits, jobs, fetched, told>>

PeerSends ==
    /\ fault = "no" /\ ~fin /\ arrived < MaxData
    /\ arrived' = arrived + 1 /\ unread' = unread + 1
    /\ UNCHANGED <<fin, fault, room, ours>>

PeerCloses ==
    /\ fault = "no" /\ ~fin
    /\ fin' = TRUE
    /\ UNCHANGED <<arrived, unread, fault, room, ours>>

PeerTakes ==
    /\ fault = "no" /\ ~room
    /\ room' = TRUE
    /\ UNCHANGED <<arrived, unread, fin, fault, ours>>

\* A reset.  The error may be there before the hangup is.
Fault ==
    /\ fault # "hangup"
    /\ fault' \in {"error", "hangup"} \ {fault}
    /\ UNCHANGED <<arrived, unread, fin, room, ours>>

Init ==
    /\ send = "READY" /\ recv = "READY" /\ wait_events = {} /\ is_hupd = FALSE
    /\ send_count = 0 /\ recv_count = 0
    /\ jobs = <<>> /\ fetched = {} /\ told = "no"
    /\ arrived = 0 /\ unread = 0 /\ fin = FALSE /\ fault = "no" /\ room = TRUE

Next ==
    \/ RunJob \/ OtherHandler \/ WaitForEvents \/ Dispatch
    \/ PeerSends \/ PeerCloses \/ PeerTakes \/ Fault

Spec == Init /\ [][Next]_vars

\* The loop goes on, as long as the connection is there.
FairSpec == Spec /\ WF_vars(RunJob) /\ WF_vars(WaitForEvents) /\ WF_vars(Dispatch)

-----------------------------------------------------------------------------
(***************************************************************************)
(* Properties                                                              *)
(***************************************************************************)

States == {"NOT_INITED", "READY", "BUSY"}
Jobs == {"send_op", "send_done", "recv_op", "recv_done", "recv_job"}

\* The states and the limits have their ranges, and no job is pending twice.
TypeOK ==
    /\ send \in States /\ recv \in States
    /\ wait_events \subseteq {"READ", "WRITE"} /\ is_hupd \in BOOLEAN
    /\ send_count \in 0..BCONNECTION_SEND_LIMIT /\ recv_count \in 0..BCONNECTION_RECV_LIMIT
    /\ jobs \in Seq(Jobs) /\ IsInjective(jobs)
    /\ fetched \subseteq {"READ", "WRITE", "ERROR", "HUP"}
    /\ told \in {"no", "freed", "ERROR", "RECVCLOSED"}
    /\ arrived \in 0..MaxData /\ unread \in 0..arrived
    /\ {fin, room} \subseteq BOOLEAN /\ fault \in {"no", "error", "hangup"}

\* The descriptor is monitored for what an operation waits for and for nothing else, and the
\* job that goes on with the receiver finds it busy (the asserts of connection_fd_handler and
\* connection_recv_job_handler): otherwise a callback could come for an operation that is over.
OnlyBusyWaits ==
    /\ "WRITE" \in wait_events /\ ~is_hupd => send = "BUSY"
    /\ "READ" \in wait_events /\ ~is_hupd => recv = "BUSY"
    /\ "recv_job" \in Range(jobs) => recv = "BUSY"

\* An operation that is on its way is waited for by a descriptor that is still monitored, or
\* is about to go on in a job: none is left with nothing to wake it up, by the limits, by a
\* hangup, or by the event of the other one.
NobodyForgotten ==
    /\ send = "BUSY" => "WRITE" \in wait_events /\ ~is_hupd
    /\ recv = "BUSY" => \/ "READ" \in wait_events /\ ~is_hupd
                        \/ "recv_job" \in Range(jobs)

\* The user is told of an error only when the socket has one, and of the peer's end only when
\* everything the peer sent was read.
ToldTheTruth ==
    /\ told = "ERROR" => fault # "no"
    /\ told = "RECVCLOSED" => fin /\ unread = 0

\* Operations, events and jobs agree, and so does what the user was told.
ConnectionAgrees == TypeOK /\ OnlyBusyWaits /\ NobodyForgotten /\ ToldTheTruth

\* However much the socket can do, the limits bring the loop back to the reactor.
BackToReactor == []<>(jobs = <<>>)

\* The loop gets back to the reactor, and an operation the socket can go on with ends, in its
\* callback or with the connection.
OperationsEnd ==
    /\ BackToReactor
    /\ (send = "BUSY" /\ (room \/ fault # "no")) ~> send # "BUSY"
    /\ (recv = "BUSY" /\ ~NothingYet) ~> recv # "BUSY"
=============================================================================
