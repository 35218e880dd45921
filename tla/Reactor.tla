------------------------------ MODULE Reactor ------------------------------
(***************************************************************************)
(* The event loop everything in tun2socks runs on: BReactor (its epoll     *)
(* build, the one used on Android) with the pending jobs of BPending.      *)
(*                                                                         *)
(* Jobs are a stack: the one set last runs first.  BReactor_Exec runs a    *)
(* job if there is one, else an expired timer, else the next result of     *)
(* epoll_wait, and waits only when there is nothing of these.  A handler   *)
(* may set, unset and free anything, and with SYNC_FROMHERE ...            *)
(* SYNC_COMMIT of tun2socks it may run the jobs it has set off before it   *)
(* returns, so that handlers nest.                                         *)
(*                                                                         *)
(* What a handler does is arbitrary here, one operation a step.            *)
(***************************************************************************)
EXTENDS Integers, Sequences, FiniteSets, SequencesExt

CONSTANTS
    Jobs, Timers, Fds,  \* BSmallPending, BSmallTimer and BFileDescriptor objects
    None,               \* no file descriptor: data.ptr of a result is NULL
    WaitEvents,         \* what an fd can wait for: READ, WRITE
    Delays,             \* for how long timers are set
    MaxLag,             \* bound: how late a timer can be
    MaxDepth,           \* bound: how deep handlers nest
    MaxOps              \* bound: what the handlers run by one event do

ASSUME ReactorAssumption ==
    /\ MaxDepth \in Nat \ {0} /\ MaxLag \in Nat /\ MaxOps \in Nat
    /\ Delays \subseteq Nat /\ IsFiniteSet(Timers) /\ IsFiniteSet(Fds)
    /\ Jobs \cap (0..MaxDepth) = {} /\ None \notin Fds /\ WaitEvents \subseteq {"READ", "WRITE"}

\* The sync_mark of a handler is a job without a handler of its own, named by the depth of
\* the call that owns it; 0 stands for no mark.
Marks == 1..MaxDepth
Pending == Jobs \cup Marks

\* HUP stands for EPOLLERR too: both are reported whether or not they are waited for.
Events == WaitEvents \cup {"HUP"}

VARIABLES
    jobs,       \* pending_jobs, the next to run first
    calls,      \* the handlers being run, innermost last, with their marks
    timers,     \* [Timers -> state and the time left until absTime]
    expired,    \* timers_expired_list
    fds,        \* [Fds -> active, waitEvents, epoll_returned_ptr (0 for NULL)]
    results,    \* epoll_results
    pos,        \* epoll_results_pos
    waiting,    \* the loop is in epoll_wait
    exiting,
    fresh,      \* history: [Fds -> what epoll reported since the fd was added, not yet handled]
    ops         \* what the handlers did since the last event, see MaxOps

vars == <<jobs, calls, timers, expired, fds, results, pos, waiting, exiting, fresh, ops>>
fdVars == <<fds, results, pos, fresh>>
timerVars == <<timers, expired>>

Frame == [mark : {0} \cup Marks, syncing : BOOLEAN, below : SUBSET Pending]
NewCall == [mark |-> 0, syncing |-> FALSE, below |-> {}]

\* Without the jobs of S: they are no longer where they were when a mark was set.
Forget(c, S) == [i \in DOMAIN c |-> [c[i] EXCEPT !.below = @ \ S]]

-----------------------------------------------------------------------------
\* BPending: the operations on the stack of jobs

BSmallPending_Set(s, j) == <<j>> \o RemoveFirst(s, j)
BSmallPending_Unset(s, j) == RemoveFirst(s, j)

-----------------------------------------------------------------------------
\* What a handler, the innermost one, may do

Running == calls # <<>> /\ ~Last(calls).syncing
May == Running /\ ops < MaxOps /\ ops' = ops + 1

SetJob(j) ==
    /\ May
    /\ jobs' = BSmallPending_Set(jobs, j)
    /\ calls' = Forget(calls, {j})
    /\ UNCHANGED <<timerVars, fdVars, waiting, exiting>>

\* BSmallPending_Unset and BSmallPending_Free.
UnsetJob(j) ==
    /\ May /\ j \in Range(jobs)
    /\ jobs' = BSmallPending_Unset(jobs, j)
    /\ calls' = Forget(calls, {j})
    /\ UNCHANGED <<timerVars, fdVars, waiting, exiting>>

Inactive(t) == [timers EXCEPT ![t] = [state |-> "INACTIVE", left |-> 0]]

RemovedFromExpired(t) ==
    IF timers[t].state = "EXPIRED" THEN RemoveFirst(expired, t) ELSE expired

BReactor_RemoveSmallTimer(t) ==
    /\ May /\ timers[t].state # "INACTIVE"
    /\ expired' = RemovedFromExpired(t)
    /\ timers' = Inactive(t)
    /\ UNCHANGED <<jobs, calls, fdVars, waiting, exiting>>

BReactor_SetSmallTimer(t, d) ==
    /\ May
    /\ expired' = RemovedFromExpired(t)
    /\ timers' = [timers EXCEPT ![t] = [state |-> "RUNNING", left |-> d]]
    /\ UNCHANGED <<jobs, calls, fdVars, waiting, exiting>>

AddedFd_KeepsPointer(f) == [fds[f] EXCEPT !.active = TRUE, !.waitEvents = {}]

AddedFd(f) == [active |-> TRUE, waitEvents |-> {}, returned |-> 0]

BReactor_AddFileDescriptor(f) ==
    /\ May /\ ~fds[f].active
    /\ fds' = [fds EXCEPT ![f] = AddedFd(f)]
    /\ UNCHANGED <<jobs, calls, timerVars, results, pos, waiting, exiting, fresh>>

ResultsWithout_NotAtAll(f) == results

\* The write through epoll_returned_ptr.
ResultsWithout(f) ==
    IF fds[f].returned # 0 THEN [results EXCEPT ![fds[f].returned].fd = None] ELSE results

BReactor_RemoveFileDescriptor(f) ==
    /\ May /\ fds[f].active
    /\ fds' = [fds EXCEPT ![f].active = FALSE]
    /\ results' = ResultsWithout(f)
    /\ fresh' = [fresh EXCEPT ![f] = {}]
    /\ UNCHANGED <<jobs, calls, timerVars, pos, waiting, exiting>>

BReactor_SetFileDescriptorEvents(f, events) ==
    /\ May /\ fds[f].active /\ fds[f].waitEvents # events
    /\ fds' = [fds EXCEPT ![f].waitEvents = events]
    /\ UNCHANGED <<jobs, calls, timerVars, results, pos, waiting, exiting, fresh>>

BReactor_Quit ==
    /\ May /\ ~exiting
    /\ exiting' = TRUE
    /\ UNCHANGED <<jobs, calls, timerVars, fdVars, waiting>>

\* SYNC_FROMHERE: the mark of this call is set like any job.
SyncFromHere ==
    LET d == Len(calls) IN
    /\ May /\ Last(calls).mark = 0 /\ Len(calls) < MaxDepth
    /\ jobs' = BSmallPending_Set(jobs, d)
    /\ calls' = [calls EXCEPT ![d] = [mark |-> d, syncing |-> FALSE, below |-> Range(jobs)]]
    /\ UNCHANGED <<timerVars, fdVars, waiting, exiting>>

\* SYNC_BREAK, and the end of SYNC_COMMIT: the mark is freed.
FreeMark ==
    LET d == Len(calls) IN
    /\ jobs' = BSmallPending_Unset(jobs, d)
    /\ calls' = [Forget(calls, {d}) EXCEPT ![d] = NewCall]
    /\ UNCHANGED <<timerVars, fdVars, waiting, exiting, ops>>

SyncBreak == Running /\ Last(calls).mark # 0 /\ FreeMark

\* SYNC_COMMIT calls BReactor_Synchronize, which runs jobs until the mark is the next.
SyncCommit ==
    /\ Running /\ Last(calls).mark # 0
    /\ calls' = [calls EXCEPT ![Len(calls)].syncing = TRUE]
    /\ UNCHANGED <<jobs, timerVars, fdVars, waiting, exiting, ops>>

Return ==
    /\ Running /\ Last(calls).mark = 0
    /\ calls' = Front(calls)
    /\ UNCHANGED <<jobs, timerVars, fdVars, waiting, exiting, ops>>

-----------------------------------------------------------------------------
\* The loop

Called(c) == Len(c) < MaxDepth /\ calls' = Append(c, NewCall)

BPendingGroup_ExecuteJob ==
    /\ jobs # <<>>
    /\ jobs' = Tail(jobs)
    /\ Called(Forget(calls, {Head(jobs)}))
    /\ UNCHANGED <<timerVars, fdVars, waiting, exiting, ops>>

SyncGoesOn_PastMark == ~exiting /\ jobs # <<>>

\* BReactor_Synchronize(ref): whether its loop goes on.
SyncGoesOn == ~exiting /\ jobs # <<>> /\ Head(jobs) # Last(calls).mark

SyncStep == /\ calls # <<>> /\ Last(calls).syncing
            /\ IF SyncGoesOn THEN BPendingGroup_ExecuteJob ELSE FreeMark

Looping == calls = <<>> /\ ~exiting /\ ~waiting

\* The loop looks for events only when there is no job.
Idle == Looping /\ jobs = <<>>

ExecJob == Looping /\ BPendingGroup_ExecuteJob

ExecTimer ==
    /\ Idle /\ expired # <<>>
    /\ expired' = Tail(expired)
    /\ timers' = Inactive(Head(expired))
    /\ Called(calls) /\ ops' = 0
    /\ UNCHANGED <<jobs, fdVars, waiting, exiting>>

Reported(f, events) == events \cap (fds[f].waitEvents \cup {"HUP"})

\* The next result of epoll_wait.  It is passed over if the fd is gone, or does not wait for
\* any of the events any more.
ExecFd ==
    LET f == results[pos + 1].fd
        events == results[pos + 1].events
    IN /\ Idle /\ expired = <<>> /\ pos < Len(results)
       /\ pos' = pos + 1
       /\ IF f = None
          THEN UNCHANGED <<fds, fresh, calls, ops>>
          ELSE /\ fds' = [fds EXCEPT ![f].returned = 0]
               /\ fresh' = [fresh EXCEPT ![f] = {}]
               /\ IF Reported(f, events) = {} THEN UNCHANGED <<calls, ops>>
                                              ELSE Called(calls) /\ ops' = 0
       /\ UNCHANGED <<jobs, timerVars, results, waiting, exiting>>

Of(state) == {t \in Timers : timers[t].state = state}
Due == {t \in Of("RUNNING") : timers[t].left <= 0}
First == {t \in Of("RUNNING") : \A u \in Of("RUNNING") : timers[t].left <= timers[u].left}

\* The timers of S are moved to the expired list in the order of the tree.
Expire(S) ==
    \E order \in SetToSeqs(S) :
        /\ \A i, j \in DOMAIN order : i < j => timers[order[i]].left <= timers[order[j]].left
        /\ expired' = expired \o order
        /\ timers' = [t \in Timers |-> IF t \in S THEN [timers[t] EXCEPT !.state = "EXPIRED"]
                                                  ELSE timers[t]]

ClearResults == results' = <<>> /\ pos' = 0

\* wait_for_events: epoll is not asked at all if some timer is due.
wait_for_events ==
    /\ Idle /\ expired = <<>> /\ pos = Len(results)
    /\ ClearResults
    /\ IF Due # {} THEN Expire(Due) /\ UNCHANGED waiting
                   ELSE waiting' = TRUE /\ UNCHANGED timerVars
    /\ UNCHANGED <<jobs, calls, fds, exiting, fresh, ops>>

\* epoll_wait returns with events of the fds of S, in the given order; set_epoll_fd_pointers
\* follows.
EpollReports(S, order, events) ==
    /\ waiting /\ waiting' = FALSE
    /\ \A f \in S : Reported(f, events[f]) # {}
    /\ results' = [i \in DOMAIN order |-> [fd |-> order[i], events |-> events[order[i]]]]
    /\ fds' = [f \in Fds |-> IF f \in S
                             THEN [fds[f] EXCEPT !.returned = CHOOSE i \in DOMAIN order :
                                                                  order[i] = f]
                             ELSE fds[f]]
    /\ fresh' = [f \in Fds |-> IF f \in S THEN events[f] ELSE fresh[f]]
    /\ UNCHANGED <<jobs, calls, timerVars, pos, exiting, ops>>

EpollReturns ==
    \E S \in SUBSET {f \in Fds : fds[f].active} \ {{}} : \E order \in SetToSeqs(S) :
    \E events \in [S -> SUBSET Events] : EpollReports(S, order, events)

TimedOut_Exactly == First # {} /\ \A t \in First : timers[t].left = 0

TimedOut == First # {} /\ First \subseteq Due

\* epoll_wait times out, or a signal interrupts it and the first timer is found to be due:
\* only that timer and those of the same time are moved.
EpollTimesOut ==
    /\ waiting /\ waiting' = FALSE
    /\ TimedOut
    /\ Expire(First)
    /\ UNCHANGED <<jobs, calls, fdVars, exiting, ops>>

\* BReactor_Exec returns.
Exited == exiting /\ calls = <<>> /\ UNCHANGED vars

\* Time passes, in handlers and in epoll_wait.
Tick ==
    /\ ~exiting /\ \A t \in Of("RUNNING") \cup Of("EXPIRED") : timers[t].left > -MaxLag
    /\ Of("RUNNING") \cup Of("EXPIRED") # {}
    /\ timers' = [t \in Timers |-> IF timers[t].state = "INACTIVE" THEN timers[t]
                                   ELSE [timers[t] EXCEPT !.left = @ - 1]]
    /\ UNCHANGED <<jobs, calls, expired, fdVars, waiting, exiting, ops>>

-----------------------------------------------------------------------------
\* The handler that is run first is main(): it sets up before BReactor_Exec.
Init ==
    /\ jobs = <<>> /\ calls = <<NewCall>>
    /\ timers = [t \in Timers |-> [state |-> "INACTIVE", left |-> 0]] /\ expired = <<>>
    /\ fds = [f \in Fds |-> [active |-> FALSE, waitEvents |-> {}, returned |-> 0]]
    /\ results = <<>> /\ pos = 0 /\ waiting = FALSE /\ exiting = FALSE
    /\ fresh = [f \in Fds |-> {}] /\ ops = 0

HandlerStep ==
    \/ \E j \in Jobs : SetJob(j) \/ UnsetJob(j)
    \/ \E t \in Timers : BReactor_RemoveSmallTimer(t) \/ \E d \in Delays : BReactor_SetSmallTimer(t, d)
    \/ \E f \in Fds : \/ BReactor_AddFileDescriptor(f) \/ BReactor_RemoveFileDescriptor(f)
                      \/ \E events \in SUBSET WaitEvents : BReactor_SetFileDescriptorEvents(f, events)
    \/ BReactor_Quit
    \/ SyncFromHere \/ SyncBreak \/ SyncCommit
    \/ Return

LoopStep == SyncStep \/ ExecJob \/ ExecTimer \/ ExecFd \/ wait_for_events

Next == HandlerStep \/ LoopStep \/ EpollReturns \/ EpollTimesOut \/ Tick \/ Exited

\* The loop runs on, handlers return, and epoll_wait does not sleep past its timeout.
Fairness == WF_vars(LoopStep) /\ WF_vars(HandlerStep) /\ WF_vars(EpollTimesOut)

Spec == Init /\ [][Next]_vars
FairSpec == Spec /\ Fairness

-----------------------------------------------------------------------------
\* Every field keeps its type, and the bounds of the model are kept.
TypeOK ==
    /\ jobs \in Seq(Pending) /\ calls \in Seq(Frame) /\ Len(calls) <= MaxDepth
    /\ timers \in [Timers -> [state : {"INACTIVE", "RUNNING", "EXPIRED"}, left : Int]]
    /\ expired \in Seq(Timers)
    /\ fds \in [Fds -> [active : BOOLEAN, waitEvents : SUBSET WaitEvents, returned : Nat]]
    /\ results \in Seq([fd : Fds \cup {None}, events : SUBSET Events])
    /\ pos \in 0..Len(results)
    /\ waiting \in BOOLEAN /\ exiting \in BOOLEAN
    /\ fresh \in [Fds -> SUBSET Events] /\ ops \in 0..MaxOps

\* A handler that synchronizes gets back to its mark: nothing it runs takes the mark away,
\* and below the mark are exactly the jobs that were pending when it was set and that nobody
\* has set or unset since.  So also with handlers that synchronize within it
\* (BSmallPending_Set, BReactor_Synchronize).
MarksKeepTheirPlace ==
    /\ \A i, j \in DOMAIN jobs : jobs[i] = jobs[j] => i = j
    /\ \A d \in DOMAIN calls :
         calls[d].mark # 0 => \E i \in DOMAIN jobs :
                                 /\ jobs[i] = d /\ calls[d].mark = d
                                 /\ {jobs[k] : k \in i + 1..Len(jobs)} = calls[d].below

\* While a handler synchronizes, no job runs that was set before the mark (an accepted
\* connection is set up, tun2socks.c, before what was already pending goes on), and a mark
\* is never run as a job.
SyncRunsWhatItSetOff ==
    [][Len(calls') > Len(calls) => \A d \in DOMAIN calls :
           calls[d].mark # 0 => Range(jobs) \ Range(jobs') \subseteq Jobs \ calls[d].below]_vars

\* Every result still to be handled is that of a registered fd whose epoll_returned_ptr
\* points at it, and every such pointer points at a result still to be handled: the write
\* through it when an fd is removed hits its own result and no other.
ResultsMatch ==
    /\ \A i \in pos + 1..Len(results) :
         results[i].fd # None => LET f == results[i].fd IN fds[f].active /\ fds[f].returned = i
    /\ \A f \in Fds : (fds[f].active /\ fds[f].returned # 0) =>
         fds[f].returned \in pos + 1..Len(results) /\ results[fds[f].returned].fd = f

\* The handler of an fd is called only if epoll has reported, since the fd was registered,
\* an event it waits for at the time of the call; what was reported to an earlier user of the
\* same object, or before it stopped to wait, is not dispatched.
NoStaleEvent ==
    [][\A f \in Fds : (pos' = pos + 1 /\ Len(calls') > Len(calls) /\ results[pos + 1].fd = f) =>
           fds[f].active /\ fresh[f] \cap (fds[f].waitEvents \cup {"HUP"}) # {}]_vars

\* The expired list holds the expired timers, once each and in the order of their times;
\* none of them is early.  A timer that was removed or set again is not among them.
ExpiredInOrder ==
    /\ Range(expired) = Of("EXPIRED") /\ Len(expired) = Cardinality(Of("EXPIRED"))
    /\ \A i, j \in DOMAIN expired : i < j => timers[expired[i]].left <= timers[expired[j]].left
    /\ \A t \in Of("EXPIRED") : timers[t].left <= 0

\* Between any two steps of handlers that do what they like, the loop's own structures agree:
\* stack, marks, pointers into the results and the list of expired timers.
LoopAgrees == TypeOK /\ MarksKeepTheirPlace /\ ResultsMatch /\ ExpiredInOrder

\* A timer whose time has come is run, removed or set again; other timers do not keep the
\* loop from it.
DueTimersRun ==
    \A t \in Timers : t \in Due ~> (t \notin Due \cup Of("EXPIRED") \/ exiting)
=============================================================================
