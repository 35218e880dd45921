----------------------------- MODULE FairQueue -----------------------------
(***************************************************************************)
(* PacketPassFairQueue: the flows of the udpgw connections, and that of    *)
(* the keepalive, share one output.  Every flow has a virtual time, which  *)
(* grows with what it sends; the flow with the least time among those with *)
(* a packet is the next to send.                                           *)
(*                                                                         *)
(* Times are unsigned and wrap around.  Before one of them would overflow  *)
(* all are shifted down.  The header asks to reduce FAIRQUEUE_MAX_TIME to  *)
(* test this; here it is a constant.                                       *)
(***************************************************************************)
EXTENDS Integers, FiniteSets, FiniteSetsExt

CONSTANTS
    Flows, NoFlow,
    FAIRQUEUE_MAX_TIME,
    Amounts,        \* packet_weight + data_len of the packets
    Tolerance       \* how many packets' difference in service counts as fair

MaxAmount == Max(Amounts)

ASSUME FairQueueAssumption ==
    /\ NoFlow \notin Flows
    /\ FAIRQUEUE_MAX_TIME \in Nat
    /\ Amounts # {} /\ IsFiniteSet(Amounts) /\ Amounts \subseteq Nat \ {0}
    /\ Tolerance \in Nat
    /\ \A n \in Amounts : n <= FAIRQUEUE_MAX_TIME     \* checked by PacketPassFairQueue_Init

VARIABLES
    flows,          \* flows_list
    time,           \* [Flows -> time]
    queued,         \* queued_tree: the flows with a packet that waits
    amount,         \* [Flows -> packet_weight + data_len of its packet, 0 without one]
    sending_flow, previous_flow,
    schedule_job,   \* is set
    freeing,
    served,         \* history: the flows that were served since they are backlogged
    ahead           \* history: how much more f got than g, see Count

vars == <<flows, time, queued, amount, sending_flow, previous_flow, schedule_job, freeing,
          served, ahead>>

\* Unsigned arithmetic.
Wrap(n) == n % (FAIRQUEUE_MAX_TIME + 1)

Least(S) == Min({time[f] : f \in S})
Larger(a, b) == IF a > b THEN a ELSE b

\* A flow is backlogged from the time it queues a packet until it has none to follow the one
\* that was sent.
Backlogged == queued \cup ({sending_flow, previous_flow} \ {NoFlow})

-----------------------------------------------------------------------------
\* History: for flows that are both backlogged, ahead[f][g] is the most that f got more than
\* g, from any time on since both are backlogged and, once g was served, since then.
\* Counting stops beyond what the properties tell apart.
Allowance == Tolerance * MaxAmount

Cut(n) == IF n < 0 THEN 0 ELSE IF n > Allowance THEN Allowance + 1 ELSE n

Count(f, n) ==
    /\ served' = served \cup {f}
    /\ ahead' = [g \in Flows |-> [h \in Flows |->
           IF g = h \/ {g, h} \cap Backlogged # {g, h} THEN 0
           ELSE IF h = f THEN IF f \in served THEN Cut(ahead[g][h] - n) ELSE 0
           ELSE IF g = f THEN Cut(ahead[g][h] + n)
           ELSE ahead[g][h]]]

Leaves(f) ==
    /\ served' = served \ {f}
    /\ ahead' = [g \in Flows |-> [h \in Flows |-> IF f \in {g, h} THEN 0 ELSE ahead[g][h]]]

-----------------------------------------------------------------------------
get_current_time_Zero == 0

\* It is 0 again whenever nothing is queued, sending or just sent.
get_current_time ==
    IF sending_flow # NoFlow THEN time[sending_flow]
    ELSE LET S == queued \cup ({previous_flow} \ {NoFlow})
         IN IF S = {} THEN 0 ELSE Least(S)

Subtracted_NeverBelowZero(f, subtract) ==
    [g \in Flows |-> IF g \notin flows THEN time[g] ELSE Larger(0, time[g] - subtract)]

\* The flow that has sent is let wrap around below 0: the addition that follows wraps it back.
Subtracted(f, subtract) ==
    [g \in Flows |-> IF g \notin flows THEN time[g]
                     ELSE IF subtract > time[g] /\ g # f THEN 0 ELSE Wrap(time[g] - subtract)]

\* The times after increment_sent_flow(f, n).
increment_sent_flow(f, n) ==
    LET overflows == n > FAIRQUEUE_MAX_TIME - time[f]
        subtract  == IF queued = {} THEN time[f] ELSE Least(queued)
        shifted   == IF overflows THEN Subtracted(f, subtract) ELSE time
    IN [shifted EXCEPT ![f] = Wrap(@ + n)]

\* Flows of the same time are told apart by their addresses: any order of those.
schedule(q) ==
    \E f \in q : /\ \A g \in q : time'[f] <= time'[g]
                 /\ queued' = q \ {f} /\ sending_flow' = f

PacketPassFairQueueFlow_Init(f) ==
    /\ ~freeing /\ f \notin flows
    /\ flows' = flows \cup {f}
    /\ time' = [time EXCEPT ![f] = 0]
    /\ UNCHANGED <<queued, amount, sending_flow, previous_flow, schedule_job, freeing, served, ahead>>

\* input_handler_send for a packet of n.
input_handler_send(f, n) ==
    /\ ~freeing /\ f \in flows \ (queued \cup {sending_flow})
    /\ amount' = [amount EXCEPT ![f] = n]
    /\ IF f = previous_flow
       THEN previous_flow' = NoFlow /\ UNCHANGED time
       ELSE /\ time' = [time EXCEPT ![f] = Larger(@, get_current_time)]
            /\ UNCHANGED previous_flow
    /\ IF sending_flow = NoFlow /\ ~schedule_job
       THEN schedule(queued \cup {f})
       ELSE queued' = queued \cup {f} /\ UNCHANGED sending_flow
    /\ UNCHANGED <<flows, schedule_job, freeing, served, ahead>>

\* The job is left to run after the flow's own, in which it can queue its next packet.
output_handler_done ==
    LET f == sending_flow IN
    /\ ~freeing /\ f # NoFlow
    /\ sending_flow' = NoFlow /\ previous_flow' = f
    /\ time' = increment_sent_flow(f, amount[f])
    /\ amount' = [amount EXCEPT ![f] = 0]
    /\ schedule_job' = TRUE
    /\ Count(f, amount[f])
    /\ UNCHANGED <<flows, queued, freeing>>

ScheduleNext_IfPreviousIsBack ==
    IF queued # {} /\ previous_flow = NoFlow THEN schedule(queued)
                                            ELSE UNCHANGED <<queued, sending_flow>>

ScheduleNext == IF queued # {} THEN schedule(queued) ELSE UNCHANGED <<queued, sending_flow>>

schedule_job_handler ==
    /\ ~freeing /\ schedule_job /\ schedule_job' = FALSE
    /\ previous_flow' = NoFlow
    /\ UNCHANGED <<flows, time, amount, freeing>>
    /\ ScheduleNext
    /\ IF previous_flow # NoFlow THEN Leaves(previous_flow) ELSE UNCHANGED <<served, ahead>>

PacketPassFairQueue_PrepareFree ==
    /\ ~freeing /\ freeing' = TRUE
    /\ UNCHANGED <<flows, time, queued, amount, sending_flow, previous_flow, schedule_job, served, ahead>>

PacketPassFairQueueFlow_Free(f) ==
    /\ f \in flows /\ (freeing \/ f # sending_flow)
    /\ flows' = flows \ {f}
    /\ time' = [time EXCEPT ![f] = 0]
    /\ amount' = [amount EXCEPT ![f] = 0]
    /\ sending_flow' = IF f = sending_flow THEN NoFlow ELSE sending_flow
    /\ previous_flow' = IF f = previous_flow THEN NoFlow ELSE previous_flow
    /\ queued' = queued \ {f}
    /\ Leaves(f)
    /\ UNCHANGED <<schedule_job, freeing>>

Init ==
    /\ flows = {} /\ queued = {}
    /\ time = [f \in Flows |-> 0] /\ amount = [f \in Flows |-> 0]
    /\ sending_flow = NoFlow /\ previous_flow = NoFlow
    /\ schedule_job = FALSE /\ freeing = FALSE
    /\ served = {} /\ ahead = [f \in Flows |-> [g \in Flows |-> 0]]

Next ==
    \/ \E f \in Flows : \/ PacketPassFairQueueFlow_Init(f)
                        \/ \E n \in Amounts : input_handler_send(f, n)
                        \/ PacketPassFairQueueFlow_Free(f)
    \/ output_handler_done
    \/ schedule_job_handler
    \/ PacketPassFairQueue_PrepareFree

Spec == Init /\ [][Next]_vars

-----------------------------------------------------------------------------
\* Times stay in their range, and the fields agree on where a flow is.
TypeOK ==
    /\ flows \subseteq Flows /\ queued \subseteq flows
    /\ time \in [Flows -> 0..FAIRQUEUE_MAX_TIME]
    /\ amount \in [Flows -> Amounts \cup {0}]
    /\ \A f \in Flows : amount[f] # 0 <=> f \in queued \cup {sending_flow}
    /\ sending_flow \in (flows \ queued) \cup {NoFlow}
    /\ previous_flow \in (flows \ queued) \cup {NoFlow}
    /\ schedule_job \in BOOLEAN /\ freeing \in BOOLEAN
    /\ served \subseteq Flows
    /\ ahead \in [Flows -> [Flows -> 0..Allowance + 1]]

\* The output is never left idle with packets queued: a flow waits only for one that is being
\* sent, or for the schedule job.
WorkConserving == (queued # {} /\ ~freeing) => sending_flow # NoFlow \/ schedule_job

\* The fields agree, and the queue never stops: times stay in their range also where they are
\* shifted down.
QueueAgrees == TypeOK /\ WorkConserving

\* Fairness: from the time a flow was served once, no other flow that is backlogged with it
\* gets more than it does by more than the tolerance, over any period, also when the times
\* are shifted down in between, and also one that has just queued its first packet
\* (get_current_time, increment_sent_flow).  Until then there is no bound: times start again from
\* 0 when the queue is empty for a moment, and a flow that has kept its own waits for the others
\* to get as far.
FairOnceServed == \A f, g \in Flows : g \in served => ahead[f][g] <= Allowance

\* Shifting the times down changes nothing but the times: those of the flows that wait keep
\* their differences, so that the tree stays in order, and the flow that has sent moves
\* against them by what it sent and no other amount (increment_sent_flow).
OnlyServiceCounts ==
    [][output_handler_done =>
         /\ \A f, g \in queued : time'[f] - time'[g] = time[f] - time[g]
         /\ \A g \in queued : time'[sending_flow] - time'[g] =
                              time[sending_flow] - time[g] + amount[sending_flow]]_vars
=============================================================================
