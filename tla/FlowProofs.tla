------------------------------ MODULE FlowProofs -------------------------------
(***************************************************************************)
(* Proofs about three of the parts packets flow through to and from udpgw: *)
(* FairQueue, for any set of flows, any sizes of packets and any           *)
(* FAIRQUEUE_MAX_TIME, UINT64_MAX among them; PacketBuffer, for any sizes  *)
(* of blocks and packets and any number of them; and PacketStream, for any *)
(* header, any limit of the decoder, any packets and any number of streams.*)
(***************************************************************************)
EXTENDS FairQueue, PacketBuffer, PacketStream, WellFoundedInduction, SequenceTheorems, TLAPS

-----------------------------------------------------------------------------
(* FairQueue                                                               *)
-----------------------------------------------------------------------------

\* There is a job to choose the next flow whenever one has just been sent, and none while one
\* is being sent.  The flow that is being sent has the least time of all that wait.
Order ==
    /\ schedule_job => sending_flow = NoFlow
    /\ previous_flow # NoFlow => schedule_job
    /\ sending_flow # NoFlow => \A g \in queued : time[sending_flow] <= time[g]

\* The inductive invariant.
IInv == QueueAgrees /\ Order

-----------------------------------------------------------------------------
(* Least and largest elements *)

\* A set of natural numbers has a least element.
LEMMA MinExists ==
    ASSUME NEW S \in SUBSET Nat, S # {}
    PROVE  Min(S) \in S /\ \A y \in S : Min(S) <= y
<1> DEFINE R == OpToRel(<, Nat)
<1>1. IsWellFoundedOn(R, Nat)
  BY NatLessThanWellFounded
<1>2. \A x, y \in Nat : <<y, x>> \in R <=> y < x
  BY DEF OpToRel
<1> HIDE DEF R
<1>3. PICK x \in S : \A y \in S : ~(<<y, x>> \in R)
  BY <1>1, WFMin
<1>4. \A y \in S : x <= y
  <2>1. ASSUME NEW y \in S PROVE x <= y
    <3>1. x \in Nat /\ y \in Nat
      OBVIOUS
    <3>2. ~(<<y, x>> \in R)
      BY <1>3
    <3>3. ~(y < x)
      BY <1>2, <3>1, <3>2, Zenon
    <3>4. QED BY <3>1, <3>3, SMT
  <2>2. QED BY <2>1
<1>5. QED BY <1>4 DEF Min

\* A set of natural numbers with a bound has a largest element.
LEMMA MaxExists ==
    ASSUME NEW S \in SUBSET Nat, S # {}, NEW b \in Nat, \A y \in S : y <= b
    PROVE  Max(S) \in S /\ \A y \in S : y <= Max(S)
<1> DEFINE T == {b - y : y \in S}
<1>1. T \in SUBSET Nat /\ T # {}
  <2>1. ASSUME NEW y \in S PROVE b - y \in Nat
    <3>1. y \in Nat /\ y <= b
      OBVIOUS
    <3>2. QED BY <3>1
  <2>2. QED BY <2>1
<1>2. Min(T) \in T /\ \A y \in T : Min(T) <= y
  BY <1>1, MinExists
<1>3. PICK x \in S : Min(T) = b - x
  BY <1>2
<1>4. \A y \in S : x >= y
  <2>1. ASSUME NEW y \in S PROVE x >= y
    <3>1. b - x <= b - y
      BY <1>2, <1>3
    <3>2. x \in Nat /\ y \in Nat
      OBVIOUS
    <3>3. QED BY <3>1, <3>2
  <2>2. QED BY <2>1
<1>5. Max(S) \in S /\ \A y \in S : Max(S) >= y
  BY <1>4 DEF Max
<1>6. ASSUME NEW y \in S PROVE y <= Max(S)
  <2>1. y \in Nat /\ Max(S) \in Nat /\ Max(S) >= y
    BY <1>5
  <2>2. QED BY <2>1
<1>7. QED BY <1>5, <1>6

LEMMA MaxAmountBound == MaxAmount \in Nat /\ \A n \in Amounts : n <= MaxAmount
BY FairQueueAssumption, MaxExists DEF MaxAmount

LEMMA AllowanceType == Allowance \in Nat
BY MaxAmountBound, FairQueueAssumption DEF Allowance

LEMMA LeastType ==
    ASSUME TypeOK, NEW S \in SUBSET Flows, S # {}
    PROVE  /\ Least(S) \in 0..FAIRQUEUE_MAX_TIME
           /\ \A f \in S : Least(S) <= time[f]
<1> DEFINE T == {time[f] : f \in S}
<1>1. T \in SUBSET Nat /\ T # {} /\ T \subseteq 0..FAIRQUEUE_MAX_TIME
  BY FairQueueAssumption DEF TypeOK
<1>2. Min(T) \in T /\ \A y \in T : Min(T) <= y
  BY <1>1, MinExists
<1>3. QED BY <1>1, <1>2 DEF Least

-----------------------------------------------------------------------------
(* Unsigned arithmetic *)

LEMMA WrapType == ASSUME NEW n \in Int PROVE Wrap(n) \in 0..FAIRQUEUE_MAX_TIME
BY FairQueueAssumption DEF Wrap

LEMMA WrapInRange == ASSUME NEW n \in 0..FAIRQUEUE_MAX_TIME PROVE Wrap(n) = n
BY FairQueueAssumption DEF Wrap

\* What is let wrap below 0 is brought back by the addition that follows.
LEMMA WrapBack ==
    ASSUME NEW d \in Int, -FAIRQUEUE_MAX_TIME <= d, d <= 0,
           NEW n \in Nat, d + n \in 0..FAIRQUEUE_MAX_TIME
    PROVE  Wrap(Wrap(d) + n) = d + n
<1> DEFINE m == FAIRQUEUE_MAX_TIME + 1
<1>1. m \in Nat \ {0} /\ FAIRQUEUE_MAX_TIME \in Nat
  BY FairQueueAssumption
<1>2. CASE d = 0
  <2>1. Wrap(d) = d
    BY <1>1, <1>2, WrapInRange
  <2>2. QED BY <2>1, <1>2, WrapInRange
<1>3. CASE d # 0
  <2>1. Wrap(d) = d + m
    BY <1>1, <1>3 DEF Wrap
  <2>2. Wrap(d + m + n) = d + n
    BY <1>1 DEF Wrap
  <2>3. QED BY <1>1, <2>1, <2>2
<1>4. QED BY <1>2, <1>3

LEMMA SubtractedType ==
    ASSUME TypeOK, NEW f \in Flows, NEW d \in 0..FAIRQUEUE_MAX_TIME
    PROVE  Subtracted(f, d) \in [Flows -> 0..FAIRQUEUE_MAX_TIME]
<1>1. ASSUME NEW g \in Flows
      PROVE  /\ time[g] \in 0..FAIRQUEUE_MAX_TIME
             /\ 0 \in 0..FAIRQUEUE_MAX_TIME
             /\ Wrap(time[g] - d) \in 0..FAIRQUEUE_MAX_TIME
  <2>1. time[g] \in 0..FAIRQUEUE_MAX_TIME
    BY DEF TypeOK
  <2>2. time[g] - d \in Int
    BY <2>1, FairQueueAssumption
  <2>3. QED BY <2>1, <2>2, WrapType, FairQueueAssumption
<1>2. QED BY <1>1 DEF Subtracted

LEMMA IncrementType ==
    ASSUME TypeOK, NEW f \in Flows, NEW n \in 0..FAIRQUEUE_MAX_TIME
    PROVE  increment_sent_flow(f, n) \in [Flows -> 0..FAIRQUEUE_MAX_TIME]
<1> DEFINE subtract == IF queued = {} THEN time[f] ELSE Least(queued)
           shifted == IF n > FAIRQUEUE_MAX_TIME - time[f] THEN Subtracted(f, subtract) ELSE time
<1>1. subtract \in 0..FAIRQUEUE_MAX_TIME
  BY LeastType DEF TypeOK
<1>2. shifted \in [Flows -> 0..FAIRQUEUE_MAX_TIME]
  <2> HIDE DEF subtract
  <2>1. QED BY <1>1, SubtractedType DEF TypeOK
<1>3. increment_sent_flow(f, n) = [shifted EXCEPT ![f] = Wrap(shifted[f] + n)]
  BY <1>2 DEF increment_sent_flow
<1> HIDE DEF shifted
<1>4. Wrap(shifted[f] + n) \in 0..FAIRQUEUE_MAX_TIME
  <2>1. shifted[f] + n \in Int
    BY <1>2, FairQueueAssumption
  <2>2. QED BY <2>1, WrapType
<1>5. QED BY <1>2, <1>3, <1>4

\* The flow that has sent is the first of all, so that what is subtracted is no less than its
\* time: those that wait and itself all move by the same amount.
LEMMA IncrementShifts ==
    ASSUME TypeOK, NEW f \in flows, NEW n \in 1..FAIRQUEUE_MAX_TIME,
           f \notin queued, \A g \in queued : time[f] <= time[g]
    PROVE  \E d \in 0..FAIRQUEUE_MAX_TIME :
               \A g \in queued : /\ increment_sent_flow(f, n)[g] = time[g] - d
                                 /\ increment_sent_flow(f, n)[f] = time[f] - d + n
<1> DEFINE subtract == IF queued = {} THEN time[f] ELSE Least(queued)
           inc == increment_sent_flow(f, n)
<1>0. /\ FAIRQUEUE_MAX_TIME \in Nat /\ queued \subseteq flows /\ flows \subseteq Flows
      /\ time \in [Flows -> 0..FAIRQUEUE_MAX_TIME]
  BY FairQueueAssumption DEF TypeOK
<1>1. CASE queued = {}
  BY <1>0, <1>1
<1>2. CASE queued # {} /\ ~(n > FAIRQUEUE_MAX_TIME - time[f])
  <2>1. inc = [time EXCEPT ![f] = Wrap(time[f] + n)]
    BY <1>0, <1>2 DEF increment_sent_flow
  <2>2. time[f] + n \in 0..FAIRQUEUE_MAX_TIME
    BY <1>0, <1>2
  <2>3. \A g \in queued : inc[g] = time[g] - 0 /\ inc[f] = time[f] - 0 + n
    <3>1. inc[f] = time[f] + n
      BY <1>0, <2>1, <2>2, WrapInRange
    <3>2. ASSUME NEW g \in queued PROVE inc[g] = time[g] /\ time[g] \in Int /\ time[f] \in Int
      BY <1>0, <2>1
    <3>3. QED BY <3>1, <3>2
  <2>4. QED BY <1>0, <2>3
<1>3. CASE queued # {} /\ n > FAIRQUEUE_MAX_TIME - time[f]
  <2> DEFINE least == Least(queued)
  <2>1. /\ least \in 0..FAIRQUEUE_MAX_TIME /\ \A g \in queued : least <= time[g]
        /\ time[f] <= least
    <3>1. PICK h \in queued : time[h] = least
      <4>1. {time[g] : g \in queued} \in SUBSET Nat /\ {time[g] : g \in queued} # {}
        BY <1>0, <1>3
      <4>2. QED BY <4>1, MinExists DEF Least
    <3>2. QED BY <1>0, <1>3, <3>1, LeastType
  <2>2. inc = [Subtracted(f, least) EXCEPT ![f] = Wrap(Subtracted(f, least)[f] + n)]
    BY <1>3 DEF increment_sent_flow
  <2> HIDE DEF least
  <2>3. DOMAIN Subtracted(f, least) = Flows
    BY DEF Subtracted
  <2>4. ASSUME NEW g \in queued PROVE inc[g] = time[g] - least
    <3>1. g \in Flows /\ g # f /\ g \in flows
      BY <1>0
    <3>2. time[g] - least \in 0..FAIRQUEUE_MAX_TIME /\ ~(least > time[g])
      BY <1>0, <2>1, <3>1
    <3>3. Subtracted(f, least)[g] = Wrap(time[g] - least)
      BY <3>1, <3>2 DEF Subtracted
    <3>4. QED BY <2>2, <3>1, <3>2, <3>3, WrapInRange
  <2>5. inc[f] = time[f] - least + n
    <3>1. inc[f] = Wrap(Wrap(time[f] - least) + n)
      <4>1. Subtracted(f, least)[f] = Wrap(time[f] - least)
        BY <1>0 DEF Subtracted
      <4>2. QED BY <1>0, <2>2, <2>3, <4>1
    <3>2. time[f] - least \in Int /\ -FAIRQUEUE_MAX_TIME <= time[f] - least /\ time[f] - least <= 0
      BY <1>0, <2>1
    <3>3. time[f] - least + n \in 0..FAIRQUEUE_MAX_TIME /\ n \in Nat
      BY <1>0, <1>3, <2>1
    <3>4. QED BY <3>1, <3>2, <3>3, WrapBack
  <2>6. QED BY <2>1, <2>4, <2>5
<1>4. QED BY <1>1, <1>2, <1>3

LEMMA AmountSent ==
    ASSUME TypeOK, sending_flow # NoFlow
    PROVE  amount[sending_flow] \in 1..FAIRQUEUE_MAX_TIME
<1>1. sending_flow \in Flows
  BY DEF TypeOK
<1>2. amount[sending_flow] # 0 /\ amount[sending_flow] \in Amounts \cup {0}
  BY <1>1 DEF TypeOK
<1>3. \A n \in Amounts : n \in 1..FAIRQUEUE_MAX_TIME
  BY FairQueueAssumption
<1>4. QED BY <1>2, <1>3

-----------------------------------------------------------------------------
(* The history *)

LEMMA CutType == ASSUME NEW n \in Int PROVE Cut(n) \in 0..Allowance + 1
BY AllowanceType DEF Cut

LEMMA CountType ==
    ASSUME TypeOK, NEW f \in Flows, NEW n \in Nat, Count(f, n)
    PROVE  served' \subseteq Flows /\ ahead' \in [Flows -> [Flows -> 0..Allowance + 1]]
<1>1. \A g, h \in Flows : /\ ahead[g][h] \in 0..Allowance + 1
                          /\ Cut(ahead[g][h] - n) \in 0..Allowance + 1
                          /\ Cut(ahead[g][h] + n) \in 0..Allowance + 1
  <2>1. ASSUME NEW g \in Flows, NEW h \in Flows
        PROVE  /\ ahead[g][h] \in 0..Allowance + 1
               /\ ahead[g][h] - n \in Int /\ ahead[g][h] + n \in Int
    BY AllowanceType DEF TypeOK
  <2>2. QED BY <2>1, CutType
<1>2. 0 \in 0..Allowance + 1
  BY AllowanceType
<1>3. QED BY <1>1, <1>2 DEF Count, TypeOK

LEMMA LeavesType ==
    ASSUME TypeOK, NEW f, Leaves(f)
    PROVE  served' \subseteq Flows /\ ahead' \in [Flows -> [Flows -> 0..Allowance + 1]]
<1>1. 0 \in 0..Allowance + 1
  BY AllowanceType
<1>2. QED BY <1>1 DEF Leaves, TypeOK

-----------------------------------------------------------------------------
LEMMA Initially == Init => IInv
<1> SUFFICES ASSUME Init PROVE IInv
  OBVIOUS
<1>1. 0 \in 0..Allowance + 1 /\ 0 \in 0..FAIRQUEUE_MAX_TIME
  BY AllowanceType, FairQueueAssumption
<1>2. TypeOK
  BY <1>1, FairQueueAssumption DEF Init, TypeOK
<1>3. WorkConserving /\ Order
  BY DEF Init, WorkConserving, Order
<1>4. QED BY <1>2, <1>3 DEF IInv, QueueAgrees

LEMMA Inductive == IInv /\ [Next]_vars => IInv'
<1> SUFFICES ASSUME IInv, [Next]_vars PROVE IInv'
  OBVIOUS
<1>t. TypeOK /\ WorkConserving /\ Order
  BY DEF IInv, QueueAgrees
<1>r. 0 \in 0..FAIRQUEUE_MAX_TIME
  BY FairQueueAssumption
<1>1. ASSUME NEW f \in Flows, PacketPassFairQueueFlow_Init(f) PROVE IInv'
  <2>1. TypeOK'
    BY <1>t, <1>1, <1>r DEF TypeOK, PacketPassFairQueueFlow_Init
  <2>2. WorkConserving'
    BY <1>t, <1>1 DEF WorkConserving, PacketPassFairQueueFlow_Init
  <2>3. Order'
    BY <1>t, <1>1, FairQueueAssumption DEF TypeOK, Order, PacketPassFairQueueFlow_Init
  <2>4. QED BY <2>1, <2>2, <2>3 DEF IInv, QueueAgrees
<1>2. ASSUME NEW f \in Flows, NEW n \in Amounts, input_handler_send(f, n) PROVE IInv'
  <2>1. get_current_time \in 0..FAIRQUEUE_MAX_TIME
    <3>1. ASSUME sending_flow = NoFlow
          PROVE  queued \cup ({previous_flow} \ {NoFlow}) \subseteq Flows
      BY <1>t DEF TypeOK
    <3>2. sending_flow # NoFlow => time[sending_flow] \in 0..FAIRQUEUE_MAX_TIME
      BY <1>t DEF TypeOK
    <3>3. QED BY <1>t, <1>r, <3>1, <3>2, LeastType DEF get_current_time
  <2>2. /\ time' \in [Flows -> 0..FAIRQUEUE_MAX_TIME]
        /\ \A g \in Flows \ {f} : time'[g] = time[g]
    <3>1. Larger(time[f], get_current_time) \in 0..FAIRQUEUE_MAX_TIME
      BY <1>t, <2>1 DEF Larger, TypeOK
    <3>2. QED BY <1>t, <1>2, <3>1 DEF input_handler_send, TypeOK
  <2>3. /\ n # 0 /\ f # NoFlow /\ f \in flows /\ f \notin queued /\ f # sending_flow
        /\ amount' = [amount EXCEPT ![f] = n]
        /\ UNCHANGED <<flows, schedule_job, freeing, served, ahead>>
        /\ previous_flow' \in {previous_flow, NoFlow} /\ previous_flow' # f
    BY <1>t, <1>2, FairQueueAssumption DEF input_handler_send, TypeOK
  <2>4. CASE sending_flow = NoFlow /\ ~schedule_job
    <3>1. schedule(queued \cup {f})
      BY <1>2, <2>4 DEF input_handler_send
    <3>2. PICK h \in queued \cup {f} : /\ \A g \in queued \cup {f} : time'[h] <= time'[g]
                                       /\ queued' = (queued \cup {f}) \ {h}
                                       /\ sending_flow' = h
      BY <3>1 DEF schedule
    <3>3. previous_flow' = NoFlow /\ ~schedule_job'
      BY <1>t, <2>3, <2>4 DEF Order
    <3>4. h \in flows /\ h \in Flows /\ h # NoFlow
      BY <1>t, <2>3, FairQueueAssumption DEF TypeOK
    <3>5. TypeOK'
      <4>1. \A g \in Flows : amount'[g] # 0 <=> g \in queued' \cup {sending_flow'}
        BY <1>t, <2>3, <2>4, <3>2, FairQueueAssumption DEF TypeOK
      <4>2. QED BY <1>t, <2>2, <2>3, <3>2, <3>3, <3>4, <4>1 DEF TypeOK
    <3>6. WorkConserving' /\ Order'
      BY <3>2, <3>3, <3>4 DEF WorkConserving, Order
    <3>7. QED BY <3>5, <3>6 DEF IInv, QueueAgrees
  <2>5. CASE ~(sending_flow = NoFlow /\ ~schedule_job)
    <3>1. queued' = queued \cup {f} /\ sending_flow' = sending_flow
      BY <1>2, <2>5 DEF input_handler_send
    <3>2. TypeOK'
      <4>1. \A g \in Flows : amount'[g] # 0 <=> g \in queued' \cup {sending_flow'}
        BY <1>t, <2>3, <3>1 DEF TypeOK
      <4>2. QED BY <1>t, <2>2, <2>3, <3>1, <4>1 DEF TypeOK
    <3>3. WorkConserving'
      BY <2>3, <2>5, <3>1 DEF WorkConserving
    <3>4. Order'
      <4>1. ASSUME sending_flow # NoFlow, NEW g \in queued \cup {f}
            PROVE  time'[sending_flow] <= time'[g]
        <5>1. /\ sending_flow \in Flows /\ queued \subseteq Flows
              /\ time'[sending_flow] = time[sending_flow]
          BY <1>t, <2>2, <2>3, <4>1 DEF TypeOK
        <5>2. CASE g = f
          <6>1. f # previous_flow
            BY <1>t, <2>3, <4>1 DEF Order
          <6>2. time'[f] = Larger(time[f], time[sending_flow])
            BY <1>t, <1>2, <4>1, <6>1 DEF input_handler_send, get_current_time, TypeOK
          <6>3. time[f] \in Int /\ time[sending_flow] \in Int
            BY <1>t, <5>1, FairQueueAssumption DEF TypeOK
          <6>4. QED BY <5>1, <5>2, <6>2, <6>3 DEF Larger
        <5>3. CASE g # f
          BY <1>t, <2>2, <4>1, <5>1, <5>3 DEF Order
        <5>4. QED BY <5>2, <5>3
      <4>2. QED BY <1>t, <2>3, <3>1, <4>1 DEF Order
    <3>5. QED BY <3>2, <3>3, <3>4 DEF IInv, QueueAgrees
  <2>6. QED BY <2>4, <2>5
<1>3. ASSUME NEW f \in Flows, PacketPassFairQueueFlow_Free(f) PROVE IInv'
  <2>1. served' \subseteq Flows /\ ahead' \in [Flows -> [Flows -> 0..Allowance + 1]]
    BY <1>t, <1>3, LeavesType DEF PacketPassFairQueueFlow_Free
  <2>2. \A g \in Flows : amount'[g] # 0 <=> g \in queued' \cup {sending_flow'}
    BY <1>t, <1>3, FairQueueAssumption DEF TypeOK, PacketPassFairQueueFlow_Free
  <2>3. TypeOK'
    BY <1>t, <1>3, <1>r, <2>1, <2>2, FairQueueAssumption DEF TypeOK, PacketPassFairQueueFlow_Free
  <2>4. WorkConserving'
    BY <1>t, <1>3 DEF WorkConserving, PacketPassFairQueueFlow_Free
  <2>5. Order'
    BY <1>t, <1>3 DEF TypeOK, Order, PacketPassFairQueueFlow_Free
  <2>6. QED BY <2>3, <2>4, <2>5 DEF IInv, QueueAgrees
<1>4. CASE output_handler_done
  <2> DEFINE f == sending_flow
  <2>1. f \in Flows /\ f \in flows \ queued /\ f # NoFlow
    BY <1>t, <1>4 DEF TypeOK, output_handler_done
  <2>2. amount[f] \in 0..FAIRQUEUE_MAX_TIME /\ amount[f] \in Nat
    BY <1>t, <2>1, AmountSent, FairQueueAssumption
  <2>3. time' \in [Flows -> 0..FAIRQUEUE_MAX_TIME]
    BY <1>t, <1>4, <2>1, <2>2, IncrementType DEF output_handler_done
  <2>4. served' \subseteq Flows /\ ahead' \in [Flows -> [Flows -> 0..Allowance + 1]]
    BY <1>t, <1>4, <2>1, <2>2, CountType DEF output_handler_done
  <2>5. /\ sending_flow' = NoFlow /\ previous_flow' = f /\ schedule_job' = TRUE
        /\ amount' = [amount EXCEPT ![f] = 0] /\ UNCHANGED <<flows, queued, freeing>>
    BY <1>4 DEF output_handler_done
  <2>6. \A g \in Flows : amount'[g] # 0 <=> g \in queued' \cup {sending_flow'}
    BY <1>t, <2>1, <2>5, FairQueueAssumption DEF TypeOK
  <2>7. TypeOK'
    BY <1>t, <2>1, <2>3, <2>4, <2>5, <2>6 DEF TypeOK
  <2>8. WorkConserving' /\ Order'
    BY <2>5 DEF WorkConserving, Order
  <2>9. QED BY <2>7, <2>8 DEF IInv, QueueAgrees
<1>5. CASE schedule_job_handler
  <2>1. /\ schedule_job /\ schedule_job' = FALSE /\ sending_flow = NoFlow /\ previous_flow' = NoFlow
        /\ UNCHANGED <<flows, time, amount, freeing>>
    BY <1>t, <1>5 DEF schedule_job_handler, Order
  <2>2. served' \subseteq Flows /\ ahead' \in [Flows -> [Flows -> 0..Allowance + 1]]
    BY <1>t, <1>5, LeavesType DEF schedule_job_handler, TypeOK
  <2>3. CASE queued = {}
    <3>1. queued' = {} /\ sending_flow' = NoFlow
      BY <1>5, <2>1, <2>3 DEF schedule_job_handler, ScheduleNext
    <3>2. TypeOK'
      BY <1>t, <2>1, <2>2, <2>3, <3>1 DEF TypeOK
    <3>3. WorkConserving' /\ Order'
      BY <2>1, <3>1 DEF WorkConserving, Order
    <3>4. QED BY <3>2, <3>3 DEF IInv, QueueAgrees
  <2>4. CASE queued # {}
    <3>1. PICK h \in queued : /\ \A g \in queued : time'[h] <= time'[g]
                              /\ queued' = queued \ {h} /\ sending_flow' = h
      BY <1>5, <2>4 DEF schedule_job_handler, ScheduleNext, schedule
    <3>2. h \in Flows /\ h \in flows /\ h # NoFlow
      BY <1>t, FairQueueAssumption DEF TypeOK
    <3>3. TypeOK'
      <4>1. \A g \in Flows : amount'[g] # 0 <=> g \in queued' \cup {sending_flow'}
        BY <1>t, <2>1, <3>1, FairQueueAssumption DEF TypeOK
      <4>2. QED BY <1>t, <2>1, <2>2, <3>1, <3>2, <4>1 DEF TypeOK
    <3>4. WorkConserving' /\ Order'
      BY <2>1, <3>1, <3>2 DEF WorkConserving, Order
    <3>5. QED BY <3>3, <3>4 DEF IInv, QueueAgrees
  <2>5. QED BY <2>3, <2>4
<1>6. CASE PacketPassFairQueue_PrepareFree
  <2>1. TypeOK'
    BY <1>t, <1>6 DEF TypeOK, PacketPassFairQueue_PrepareFree
  <2>2. WorkConserving' /\ Order'
    BY <1>t, <1>6 DEF WorkConserving, Order, PacketPassFairQueue_PrepareFree
  <2>3. QED BY <2>1, <2>2 DEF IInv, QueueAgrees
<1>7. CASE UNCHANGED vars
  <2>1. TypeOK'
    BY <1>t, <1>7 DEF TypeOK, vars
  <2>2. WorkConserving' /\ Order'
    BY <1>t, <1>7 DEF WorkConserving, Order, vars
  <2>3. QED BY <2>1, <2>2 DEF IInv, QueueAgrees
<1>8. QED
  BY <1>1, <1>2, <1>3, <1>4, <1>5, <1>6, <1>7 DEF Next

-----------------------------------------------------------------------------
(* Fairness *)

\* A flow that was served is no more than one packet past any other that is backlogged, and
\* what another got more than it is what the other is past it, but for one packet.
FairInv ==
    /\ served \subseteq Backlogged
    /\ \A f, g \in Flows :
           f = g \/ f \notin served \/ g \notin Backlogged => ahead[f][g] = 0
    /\ \A f, g \in Backlogged : f # g /\ g \in served =>
           /\ time[g] <= time[f] + MaxAmount
           /\ ahead[f][g] <= time[f] - time[g] + MaxAmount

LEMMA BackloggedFlows == ASSUME TypeOK PROVE Backlogged \subseteq flows /\ Backlogged \subseteq Flows
BY DEF TypeOK, Backlogged

LEMMA CutBounds ==
    ASSUME NEW n \in Int, NEW b \in Nat, n <= b
    PROVE  Cut(n) <= b /\ (n <= 0 => Cut(n) = 0)
BY AllowanceType DEF Cut

LEMMA CutBelow == ASSUME NEW n \in Int, n <= 0 PROVE Cut(n) = 0
BY AllowanceType DEF Cut

LEMMA FairInitially == Init => FairInv
BY DEF Init, FairInv, Backlogged

\* A flow that leaves takes its history with it.
LEMMA LeavesFair ==
    ASSUME TypeOK, FairInv, NEW f, Leaves(f),
           Backlogged' = Backlogged \ {f}, \A g \in Backlogged' : time'[g] = time[g]
    PROVE  FairInv'
<1>1. served' = served \ {f}
  BY DEF Leaves
<1>2. \A g, h \in Flows : ahead'[g][h] = IF f \in {g, h} THEN 0 ELSE ahead[g][h]
  BY DEF Leaves
<1>3. served' \subseteq Backlogged'
  BY <1>1 DEF FairInv
<1>4. ASSUME NEW g \in Flows, NEW h \in Flows, g = h \/ g \notin served' \/ h \notin Backlogged'
      PROVE  ahead'[g][h] = 0
  BY <1>1, <1>2, <1>4 DEF FairInv
<1>5. ASSUME NEW g \in Backlogged', NEW h \in Backlogged', g # h, h \in served'
      PROVE  /\ time'[h] <= time'[g] + MaxAmount
             /\ ahead'[g][h] <= time'[g] - time'[h] + MaxAmount
  <2>1. g \in Flows /\ h \in Flows /\ g \in Backlogged /\ h \in Backlogged /\ f \notin {g, h}
    BY BackloggedFlows
  <2>2. QED BY <1>1, <1>2, <1>5, <2>1 DEF FairInv
<1>6. QED BY <1>3, <1>4, <1>5 DEF FairInv

\* A flow that becomes backlogged begins at the current time, from which no flow that was
\* served is more than one packet away.
LEMMA SendFair ==
    ASSUME IInv, FairInv, NEW f \in Flows, NEW n \in Amounts, input_handler_send(f, n), TypeOK'
    PROVE  FairInv'
<1>t. TypeOK /\ Order /\ MaxAmount \in Nat /\ FAIRQUEUE_MAX_TIME \in Nat /\ f # NoFlow
  BY MaxAmountBound, FairQueueAssumption DEF IInv, QueueAgrees
<1>1. UNCHANGED <<served, ahead>> /\ f \notin queued /\ f # sending_flow
  BY DEF input_handler_send
<1>2. Backlogged' = Backlogged \cup {f}
  <2>1. CASE sending_flow = NoFlow /\ ~schedule_job
    <3>1. schedule(queued \cup {f})
      BY <2>1 DEF input_handler_send
    <3>2. PICK h \in queued \cup {f} : queued' = (queued \cup {f}) \ {h} /\ sending_flow' = h
      BY <3>1 DEF schedule
    <3>3. previous_flow = NoFlow /\ previous_flow' = NoFlow
      BY <1>t, <2>1 DEF input_handler_send, Order
    <3>4. h # NoFlow
      BY <1>t, FairQueueAssumption DEF TypeOK
    <3>5. QED BY <2>1, <3>2, <3>3, <3>4 DEF Backlogged
  <2>2. CASE ~(sending_flow = NoFlow /\ ~schedule_job)
    BY <1>t, <2>2 DEF input_handler_send, Backlogged, Order
  <2>3. QED BY <2>1, <2>2
<1>3. \A g \in Flows \ {f} : time'[g] = time[g]
  BY <1>t DEF input_handler_send, TypeOK
<1>4. CASE f \in Backlogged
  <2>1. f = previous_flow
    BY <1>1, <1>4 DEF Backlogged
  <2>2. time' = time /\ Backlogged' = Backlogged
    BY <1>2, <1>4, <2>1 DEF input_handler_send
  <2>3. QED BY <1>1, <2>2 DEF FairInv
<1>5. CASE f \notin Backlogged
  <2>1. f \notin served /\ \A g \in Flows : ahead[f][g] = 0 /\ ahead[g][f] = 0
    BY <1>5 DEF FairInv
  <2>2. f # previous_flow
    BY <1>t, <1>5 DEF Backlogged
  <2>3. ASSUME NEW g \in Backlogged, g \in served PROVE time[g] <= time'[f] + MaxAmount
    <3>1. PICK h \in Backlogged : get_current_time = time[h]
      <4>1. CASE sending_flow # NoFlow
        BY <4>1 DEF get_current_time, Backlogged
      <4>2. CASE sending_flow = NoFlow
        <5> DEFINE S == queued \cup ({previous_flow} \ {NoFlow})
        <5>1. S = Backlogged /\ S # {} /\ S \subseteq Flows
          BY <1>t, <2>3, <4>2, BackloggedFlows DEF Backlogged
        <5>2. {time[h] : h \in S} \in SUBSET Nat /\ {time[h] : h \in S} # {}
          BY <1>t, <5>1 DEF TypeOK
        <5>3. Least(S) \in {time[h] : h \in S}
          BY <5>2, MinExists DEF Least
        <5>4. get_current_time = Least(S)
          BY <4>2, <5>1 DEF get_current_time
        <5>5. QED BY <5>1, <5>3, <5>4
      <4>3. QED BY <4>1, <4>2
    <3>2. g \in Flows /\ h \in Flows /\ time[g] \in Int /\ time[h] \in Int /\ time[f] \in Int
      BY <1>t, BackloggedFlows DEF TypeOK
    <3>3. time[g] <= time[h] + MaxAmount
      BY <1>t, <2>3, <3>2 DEF FairInv
    <3>4. time'[f] = Larger(time[f], time[h])
      BY <1>t, <2>2, <3>1 DEF input_handler_send, TypeOK
    <3>5. QED BY <1>t, <3>2, <3>3, <3>4 DEF Larger
  <2>4. ASSUME NEW g \in Backlogged', NEW h \in Backlogged', g # h, h \in served'
        PROVE  /\ time'[h] <= time'[g] + MaxAmount
               /\ ahead'[g][h] <= time'[g] - time'[h] + MaxAmount
    <3>1. /\ g \in Flows /\ h \in Flows /\ h # f /\ h \in Backlogged /\ h \in served
          /\ time'[h] = time[h] /\ time'[h] \in Int /\ time'[g] \in Int
      BY <1>t, <1>1, <1>2, <1>3, <2>1, <2>4, BackloggedFlows DEF TypeOK
    <3>2. CASE g = f
      BY <1>t, <1>1, <2>1, <2>3, <3>1, <3>2
    <3>3. CASE g # f
      BY <1>1, <1>2, <1>3, <2>4, <3>1, <3>3 DEF FairInv
    <3>4. QED BY <3>2, <3>3
  <2>5. served' \subseteq Backlogged'
    BY <1>1, <1>2 DEF FairInv
  <2>6. ASSUME NEW g \in Flows, NEW h \in Flows, g = h \/ g \notin served' \/ h \notin Backlogged'
        PROVE  ahead'[g][h] = 0
    BY <1>1, <1>2, <2>1, <2>6 DEF FairInv
  <2>7. QED BY <2>4, <2>5, <2>6 DEF FairInv
<1>6. QED BY <1>4, <1>5

\* What a flow sends is added to its time and to what it got, against all flows that wait.
LEMMA DoneFair ==
    ASSUME IInv, FairInv, output_handler_done, TypeOK'
    PROVE  FairInv'
<1> DEFINE s == sending_flow
           n == amount[s]
<1>t. /\ TypeOK /\ Order /\ MaxAmount \in Nat /\ FAIRQUEUE_MAX_TIME \in Nat
      /\ s # NoFlow /\ s \in flows /\ s \in Flows /\ s \notin queued /\ queued \subseteq Flows
  BY MaxAmountBound, FairQueueAssumption DEF IInv, QueueAgrees, TypeOK, output_handler_done
<1>n. n \in 1..FAIRQUEUE_MAX_TIME /\ n <= MaxAmount
  <2>1. n \in 1..FAIRQUEUE_MAX_TIME
    BY <1>t, AmountSent
  <2>2. n \in Amounts \cup {0}
    BY <1>t DEF TypeOK
  <2>3. QED BY <2>1, <2>2, MaxAmountBound
<1>1. Backlogged = queued \cup {s} /\ Backlogged' = Backlogged
  BY <1>t DEF Backlogged, Order, output_handler_done
<1>2. \A g \in queued : time[s] <= time[g]
  BY <1>t DEF Order
<1>3. PICK d \in 0..FAIRQUEUE_MAX_TIME :
          \A g \in queued : time'[g] = time[g] - d /\ time'[s] = time[s] - d + n
  <2>1. time' = increment_sent_flow(s, n)
    BY DEF output_handler_done
  <2> HIDE DEF n, s
  <2>2. QED BY <1>t, <1>n, <1>2, <2>1, IncrementShifts
<1>4. served' = served \cup {s}
  BY DEF output_handler_done, Count
<1> HIDE DEF n
<1>5. \A g, h \in Flows :
          ahead'[g][h] = IF g = h \/ {g, h} \cap Backlogged # {g, h} THEN 0
                         ELSE IF h = s THEN IF s \in served THEN Cut(ahead[g][h] - n) ELSE 0
                         ELSE IF g = s THEN Cut(ahead[g][h] + n)
                         ELSE ahead[g][h]
  BY DEF output_handler_done, Count, n
<1>6. \A g, h \in Flows : ahead[g][h] \in Nat
  BY <1>t, AllowanceType DEF TypeOK
<1>7. n \in Int /\ d \in Int /\ \A g \in Flows : time[g] \in Int /\ time'[g] \in Int
  BY <1>t, <1>n DEF TypeOK
<1>8. served' \subseteq Backlogged'
  BY <1>1, <1>4 DEF FairInv
<1>9. ASSUME NEW g \in Flows, NEW h \in Flows, g = h \/ g \notin served' \/ h \notin Backlogged'
      PROVE  ahead'[g][h] = 0
  <2>1. CASE g = h \/ h \notin Backlogged
    BY <1>5, <2>1
  <2>2. CASE g \notin served'
    <3>1. g # s /\ ahead[g][h] = 0
      BY <1>4, <2>2 DEF FairInv
    <3>2. Cut(ahead[g][h] - n) = 0
      BY <1>n, <1>7, <3>1, CutBelow
    <3>3. QED BY <1>5, <3>1, <3>2
  <2>3. QED BY <1>1, <1>9, <2>1, <2>2
<1>10. ASSUME NEW g \in Backlogged', NEW h \in Backlogged', g # h, h \in served'
       PROVE  /\ time'[h] <= time'[g] + MaxAmount
              /\ ahead'[g][h] <= time'[g] - time'[h] + MaxAmount
  <2>1. /\ g \in Flows /\ h \in Flows /\ g \in Backlogged /\ h \in Backlogged
        /\ time[g] \in Int /\ time[h] \in Int /\ ahead[g][h] \in Nat
    BY <1>t, <1>1, <1>6, <1>7
  <2>2. CASE h = s
    <3>1. /\ time'[g] = time[g] - d /\ time'[h] = time[h] - d + n /\ time[h] <= time[g]
      BY <1>1, <1>2, <1>3, <1>10, <2>1, <2>2
    <3>2. time'[h] <= time'[g] + MaxAmount
      BY <1>t, <1>n, <1>7, <2>1, <3>1
    <3>3. CASE s \in served
      <4>1. ahead[g][h] <= time[g] - time[h] + MaxAmount
        BY <1>10, <2>1, <2>2, <3>3 DEF FairInv
      <4>2. ahead'[g][h] = Cut(ahead[g][h] - n)
        BY <1>5, <1>10, <2>1, <2>2, <3>3
      <4>3. /\ time'[g] - time'[h] + MaxAmount \in Nat
            /\ ahead[g][h] - n <= time'[g] - time'[h] + MaxAmount
        BY <1>t, <1>7, <2>1, <3>1, <3>2, <4>1
      <4>4. Cut(ahead[g][h] - n) <= time'[g] - time'[h] + MaxAmount
        BY <1>7, <2>1, <4>3, CutBounds
      <4>5. QED BY <3>2, <4>2, <4>4
    <3>4. CASE s \notin served
      <4>1. ahead'[g][h] = 0
        BY <1>5, <1>10, <2>1, <2>2, <3>4
      <4>2. QED BY <1>t, <1>7, <2>1, <3>2, <4>1
    <3>5. QED BY <3>3, <3>4
  <2>3. CASE h # s
    <3>1. h \in served /\ h \in queued
      BY <1>1, <1>4, <1>10, <2>1, <2>3
    <3>2. time[h] <= time[g] + MaxAmount /\ ahead[g][h] <= time[g] - time[h] + MaxAmount
      BY <1>10, <2>1, <3>1 DEF FairInv
    <3>3. CASE g = s
      <4>1. time'[g] = time[g] - d + n /\ time'[h] = time[h] - d
        BY <1>3, <3>1, <3>3
      <4>2. ahead'[g][h] = Cut(ahead[g][h] + n)
        BY <1>5, <1>10, <2>1, <2>3, <3>3
      <4>3. /\ time'[g] - time'[h] + MaxAmount \in Nat
            /\ ahead[g][h] + n <= time'[g] - time'[h] + MaxAmount
            /\ time'[h] <= time'[g] + MaxAmount
        BY <1>t, <1>n, <1>7, <2>1, <3>2, <4>1
      <4>4. Cut(ahead[g][h] + n) <= time'[g] - time'[h] + MaxAmount
        BY <1>7, <2>1, <4>3, CutBounds
      <4>5. QED BY <4>2, <4>3, <4>4
    <3>4. CASE g # s
      <4>1. time'[g] = time[g] - d /\ time'[h] = time[h] - d
        BY <1>1, <1>3, <2>1, <3>1, <3>4
      <4>2. ahead'[g][h] = ahead[g][h]
        BY <1>5, <1>10, <2>1, <2>3, <3>4
      <4>3. QED BY <1>t, <1>7, <2>1, <3>2, <4>1, <4>2
    <3>5. QED BY <3>3, <3>4
  <2>4. QED BY <2>2, <2>3
<1>11. QED BY <1>8, <1>9, <1>10 DEF FairInv

LEMMA FairInductive == IInv /\ FairInv /\ [Next]_vars => FairInv'
<1> SUFFICES ASSUME IInv, FairInv, [Next]_vars PROVE FairInv'
  OBVIOUS
<1>t. TypeOK /\ Order /\ TypeOK'
  BY Inductive DEF IInv, QueueAgrees
<1>1. ASSUME NEW f \in Flows, PacketPassFairQueueFlow_Init(f) PROVE FairInv'
  <2>1. f \notin Backlogged /\ Backlogged \subseteq Flows
    BY <1>t, <1>1, BackloggedFlows DEF PacketPassFairQueueFlow_Init
  <2>2. /\ UNCHANGED <<served, ahead>> /\ Backlogged' = Backlogged
        /\ \A g \in Backlogged : time'[g] = time[g]
    BY <1>t, <1>1, <2>1 DEF PacketPassFairQueueFlow_Init, Backlogged, TypeOK
  <2>3. QED BY <2>2 DEF FairInv
<1>2. ASSUME NEW f \in Flows, NEW n \in Amounts, input_handler_send(f, n) PROVE FairInv'
  BY <1>t, <1>2, SendFair
<1>3. ASSUME NEW f \in Flows, PacketPassFairQueueFlow_Free(f) PROVE FairInv'
  <2>1. Leaves(f) /\ Backlogged' = Backlogged \ {f}
    BY <1>t, <1>3, FairQueueAssumption DEF PacketPassFairQueueFlow_Free, Backlogged
  <2>2. \A g \in Backlogged' : time'[g] = time[g]
    BY <1>t, <1>3, <2>1, BackloggedFlows DEF PacketPassFairQueueFlow_Free, TypeOK
  <2>3. QED BY <1>t, <2>1, <2>2, LeavesFair
<1>4. CASE output_handler_done
  BY <1>t, <1>4, DoneFair
<1>5. CASE schedule_job_handler
  <2>1. sending_flow = NoFlow /\ time' = time
    BY <1>t, <1>5 DEF schedule_job_handler, Order
  <2>2. Backlogged' = Backlogged \ {previous_flow}
    <3>1. queued' \cup ({sending_flow'} \ {NoFlow}) = queued
      BY <1>t, <1>5, <2>1, FairQueueAssumption DEF schedule_job_handler, ScheduleNext, schedule, TypeOK
    <3>2. previous_flow' = NoFlow /\ previous_flow \notin queued
      BY <1>t, <1>5, FairQueueAssumption DEF schedule_job_handler, TypeOK
    <3>3. QED BY <2>1, <3>1, <3>2 DEF Backlogged
  <2>3. CASE previous_flow # NoFlow
    BY <1>t, <1>5, <2>1, <2>2, <2>3, LeavesFair DEF schedule_job_handler
  <2>4. CASE previous_flow = NoFlow
    <3>1. UNCHANGED <<served, ahead>> /\ Backlogged' = Backlogged
      BY <1>t, <1>5, <2>2, <2>4, BackloggedFlows, FairQueueAssumption DEF schedule_job_handler
    <3>2. QED BY <2>1, <3>1 DEF FairInv
  <2>5. QED BY <2>3, <2>4
<1>6. CASE PacketPassFairQueue_PrepareFree
  BY <1>6 DEF PacketPassFairQueue_PrepareFree, FairInv, Backlogged
<1>7. CASE UNCHANGED vars
  BY <1>7 DEF vars, FairInv, Backlogged
<1>8. QED
  BY <1>1, <1>2, <1>3, <1>4, <1>5, <1>6, <1>7 DEF Next

-----------------------------------------------------------------------------
LEMMA Invariant == Spec => []IInv
BY Initially, Inductive, PTL DEF Spec

\* Times stay in range, also when they are shifted down and wrap around, the fields agree, and
\* the queue never stops with packets in it (PacketPassFairQueue).
THEOREM QueueAlwaysAgrees == Spec => []QueueAgrees
<1>1. IInv => QueueAgrees
  BY DEF IInv
<1>2. QED BY <1>1, Invariant, PTL

\* Whether or not the times are shifted down, flows that wait keep their differences, and the
\* flow that has sent moves against them by what it sent (increment_sent_flow).
THEOREM ServiceAloneCounts == Spec => OnlyServiceCounts
<1> DEFINE Counts ==
        output_handler_done =>
            /\ \A f, g \in queued : time'[f] - time'[g] = time[f] - time[g]
            /\ \A g \in queued : time'[sending_flow] - time'[g] =
                                 time[sending_flow] - time[g] + amount[sending_flow]
<1>1. ASSUME IInv, output_handler_done
      PROVE  /\ \A f, g \in queued : time'[f] - time'[g] = time[f] - time[g]
             /\ \A g \in queued : time'[sending_flow] - time'[g] =
                                  time[sending_flow] - time[g] + amount[sending_flow]
  <2> DEFINE s == sending_flow
             n == amount[s]
  <2>1. TypeOK /\ Order
    BY <1>1 DEF IInv, QueueAgrees
  <2>2. s \in flows /\ s \notin queued /\ s \in Flows /\ \A g \in queued : time[s] <= time[g]
    BY <1>1, <2>1 DEF TypeOK, Order, output_handler_done
  <2>3. n \in 1..FAIRQUEUE_MAX_TIME
    BY <1>1, <2>1, AmountSent DEF output_handler_done
  <2>4. time' = increment_sent_flow(s, n)
    BY <1>1 DEF output_handler_done
  <2> HIDE DEF n
  <2>5. PICK d \in 0..FAIRQUEUE_MAX_TIME :
            \A g \in queued : time'[g] = time[g] - d /\ time'[s] = time[s] - d + n
    BY <2>1, <2>2, <2>3, <2>4, IncrementShifts
  <2>6. \A g \in queued : time[g] \in Int /\ time[s] \in Int /\ d \in Int /\ n \in Int
    BY <2>1, <2>2, <2>3, FairQueueAssumption DEF TypeOK
  <2>7. QED BY <2>5, <2>6 DEF n
<1>2. IInv => Counts
  BY <1>1
<1>3. IInv /\ [Next]_vars => [Counts]_vars
  BY <1>2
<1>4. Spec => [][Counts]_vars
  BY <1>3, Invariant, PTL DEF Spec
<1>5. QED BY <1>4, PTL DEF OnlyServiceCounts

\* From the time a flow was served once, no other that is backlogged with it gets more than it
\* does by more than two packets of the largest size, over any period, whether or not the times
\* were shifted down in between (PacketPassFairQueue).
THEOREM FairnessHolds ==
    ASSUME Tolerance >= 2
    PROVE  Spec => []FairOnceServed
<1>1. 2 * MaxAmount <= Allowance /\ MaxAmount \in Nat /\ Allowance \in Nat
  <2>1. ASSUME NEW t \in Nat, NEW m \in Nat, t >= 2 PROVE 2 * m <= t * m
    <3>1. t * m = 2 * m + (t - 2) * m /\ (t - 2) * m \in Nat
      BY <2>1
    <3>2. QED BY <3>1
  <2>2. QED BY <2>1, MaxAmountBound, AllowanceType, FairQueueAssumption DEF Allowance
<1>2. ASSUME IInv, FairInv, NEW f \in Flows, NEW g \in Flows, g \in served
      PROVE  ahead[f][g] <= Allowance
  <2>1. CASE f = g \/ f \notin served
    BY <1>1, <1>2, <2>1 DEF FairInv
  <2>2. CASE f # g /\ f \in served
    <3>1. f \in Backlogged /\ g \in Backlogged
      BY <1>2, <2>2 DEF FairInv
    <3>2. time[f] <= time[g] + MaxAmount /\ ahead[f][g] <= time[f] - time[g] + MaxAmount
      BY <1>2, <2>2, <3>1 DEF FairInv
    <3>3. time[f] \in Int /\ time[g] \in Int /\ ahead[f][g] \in Int
      BY <1>2, AllowanceType, FairQueueAssumption DEF IInv, QueueAgrees, TypeOK
    <3>4. QED BY <1>1, <3>2, <3>3
  <2>3. QED BY <2>1, <2>2
<1>3. IInv /\ FairInv => FairOnceServed
  BY <1>2 DEF FairOnceServed
<1>4. Spec => [](IInv /\ FairInv)
  BY Initially, Inductive, FairInitially, FairInductive, PTL DEF Spec
<1>5. QED BY <1>3, <1>4, PTL

-----------------------------------------------------------------------------
(* PacketBuffer                                                            *)
-----------------------------------------------------------------------------

\* The logical place of block p, in a ring that ends at w and whose data begins at s.
Off(w, s, p) == IF p >= s THEN p - s ELSE (w - s) + p

\* The most that n packets take.
Most(n) == (1 + mtu) * n

\* There is room for the largest packet.
Roomy(w, s, u) == HasInput(w, s, u) /\ free(w, s, u) - 1 >= mtu

\* The fields of the ring: where it does not wrap around it did not end early, and there is room
\* for the largest packet after the data; where it ended early there was not.
RingOK(w, s, u) ==
    /\ w \in Nat /\ s \in Nat /\ u \in Nat /\ w <= size /\ s < w /\ u <= w
    /\ size <= w + mtu /\ s + mtu + 1 <= size
    /\ u < w - s => w = size /\ s + u + mtu + 1 <= size

\* Packet k of those at pl lies within the ring and the data, and with those after it takes no
\* more than so many of the largest.
Lies(w, s, u, l, pl, k) ==
    LET p == pl[k]
        b == bdivide_up(l[p])
    IN /\ p \in Nat /\ p + mtu + 1 <= size /\ b \in Nat /\ p + 1 + b <= w /\ Off(w, s, p) + 1 + b <= u
       /\ u - Off(w, s, p) <= Most(Len(pl) - k + 1)

\* Each packet begins where the one before ends, the first where the data does, and the last
\* ends where the data ends.
Chained(w, s, u, l, pl) ==
    /\ pl = <<>> => u = 0
    /\ pl # <<>> => pl[1] = s /\ Off(w, s, pl[Len(pl)]) + 1 + bdivide_up(l[pl[Len(pl)]]) = u
    /\ \A k \in 1..Len(pl) - 1 :
         LET e == pl[k] + 1 + bdivide_up(l[pl[k]])
         IN pl[k + 1] = IF e = w THEN 0 ELSE e

Ordered(w, s, l, pl) ==
    \A j, k \in 1..Len(pl) :
        j < k => Off(w, s, pl[j]) + 1 + bdivide_up(l[pl[j]]) <= Off(w, s, pl[k])

Packets(w, s, u, l, pl) ==
    /\ \A k \in 1..Len(pl) : Lies(w, s, u, l, pl, k)
    /\ Chained(w, s, u, l, pl) /\ Ordered(w, s, l, pl)

RingInv ==
    /\ BufferTypeOK /\ RememberedIsCurrent /\ LoansStayValid
    /\ (sent # <<>> <=> used > 0) /\ (lent # -1 <=> input_avail >= input_mtu)
    /\ RingOK(wrap, start, used) /\ Packets(wrap, start, used, len, places)
    /\ \A k \in 1..Len(places) : data[places[k]] = NoData
    
InvSays == NobodyForgotten /\ \A k \in 1..Len(places) : Found(k)

-----------------------------------------------------------------------------
(* Sizes *)

LEMMA DivideUp ==
    ASSUME NEW n \in Nat
    PROVE  /\ bdivide_up(n) \in Nat
           /\ bdivide_up(n) * block >= n /\ bdivide_up(n) * block < n + block
<1>1. block \in Nat \ {0}
  BY PacketBufferAssumption
<1> DEFINE a == n + block - 1
           q == a \div block
<1>2. a \in Nat
  BY <1>1
<1> HIDE DEF a
<1>3. q \in Int /\ q * block <= a /\ a < q * block + block
  BY <1>1, <1>2
<1>4. q \in Nat
  BY <1>1, <1>2
<1> HIDE DEF q
<1>5. q * block \in Nat
  BY <1>1, <1>4
<1>6. q * block >= n /\ q * block < n + block
  BY <1>1, <1>3, <1>5 DEF a
<1>7. bdivide_up(n) = q
  BY DEF bdivide_up, q, a
<1>8. QED BY <1>4, <1>6, <1>7

LEMMA Times ==
    ASSUME NEW a \in Int, NEW b \in Int, a < b
    PROVE  /\ a * block \in Int /\ b * block \in Int
           /\ a * block + block <= b * block
<1>1. block \in Nat \ {0}
  BY PacketBufferAssumption
<1>2. a + 1 <= b
  OBVIOUS
<1>3. QED BY <1>1, <1>2

LEMMA BlocksOf ==
    ASSUME NEW n \in 0..input_mtu
    PROVE  /\ bdivide_up(n) \in Nat /\ bdivide_up(n) <= mtu
           /\ n = 0 => bdivide_up(n) = 0
           /\ n > 0 => bdivide_up(n) > 0
<1>1. /\ block \in Nat \ {0} /\ input_mtu \in Nat \ {0} /\ n \in Nat /\ n <= input_mtu
  BY PacketBufferAssumption
<1> DEFINE b == bdivide_up(n)
           m == bdivide_up(input_mtu)
<1>2. /\ b \in Nat /\ b * block >= n /\ b * block < n + block
      /\ m \in Nat /\ m * block >= input_mtu /\ m * block < input_mtu + block
  BY <1>1, DivideUp
<1> HIDE DEF b, m
<1>3. b <= m
  <2> SUFFICES ASSUME m < b PROVE FALSE
    BY <1>2
  <2>1. m * block + block <= b * block /\ m * block \in Int /\ b * block \in Int
    BY <1>2, Times
  <2>2. QED BY <1>1, <1>2, <2>1
<1>4. n = 0 => b = 0
  <2> SUFFICES ASSUME n = 0, 0 < b PROVE FALSE
    BY <1>2
  <2>1. 0 * block + block <= b * block /\ b * block \in Int
    BY <1>2, Times
  <2>2. 0 * block = 0
    BY <1>1
  <2>3. QED BY <1>1, <1>2, <2>1, <2>2
<1>5. n > 0 => b > 0
  <2> SUFFICES ASSUME n > 0, b = 0 PROVE FALSE
    BY <1>2
  <2>1. 0 * block = 0
    BY <1>1
  <2>2. QED BY <1>1, <1>2, <2>1
<1>6. QED BY <1>2, <1>3, <1>4, <1>5 DEF b, m, mtu

\* Room for the largest packet, in bytes and in blocks.
LEMMA RoomInBlocks ==
    ASSUME NEW n \in Int
    PROVE  n * block \in Int /\ (n * block >= input_mtu <=> n >= mtu)
<1>1. block \in Nat \ {0} /\ input_mtu \in Nat \ {0}
  BY PacketBufferAssumption
<1>2. mtu \in Nat /\ mtu * block >= input_mtu /\ mtu * block < input_mtu + block
  BY <1>1, DivideUp DEF mtu
<1>3. n * block \in Int /\ mtu * block \in Int
  BY <1>1, <1>2
<1>4. CASE n < mtu
  <2>1. n * block + block <= mtu * block
    BY <1>2, <1>4, Times
  <2>2. QED BY <1>1, <1>2, <1>3, <1>4, <2>1
<1>5. CASE n = mtu
  BY <1>2, <1>3, <1>5
<1>6. CASE n > mtu
  <2>1. mtu * block + block <= n * block
    BY <1>2, <1>6, Times
  <2>2. QED BY <1>1, <1>2, <1>3, <1>6, <2>1
<1>7. QED BY <1>2, <1>4, <1>5, <1>6

LEMMA Packed ==
    /\ mtu \in Nat /\ mtu > 0 /\ size \in Nat /\ Most(0) = 0
    /\ \A n \in Nat : Most(n) \in Nat /\ Most(n + 1) = Most(n) + 1 + mtu
<1>1. mtu \in Nat /\ mtu > 0
  <2>1. input_mtu \in 0..input_mtu /\ input_mtu > 0
    BY PacketBufferAssumption
  <2>2. QED BY <2>1, BlocksOf DEF mtu
<1>2. ASSUME NEW n \in Nat PROVE Most(n) \in Nat /\ Most(n + 1) = Most(n) + 1 + mtu
  BY <1>1 DEF Most
<1>3. Most(0) = 0
  BY <1>1 DEF Most
<1>4. size \in Nat
  BY <1>1, PacketBufferAssumption DEF size
<1>5. QED BY <1>1, <1>2, <1>3, <1>4

\* Whatever less than num_packets packets leave has room for two.
LEMMA RoomForTwo ==
    ASSUME NEW n \in Nat, n < num_packets
    PROVE  Most(n) + 2 * (1 + mtu) <= size
<1>1. num_packets \in Nat \ {0} /\ mtu \in Nat
  BY PacketBufferAssumption, Packed
<1>2. size = Most(num_packets + 1)
  BY DEF size, Most
<1>3. PICK d \in Nat : num_packets = n + 1 + d
  <2>1. num_packets - n - 1 \in Nat /\ num_packets = n + 1 + (num_packets - n - 1)
    BY <1>1
  <2>2. QED BY <2>1
<1>4. size = (1 + mtu) * n + (1 + mtu) * 2 + (1 + mtu) * d
  BY <1>1, <1>2, <1>3 DEF Most
<1>5. (1 + mtu) * d \in Nat /\ (1 + mtu) * n \in Nat /\ (1 + mtu) * 2 = 2 * (1 + mtu)
  BY <1>1
<1>6. QED BY <1>1, <1>4, <1>5 DEF Most

-----------------------------------------------------------------------------
(* The ring *)

LEMMA TheEnd ==
    ASSUME NEW w, NEW s, NEW u, RingOK(w, s, u)
    PROVE  /\ end(w, s, u) \in Nat /\ end(w, s, u) < w /\ end(w, s, u) + mtu + 1 <= size
           /\ free(w, s, u) \in Nat
           /\ u < w - s => w = size /\ end(w, s, u) = s + u /\ free(w, s, u) = size - (s + u)
           /\ u >= w - s => /\ end(w, s, u) = u - (w - s) /\ end(w, s, u) <= s
                            /\ free(w, s, u) = s - end(w, s, u)
           /\ Off(w, s, end(w, s, u)) = IF u = w THEN 0 ELSE u
           /\ HasInput(w, s, u) <=> free(w, s, u) > 0
<1>1. mtu \in Nat /\ size \in Nat
  BY Packed
<1>2. CASE u < w - s
  BY <1>1, <1>2 DEF RingOK, end, free, Off, HasInput
<1>3. CASE ~(u < w - s)
  BY <1>1, <1>3 DEF RingOK, end, free, Off, HasInput
<1>4. QED BY <1>2, <1>3

LEMMA RoomIs ==
    ASSUME NEW w, NEW s, NEW u, RingOK(w, s, u)
    PROVE  (IF HasInput(w, s, u) THEN (free(w, s, u) - 1) * block ELSE -1) >= input_mtu
               <=> Roomy(w, s, u)
<1>1. free(w, s, u) - 1 \in Int /\ input_mtu \in Nat \ {0}
  BY TheEnd, PacketBufferAssumption
<1> DEFINE m == free(w, s, u) - 1
<1> HIDE DEF m
<1>2. m * block >= input_mtu <=> m >= mtu
  BY <1>1, RoomInBlocks DEF m
<1>3. CASE HasInput(w, s, u)
  BY <1>2, <1>3 DEF Roomy, m
<1>4. CASE ~HasInput(w, s, u)
  BY <1>1, <1>4 DEF Roomy
<1>5. QED BY <1>3, <1>4

\* What is lent holds nothing of the packets.
LEMMA Apart ==
    ASSUME NEW w, NEW s, NEW u, RingOK(w, s, u), Roomy(w, s, u),
           NEW p \in Nat, p < w, Off(w, s, p) < u
    PROVE  p < end(w, s, u) \/ p > end(w, s, u) + mtu
<1>1. mtu \in Nat /\ size \in Nat
  BY Packed
<1>2. CASE u < w - s
  BY <1>1, <1>2 DEF RingOK, end, free, Off, Roomy
<1>3. CASE ~(u < w - s)
  BY <1>1, <1>3 DEF RingOK, end, free, Off, Roomy
<1>4. QED BY <1>2, <1>3

\* The data of a packet is where its length says, in one piece.
LEMMA Piece ==
    ASSUME NEW w, NEW s, NEW u, RingOK(w, s, u), NEW p \in Nat, NEW b \in Nat,
           p + 1 + b <= w, Off(w, s, p) + 1 + b <= u, NEW i \in p..p + b
    PROVE  i \in Nat /\ i < w /\ Off(w, s, i) = Off(w, s, p) + (i - p) /\ Off(w, s, i) < u
BY DEF RingOK, Off

LEMMA Follows ==
    ASSUME NEW w, NEW s, NEW u, RingOK(w, s, u), NEW p \in Nat, NEW b \in Nat,
           p + 1 + b <= w, Off(w, s, p) + 1 + b = u
    PROVE  end(w, s, u) = IF p + 1 + b = w THEN 0 ELSE p + 1 + b
BY DEF RingOK, Off, end

\* A packet of b blocks more.
Longer_wrap(w, s, u, b) ==
    LET e == end(w, s, u) + 1 + b
    IN IF u + 1 + b <= w - s /\ mtu > size - e - 1 THEN e ELSE w

\* A packet at p that has c blocks of data stays where it is.
Stays(w, v, s, u) ==
    \A p, c \in Nat : p + 1 + c <= w /\ Off(w, s, p) + 1 + c <= u =>
        /\ Off(v, s, p) = Off(w, s, p) /\ p + 1 + c <= v
        /\ (p + 1 + c = v <=> p + 1 + c = w)

LEMMA Submitted ==
    ASSUME NEW w, NEW s, NEW u, RingOK(w, s, u), Roomy(w, s, u), NEW b \in Nat, b <= mtu,
           NEW v, v = Longer_wrap(w, s, u, b)
    PROVE  /\ RingOK(v, s, u + 1 + b)
           /\ end(w, s, u) + 1 + b <= v /\ Off(v, s, end(w, s, u)) = u
           /\ Stays(w, v, s, u)
<1>1. mtu \in Nat /\ size \in Nat
  BY Packed
<1>2. CASE u < w - s
  <2>1. /\ w \in Nat /\ s \in Nat /\ u \in Nat /\ w = size /\ s < w
        /\ end(w, s, u) = s + u /\ free(w, s, u) = size - (s + u) /\ s + u + mtu + 1 <= size
    BY <1>2, TheEnd DEF RingOK
  <2>2. v = IF mtu > size - (s + u + 1 + b) - 1 THEN s + u + 1 + b ELSE w
    BY <1>1, <2>1 DEF Longer_wrap
  <2>3. RingOK(v, s, u + 1 + b)
    BY <1>1, <2>1, <2>2 DEF RingOK
  <2>4. end(w, s, u) + 1 + b <= v /\ Off(v, s, end(w, s, u)) = u
    BY <1>1, <2>1, <2>2 DEF Off
  <2>5. ASSUME NEW p \in Nat, NEW c \in Nat, p + 1 + c <= w, Off(w, s, p) + 1 + c <= u
        PROVE  /\ Off(v, s, p) = Off(w, s, p) /\ p + 1 + c <= v
               /\ (p + 1 + c = v <=> p + 1 + c = w)
    BY <1>1, <1>2, <2>1, <2>2, <2>5 DEF Off
  <2>6. QED BY <2>3, <2>4, <2>5 DEF Stays
<1>3. CASE ~(u < w - s)
  <2>1. /\ w \in Nat /\ s \in Nat /\ u \in Nat /\ s < w /\ w - s <= u /\ u <= w /\ w <= size
        /\ end(w, s, u) = u - (w - s) /\ free(w, s, u) = s - end(w, s, u)
        /\ s - end(w, s, u) - 1 >= mtu /\ size <= w + mtu /\ s + mtu + 1 <= size
    BY <1>3, TheEnd DEF RingOK, Roomy
  <2>2. v = w
    BY <2>1 DEF Longer_wrap
  <2>3. RingOK(v, s, u + 1 + b)
    BY <1>1, <2>1, <2>2 DEF RingOK
  <2>4. end(w, s, u) + 1 + b <= v /\ Off(v, s, end(w, s, u)) = u
    BY <1>1, <2>1, <2>2 DEF Off
  <2>5. Stays(w, v, s, u)
    BY <2>2 DEF Stays
  <2>6. QED BY <2>3, <2>4, <2>5
<1>4. QED BY <1>2, <1>3

\* The first packet, of n blocks with that of its length, is gone.
\* The data moves up by n blocks; a packet that is not in them stays where it is.
MovesUp(w, s, v, t, n) ==
    \A p \in Nat : p < w /\ Off(w, s, p) >= n => Off(v, t, p) = Off(w, s, p) - n

StaysToo(w, s, u, v, n) ==
    \A p, c \in Nat : p + 1 + c <= w /\ Off(w, s, p) >= n /\ Off(w, s, p) + 1 + c <= u =>
        p + 1 + c <= v /\ (p + 1 + c = v <=> p + 1 + c = w)

LEMMA Consumed ==
    ASSUME NEW w, NEW s, NEW u, RingOK(w, s, u), NEW n \in Nat, n > 0, s + n <= w, n <= u,
           s + n < w => s + n + mtu + 1 <= size,
           NEW t, t = IF s + n = w THEN 0 ELSE s + n,
           NEW v, v = IF s + n = w THEN size ELSE w
    PROVE  /\ RingOK(v, t, u - n) /\ end(v, t, u - n) = end(w, s, u)
           /\ Roomy(w, s, u) => Roomy(v, t, u - n)
           /\ u < w - s => HasInput(v, t, u - n) = HasInput(w, s, u)
                           /\ free(v, t, u - n) = free(w, s, u)
           /\ MovesUp(w, s, v, t, n) /\ StaysToo(w, s, u, v, n)
<1>1. mtu \in Nat /\ mtu > 0 /\ size \in Nat
  BY Packed
<1>2. /\ w \in Nat /\ s \in Nat /\ u \in Nat /\ w <= size /\ s < w /\ u <= w /\ size <= w + mtu
      /\ s + mtu + 1 <= size /\ u < w - s => w = size /\ s + u + mtu + 1 <= size
  BY DEF RingOK
<1>3. CASE s + n # w
  <2>1. t = s + n /\ v = w /\ t < w /\ (u < w - s <=> u - n < w - t)
    BY <1>2, <1>3
  <2>2. RingOK(v, t, u - n)
    BY <1>1, <1>2, <1>3, <2>1 DEF RingOK
  <2>3. end(v, t, u - n) = end(w, s, u)
    BY <1>2, <2>1 DEF end
  <2>4. u < w - s => free(v, t, u - n) = free(w, s, u)
    BY <1>2, <2>1, <2>3 DEF free
  <2>5. free(v, t, u - n) >= free(w, s, u)
    BY <1>2, <2>1, <2>2, <2>3, TheEnd
  <2>6. MovesUp(w, s, v, t, n) /\ StaysToo(w, s, u, v, n)
    BY <1>2, <1>3, <2>1 DEF MovesUp, StaysToo, Off
  <2>7. HasInput(v, t, u - n) <=> free(v, t, u - n) > 0
    BY <2>2, TheEnd
  <2>8. HasInput(w, s, u) <=> free(w, s, u) > 0
    BY TheEnd
  <2>9. free(w, s, u) \in Nat /\ free(v, t, u - n) \in Nat
    BY <2>2, TheEnd
  <2>10. Roomy(w, s, u) => Roomy(v, t, u - n)
    BY <1>1, <2>5, <2>7, <2>9 DEF Roomy
  <2>11. u < w - s => HasInput(v, t, u - n) = HasInput(w, s, u)
    BY <2>3, <2>4 DEF HasInput
  <2>12. QED BY <2>1, <2>2, <2>3, <2>4, <2>6, <2>10, <2>11
<1>4. CASE s + n = w
  <2>1. t = 0 /\ v = size /\ u - n = u - (w - s) /\ ~(u < w - s)
    BY <1>2, <1>4
  <2>2. end(w, s, u) = u - n /\ end(w, s, u) \in Nat /\ end(w, s, u) + mtu + 1 <= size
    BY <1>2, <2>1, TheEnd
  <2>3. RingOK(v, t, u - n)
    BY <1>1, <1>2, <2>1, <2>2 DEF RingOK
  <2>4. u - n < v - t
    BY <1>1, <1>2, <2>1, <2>2
  <2>5. end(v, t, u - n) = end(w, s, u) /\ free(v, t, u - n) = size - (u - n)
    BY <2>1, <2>2, <2>3, <2>4, TheEnd
  <2>6. Roomy(v, t, u - n)
    <3>1. HasInput(v, t, u - n) <=> free(v, t, u - n) > 0
      BY <2>3, TheEnd
    <3>2. QED BY <1>1, <1>2, <2>2, <2>5, <3>1 DEF Roomy
  <2>7. MovesUp(w, s, v, t, n)
    BY <1>2, <1>4, <2>1 DEF MovesUp, Off
  <2>8. ASSUME NEW p \in Nat, NEW c \in Nat, p + 1 + c <= w, Off(w, s, p) >= n,
               Off(w, s, p) + 1 + c <= u
        PROVE  p + 1 + c <= v /\ (p + 1 + c = v <=> p + 1 + c = w)
    BY <1>1, <1>2, <1>4, <2>1, <2>8 DEF Off
  <2>9. QED BY <2>1, <2>3, <2>5, <2>6, <2>7, <2>8 DEF StaysToo
<1>5. QED BY <1>3, <1>4

-----------------------------------------------------------------------------
(* The packets in the ring *)

\* A packet that begins at o and has c blocks of data, when the data becomes longer.
LEMMA StillIn ==
    ASSUME NEW u \in Nat, NEW b \in Nat, NEW m \in Nat, b <= m, NEW o \in Nat, NEW c \in Nat,
           o + 1 + c <= u, NEW M \in Nat, u - o <= M, NEW K, K = M + 1 + m
    PROVE  o + 1 + c <= u + 1 + b /\ (u + 1 + b) - o <= K
OBVIOUS

\* The blocks of the data of packet k.
Data_(l, pl, k) == bdivide_up(l[pl[k]])

LEMMA LiesThere ==
    ASSUME NEW w, NEW s, NEW u, NEW l, NEW pl, Packets(w, s, u, l, pl), NEW k \in 1..Len(pl)
    PROVE  /\ pl[k] \in Nat /\ pl[k] + mtu + 1 <= size /\ Data_(l, pl, k) \in Nat
           /\ pl[k] + 1 + Data_(l, pl, k) <= w
           /\ Off(w, s, pl[k]) + 1 + Data_(l, pl, k) <= u
           /\ u - Off(w, s, pl[k]) <= Most(Len(pl) - k + 1)
BY DEF Packets, Lies, Data_

LEMMA LiesHere ==
    ASSUME NEW w, NEW s, NEW u, NEW l, NEW pl, NEW k,
           pl[k] \in Nat, pl[k] + mtu + 1 <= size, Data_(l, pl, k) \in Nat,
           pl[k] + 1 + Data_(l, pl, k) <= w,
           Off(w, s, pl[k]) + 1 + Data_(l, pl, k) <= u,
           u - Off(w, s, pl[k]) <= Most(Len(pl) - k + 1)
    PROVE  Lies(w, s, u, l, pl, k)
BY DEF Lies, Data_

\* Where a place of the data of a packet begins, and that it is a place.
LEMMA OffIs ==
    ASSUME NEW w, NEW s, NEW u, RingOK(w, s, u), NEW p \in Nat
    PROVE  /\ Off(w, s, p) \in Nat /\ Off(w, s, s) = 0
           /\ w \in Nat /\ s \in Nat /\ u \in Nat /\ s < w /\ u <= w /\ w <= size
BY DEF RingOK, Off

\* The lengths that packets have count, and no others.
LEMMA PacketsKept ==
    ASSUME NEW w, NEW s, NEW u, NEW l, NEW pl, Packets(w, s, u, l, pl), pl \in Seq(Nat),
           NEW m, \A k \in 1..Len(pl) : m[pl[k]] = l[pl[k]]
    PROVE  Packets(w, s, u, m, pl)
<1>1. Len(pl) \in Nat /\ (pl # <<>> => Len(pl) \in 1..Len(pl))
  BY EmptySeq
<1>2. \A k \in 1..Len(pl) : Lies(w, s, u, m, pl, k)
  BY DEF Packets, Lies
<1>3. Chained(w, s, u, m, pl)
  <2>1. \A k \in 1..Len(pl) - 1 : k \in 1..Len(pl)
    BY <1>1
  <2>2. QED BY <1>1, <2>1 DEF Packets, Chained
<1>4. Ordered(w, s, m, pl)
  BY DEF Packets, Ordered
<1>5. QED BY <1>2, <1>3, <1>4 DEF Packets

\* One more at the end of a sequence.
LEMMA OneMore ==
    ASSUME NEW pl \in Seq(Nat), NEW p \in Nat
    PROVE  /\ Len(pl) \in Nat /\ Append(pl, p) \in Seq(Nat) /\ Len(Append(pl, p)) = Len(pl) + 1
           /\ Append(pl, p) # <<>> /\ Append(pl, p)[Len(pl) + 1] = p
           /\ \A k \in 1..Len(pl) : Append(pl, p)[k] = pl[k]
<1>1. /\ Append(pl, p) \in Seq(Nat) /\ Len(Append(pl, p)) = Len(pl) + 1
      /\ Append(pl, p)[Len(pl) + 1] = p
      /\ \A k \in 1..Len(pl) : Append(pl, p)[k] = pl[k]
  BY AppendProperties
<1>2. Len(pl) \in Nat
  BY LenProperties
<1> DEFINE a == Append(pl, p)
<1>3. a # <<>>
  <2>1. Len(a) # 0
    BY <1>1, <1>2
  <2> HIDE DEF a
  <2>2. QED BY <2>1, EmptySeq
<1>4. QED BY <1>1, <1>2, <1>3

LEMMA PacketsSubmitted ==
    ASSUME NEW w, NEW s, NEW u, RingOK(w, s, u), Roomy(w, s, u),
           NEW l, NEW pl \in Seq(Nat), Packets(w, s, u, l, pl),
           NEW n \in 0..input_mtu, NEW b, b = bdivide_up(n),
           NEW m, m[end(w, s, u)] = n, \A k \in 1..Len(pl) : m[pl[k]] = l[pl[k]],
           NEW v, v = Longer_wrap(w, s, u, b)
    PROVE  Packets(v, s, u + 1 + b, m, Append(pl, end(w, s, u)))
<1> DEFINE at == end(w, s, u)
           ql == Append(pl, at)
           N == Len(pl)
           z == u + 1 + b
<1>1. /\ mtu \in Nat /\ size \in Nat /\ b \in Nat /\ b <= mtu
      /\ w \in Nat /\ s \in Nat /\ u \in Nat /\ s < w /\ u <= w /\ w <= size
  BY BlocksOf, Packed, OffIs
<1>2. /\ at \in Nat /\ at < w /\ at + mtu + 1 <= size
  BY TheEnd
<1>3. /\ N \in Nat /\ ql \in Seq(Nat) /\ Len(ql) = N + 1 /\ ql # <<>> /\ ql[N + 1] = at
      /\ \A k \in 1..N : ql[k] = pl[k]
  BY <1>2, OneMore
<1>4. at + 1 + b <= v /\ Off(v, s, at) = u /\ Stays(w, v, s, u)
  BY <1>1, Submitted
<1>5. b = bdivide_up(m[at])
  OBVIOUS
<1> HIDE DEF at, ql, N, z
<1>6. Data_(m, ql, N + 1) = b
  BY <1>3, <1>5 DEF Data_
<1>7. ASSUME NEW k \in 1..N
      PROVE  /\ ql[k] = pl[k] /\ Data_(m, ql, k) = Data_(l, pl, k)
             /\ pl[k] \in Nat /\ pl[k] + mtu + 1 <= size /\ Data_(l, pl, k) \in Nat
             /\ Off(w, s, pl[k]) \in Nat /\ Off(w, s, pl[k]) + 1 + Data_(l, pl, k) <= u
             /\ Off(v, s, pl[k]) = Off(w, s, pl[k])
             /\ pl[k] + 1 + Data_(l, pl, k) <= v
             /\ (pl[k] + 1 + Data_(l, pl, k) = v <=> pl[k] + 1 + Data_(l, pl, k) = w)
             /\ u - Off(w, s, pl[k]) <= Most(N - k + 1)
  <2>1. ql[k] = pl[k] /\ Data_(m, ql, k) = Data_(l, pl, k)
    BY <1>3 DEF Data_, N
  <2>2. /\ pl[k] \in Nat /\ pl[k] + mtu + 1 <= size /\ Data_(l, pl, k) \in Nat
        /\ pl[k] + 1 + Data_(l, pl, k) <= w
        /\ Off(w, s, pl[k]) + 1 + Data_(l, pl, k) <= u
        /\ u - Off(w, s, pl[k]) <= Most(N - k + 1)
    BY LiesThere DEF N
  <2>3. Off(w, s, pl[k]) \in Nat
    BY <2>2, OffIs
  <2>4. /\ Off(v, s, pl[k]) = Off(w, s, pl[k]) /\ pl[k] + 1 + Data_(l, pl, k) <= v
        /\ (pl[k] + 1 + Data_(l, pl, k) = v <=> pl[k] + 1 + Data_(l, pl, k) = w)
    BY <1>4, <2>2 DEF Stays
  <2>5. QED BY <2>1, <2>2, <2>3, <2>4
<1>8. ASSUME NEW k \in 1..Len(ql) PROVE Lies(v, s, z, m, ql, k)
  <2>1. CASE k \in 1..N
    <3>1. /\ ql[k] = pl[k] /\ Data_(m, ql, k) = Data_(l, pl, k)
          /\ pl[k] \in Nat /\ pl[k] + mtu + 1 <= size /\ Data_(l, pl, k) \in Nat
          /\ Off(w, s, pl[k]) \in Nat /\ Off(w, s, pl[k]) + 1 + Data_(l, pl, k) <= u
          /\ Off(v, s, pl[k]) = Off(w, s, pl[k])
          /\ pl[k] + 1 + Data_(l, pl, k) <= v
          /\ u - Off(w, s, pl[k]) <= Most(N - k + 1)
      BY <1>7, <2>1
    <3>a. N \in Nat /\ Len(ql) = N + 1 /\ k \in Int /\ k <= N
      BY <1>3, <2>1
    <3>2. N - k + 1 \in Nat /\ Len(ql) - k + 1 = (N - k + 1) + 1
      BY <3>a
    <3>3. Most(N - k + 1) \in Nat /\ Most(Len(ql) - k + 1) = Most(N - k + 1) + 1 + mtu
      <4> DEFINE i == N - k + 1
      <4> HIDE DEF i
      <4>1. Most(i) \in Nat /\ Most(i + 1) = Most(i) + 1 + mtu
        BY <3>2, Packed DEF i
      <4>2. QED BY <3>2, <4>1 DEF i
    <3>4. /\ Off(v, s, pl[k]) + 1 + Data_(l, pl, k) <= u + 1 + b
          /\ (u + 1 + b) - Off(v, s, pl[k]) <= Most(Len(ql) - k + 1)
      <4> DEFINE o == Off(v, s, pl[k])
                 c == Data_(l, pl, k)
                 M == Most(N - k + 1)
                 K == Most(Len(ql) - k + 1)
      <4>1. /\ u \in Nat /\ b \in Nat /\ mtu \in Nat /\ b <= mtu
            /\ o \in Nat /\ c \in Nat /\ o + 1 + c <= u
            /\ M \in Nat /\ u - o <= M /\ K = M + 1 + mtu
        BY <1>1, <3>1, <3>3
      <4> HIDE DEF o, c, M, K
      <4>2. o + 1 + c <= u + 1 + b /\ (u + 1 + b) - o <= K
        BY <4>1, StillIn
      <4>3. QED BY <4>2 DEF o, c, K
    <3>5. QED BY <3>1, <3>4, LiesHere DEF z
  <2>2. CASE k = N + 1
    <3>1. Len(ql) - k + 1 = 0 + 1
      BY <1>3, <2>2
    <3>2. Most(Len(ql) - k + 1) = 1 + mtu
      <4>1. Most(0 + 1) = Most(0) + 1 + mtu /\ Most(0) = 0
        BY Packed
      <4>2. QED BY <1>1, <3>1, <4>1
    <3>3. z - u <= Most(Len(ql) - k + 1) /\ u + 1 + b <= z
      BY <1>1, <3>2 DEF z
    <3>4. ql[k] = at /\ Data_(m, ql, k) = b
      BY <1>3, <1>6, <2>2
    <3>5. QED BY <1>1, <1>2, <1>4, <3>3, <3>4, LiesHere
  <2>3. QED BY <1>3, <2>1, <2>2
<1>9. Chained(v, s, z, m, ql)
  <2>1. ql[1] = s
    <3>1. CASE N = 0
      <4>1. pl = <<>> /\ u = 0 /\ ql[1] = at
        BY <1>3, <3>1 DEF N, Packets, Chained
      <4>2. at = s + u
        BY <1>1, <4>1, TheEnd DEF at
      <4>3. QED BY <1>1, <4>1, <4>2
    <3>2. CASE N # 0
      <4>1. 1 \in 1..N /\ pl # <<>>
        BY <1>3, <3>2 DEF N
      <4>2. QED BY <1>3, <4>1 DEF Packets, Chained
    <3>3. QED BY <3>1, <3>2
  <2>2. Off(v, s, ql[Len(ql)]) + 1 + bdivide_up(m[ql[Len(ql)]]) = z
    BY <1>3, <1>4, <1>5 DEF z
  <2>3. ASSUME NEW k \in 1..Len(ql) - 1
        PROVE  ql[k + 1] = IF ql[k] + 1 + Data_(m, ql, k) = v THEN 0
                                                             ELSE ql[k] + 1 + Data_(m, ql, k)
    <3>1. k \in 1..N
      BY <1>3
    <3>2. /\ ql[k] = pl[k] /\ Data_(m, ql, k) = Data_(l, pl, k)
          /\ (pl[k] + 1 + Data_(l, pl, k) = v <=> pl[k] + 1 + Data_(l, pl, k) = w)
      BY <1>7, <3>1
    <3>3. ql[k + 1] = IF pl[k] + 1 + Data_(l, pl, k) = w THEN 0
                                                        ELSE pl[k] + 1 + Data_(l, pl, k)
      <4>1. CASE k = N
        <5>1. pl # <<>> /\ ql[k + 1] = at
          BY <1>3, <4>1, <3>1 DEF N
        <5>2. Off(w, s, pl[k]) + 1 + Data_(l, pl, k) = u
          BY <4>1, <5>1 DEF Packets, Chained, Data_, N
        <5>3. /\ pl[k] \in Nat /\ Data_(l, pl, k) \in Nat /\ pl[k] + 1 + Data_(l, pl, k) <= w
          BY <3>1, LiesThere DEF N
        <5>4. QED BY <5>1, <5>2, <5>3, Follows DEF at
      <4>2. CASE k # N
        <5>1. k \in 1..Len(pl) - 1 /\ k + 1 \in 1..N
          BY <1>3, <3>1, <4>2 DEF N
        <5>2. ql[k + 1] = pl[k + 1]
          BY <1>3, <5>1
        <5>3. QED BY <5>1, <5>2 DEF Packets, Chained, Data_
      <4>3. QED BY <4>1, <4>2
    <3>4. QED BY <3>2, <3>3
  <2>4. QED BY <1>3, <2>1, <2>2, <2>3 DEF Chained, Data_
<1>10. ASSUME NEW j \in 1..Len(ql), NEW k \in 1..Len(ql), j < k
       PROVE  Off(v, s, ql[j]) + 1 + Data_(m, ql, j) <= Off(v, s, ql[k])
  <2>1. j \in 1..N
    BY <1>3, <1>10
  <2>2. /\ ql[j] = pl[j] /\ Data_(m, ql, j) = Data_(l, pl, j)
        /\ Off(w, s, pl[j]) + 1 + Data_(l, pl, j) <= u
        /\ Off(v, s, pl[j]) = Off(w, s, pl[j])
    BY <1>7, <2>1
  <2>3. CASE k \in 1..N
    <3>1. ql[k] = pl[k] /\ Off(v, s, pl[k]) = Off(w, s, pl[k])
      BY <1>7, <2>3
    <3>2. Off(w, s, pl[j]) + 1 + Data_(l, pl, j) <= Off(w, s, pl[k])
      BY <1>10, <2>1, <2>3 DEF Packets, Ordered, Data_, N
    <3>3. QED BY <2>2, <3>1, <3>2
  <2>4. CASE k = N + 1
    BY <1>3, <1>4, <2>2, <2>4
  <2>5. QED BY <1>3, <2>3, <2>4
<1>11. Ordered(v, s, m, ql)
  BY <1>10 DEF Ordered, Data_
<1>12. QED BY <1>8, <1>9, <1>11 DEF Packets, ql, at, z

\* The first of the packets, n blocks of them.
LEMMA TheFirst ==
    ASSUME NEW w, NEW s, NEW u, RingOK(w, s, u), NEW l, NEW pl \in Seq(Nat),
           Packets(w, s, u, l, pl), pl # <<>>, NEW n, n = 1 + bdivide_up(l[s])
    PROVE  /\ pl[1] = s /\ n = 1 + Data_(l, pl, 1) /\ n \in Nat /\ n > 0 /\ s + n <= w /\ n <= u
           /\ s + n < w => s + n + mtu + 1 <= size
<1>1. Len(pl) \in Nat /\ 1 \in 1..Len(pl) /\ Len(pl) \in 1..Len(pl)
  BY EmptySeq
<1>2. /\ mtu \in Nat /\ size \in Nat
      /\ w \in Nat /\ s \in Nat /\ u \in Nat /\ s < w /\ u <= w /\ w <= size
  BY Packed, OffIs
<1>3. pl[1] = s /\ n = 1 + Data_(l, pl, 1)
  BY DEF Packets, Chained, Data_
<1>4. /\ Data_(l, pl, 1) \in Nat /\ s + 1 + Data_(l, pl, 1) <= w
      /\ Off(w, s, s) + 1 + Data_(l, pl, 1) <= u /\ Off(w, s, s) = 0
  BY <1>1, <1>2, <1>3, LiesThere, OffIs
<1>5. n \in Nat /\ n > 0 /\ s + n <= w /\ n <= u
  BY <1>2, <1>3, <1>4
<1>6. ASSUME s + n < w PROVE s + n + mtu + 1 <= size
  <2>1. CASE Len(pl) = 1
    <3>1. u = n
      BY <1>3, <1>4, <2>1 DEF Packets, Chained, Data_
    <3>2. QED BY <1>2, <1>6, <3>1 DEF RingOK
  <2>2. CASE Len(pl) # 1
    <3> DEFINE N == Len(pl)
    <3>a. N \in Nat /\ 1 \in 1..N /\ N # 1
      BY <1>1, <2>2
    <3> HIDE DEF N
    <3>b. N >= 2
      BY <3>a
    <3>0. Len(pl) >= 2
      BY <3>b DEF N
    <3>1. 1 \in 1..Len(pl) - 1 /\ 2 \in 1..Len(pl) /\ 1 + 1 = 2
      BY <1>1, <3>0
    <3>2. pl[1 + 1] = IF pl[1] + 1 + bdivide_up(l[pl[1]]) = w THEN 0
                                                            ELSE pl[1] + 1 + bdivide_up(l[pl[1]])
      BY <3>1 DEF Packets, Chained
    <3>3. pl[2] = s + n
      BY <1>2, <1>3, <1>4, <1>6, <3>1, <3>2 DEF Data_
    <3>4. pl[2] + mtu + 1 <= size
      BY <3>1, LiesThere
    <3>5. QED BY <3>3, <3>4
  <2>3. QED BY <2>1, <2>2
<1>7. QED BY <1>3, <1>5, <1>6

\* What is left of a sequence that is not empty.
LEMMA TheRest ==
    ASSUME NEW pl \in Seq(Nat), pl # <<>>
    PROVE  /\ Tail(pl) \in Seq(Nat) /\ Len(pl) \in Nat /\ Len(pl) > 0
           /\ Len(Tail(pl)) = Len(pl) - 1
           /\ \A k \in 1..Len(pl) - 1 : Tail(pl)[k] = pl[k + 1]
           /\ Tail(pl) = <<>> <=> Len(pl) = 1
<1>1. /\ Tail(pl) \in Seq(Nat) /\ Len(Tail(pl)) = Len(pl) - 1
      /\ \A k \in 1..Len(Tail(pl)) : Tail(pl)[k] = pl[k + 1]
  BY HeadTailProperties
<1>2. Len(pl) \in Nat /\ Len(pl) > 0
  BY EmptySeq
<1>3. Tail(pl) = <<>> <=> Len(Tail(pl)) = 0
  BY <1>1, EmptySeq
<1> DEFINE N == Len(pl)
<1> HIDE DEF N
<1>4. N - 1 = 0 <=> N = 1
  BY <1>2 DEF N
<1>5. QED BY <1>1, <1>2, <1>3, <1>4 DEF N

LEMMA PacketsConsumed ==
    ASSUME NEW w, NEW s, NEW u, RingOK(w, s, u), NEW l, NEW pl \in Seq(Nat),
           Packets(w, s, u, l, pl), pl # <<>>, NEW n, n = 1 + bdivide_up(l[s]),
           NEW t, t = IF s + n = w THEN 0 ELSE s + n,
           NEW v, v = IF s + n = w THEN size ELSE w
    PROVE  Packets(v, t, u - n, l, Tail(pl))
<1> DEFINE ql == Tail(pl)
           N == Len(pl)
           z == u - n
<1>1. /\ mtu \in Nat /\ size \in Nat
      /\ w \in Nat /\ s \in Nat /\ u \in Nat /\ s < w /\ u <= w /\ w <= size
      /\ Off(w, s, s) = 0
  BY Packed, OffIs
<1>2. /\ pl[1] = s /\ n = 1 + Data_(l, pl, 1) /\ n \in Nat /\ n > 0 /\ s + n <= w /\ n <= u
      /\ s + n < w => s + n + mtu + 1 <= size
  BY TheFirst
<1>3. MovesUp(w, s, v, t, n) /\ StaysToo(w, s, u, v, n)
  BY <1>2, Consumed
<1>4. /\ ql \in Seq(Nat) /\ N \in Nat /\ N > 0 /\ Len(ql) = N - 1
      /\ \A k \in 1..N - 1 : ql[k] = pl[k + 1]
      /\ ql = <<>> <=> N = 1
  BY TheRest
<1>5. /\ \A k \in 1..N : Lies(w, s, u, l, pl, k)
      /\ Chained(w, s, u, l, pl) /\ Ordered(w, s, l, pl)
  BY DEF Packets
<1>6. \A k \in 1..N :
        /\ pl[k] \in Nat /\ pl[k] + mtu + 1 <= size /\ Data_(l, pl, k) \in Nat
        /\ pl[k] + 1 + Data_(l, pl, k) <= w
        /\ Off(w, s, pl[k]) + 1 + Data_(l, pl, k) <= u
        /\ u - Off(w, s, pl[k]) <= Most(N - k + 1)
  BY LiesThere
<1>7. \A j, k \in 1..N : j < k =>
        Off(w, s, pl[j]) + 1 + Data_(l, pl, j) <= Off(w, s, pl[k])
  BY <1>5 DEF Ordered, Data_
<1>8. pl # <<>> /\ (pl # <<>> =>
        pl[1] = s /\ Off(w, s, pl[N]) + 1 + Data_(l, pl, N) = u)
  BY <1>5 DEF Chained, Data_
<1>9. \A k \in 1..N - 1 :
        pl[k + 1] = IF pl[k] + 1 + Data_(l, pl, k) = w THEN 0 ELSE pl[k] + 1 + Data_(l, pl, k)
  BY <1>5 DEF Chained, Data_
<1> HIDE DEF ql, N, z
<1>10. \A k \in 1..N - 1 : k + 1 \in 1..N /\ k \in Int /\ k \in 1..N
  BY <1>4
<1>11. ASSUME NEW k \in 1..N - 1
       PROVE  /\ ql[k] = pl[k + 1] /\ Data_(l, ql, k) = Data_(l, pl, k + 1)
              /\ ql[k] \in Nat /\ ql[k] + mtu + 1 <= size /\ Data_(l, ql, k) \in Nat
              /\ Off(w, s, ql[k]) >= n /\ Off(w, s, ql[k]) \in Nat
              /\ Off(w, s, ql[k]) + 1 + Data_(l, ql, k) <= u
              /\ Off(v, t, ql[k]) = Off(w, s, ql[k]) - n
              /\ ql[k] + 1 + Data_(l, ql, k) <= v
              /\ (ql[k] + 1 + Data_(l, ql, k) = v <=> ql[k] + 1 + Data_(l, ql, k) = w)
              /\ u - Off(w, s, ql[k]) <= Most(N - (k + 1) + 1)
  <2> DEFINE i == k + 1
  <2>1. i \in 1..N /\ 1 \in 1..N /\ 1 < i
    BY <1>4, <1>10
  <2>2. ql[k] = pl[i] /\ Data_(l, ql, k) = Data_(l, pl, i)
    BY <1>4 DEF Data_
  <2> HIDE DEF i
  <2>3. /\ pl[i] \in Nat /\ pl[i] + mtu + 1 <= size /\ Data_(l, pl, i) \in Nat
        /\ pl[i] + 1 + Data_(l, pl, i) <= w
        /\ Off(w, s, pl[i]) + 1 + Data_(l, pl, i) <= u
        /\ u - Off(w, s, pl[i]) <= Most(N - i + 1)
    BY <1>6, <2>1
  <2>4. Off(w, s, pl[i]) >= n /\ Off(w, s, pl[i]) \in Nat
    <3>1. Off(w, s, pl[1]) + 1 + Data_(l, pl, 1) <= Off(w, s, pl[i])
      BY <1>7, <2>1
    <3>2. Off(w, s, pl[i]) \in Nat
      BY <2>3, OffIs
    <3>3. Data_(l, pl, 1) \in Nat
      BY <1>6, <2>1
    <3>4. Off(w, s, pl[1]) = 0 /\ n = 1 + Data_(l, pl, 1)
      BY <1>1, <1>2
    <3>5. QED BY <3>1, <3>2, <3>3, <3>4
  <2>5. Off(v, t, pl[i]) = Off(w, s, pl[i]) - n
    <3> DEFINE p == pl[i]
               c == Data_(l, pl, i)
    <3>0. p \in Nat /\ c \in Nat /\ p + 1 + c <= w /\ w \in Nat
      BY <1>1, <2>3
    <3> HIDE DEF p, c
    <3>a. p < w
      BY <3>0
    <3>1. pl[i] < w
      BY <3>a DEF p
    <3>2. QED BY <1>3, <2>3, <2>4, <3>1 DEF MovesUp
  <2>6. /\ pl[i] + 1 + Data_(l, pl, i) <= v
        /\ (pl[i] + 1 + Data_(l, pl, i) = v <=> pl[i] + 1 + Data_(l, pl, i) = w)
    BY <1>3, <2>3, <2>4 DEF StaysToo
  <2>7. QED BY <2>2, <2>3, <2>4, <2>5, <2>6 DEF i
<1>12. ASSUME NEW k \in 1..Len(ql) PROVE Lies(v, t, z, l, ql, k)
  <2>1. k \in 1..N - 1
    BY <1>4
  <2>2. /\ ql[k] \in Nat /\ ql[k] + mtu + 1 <= size /\ Data_(l, ql, k) \in Nat
        /\ Off(w, s, ql[k]) >= n /\ Off(w, s, ql[k]) \in Nat
        /\ Off(w, s, ql[k]) + 1 + Data_(l, ql, k) <= u
        /\ Off(v, t, ql[k]) = Off(w, s, ql[k]) - n
        /\ ql[k] + 1 + Data_(l, ql, k) <= v
        /\ u - Off(w, s, ql[k]) <= Most(N - (k + 1) + 1)
    BY <1>11, <2>1
  <2>3. N - (k + 1) + 1 = Len(ql) - k + 1 /\ Len(ql) - k + 1 \in Nat
    BY <1>4, <2>1
  <2>4. /\ (u - n) - Off(v, t, ql[k]) = u - Off(w, s, ql[k])
        /\ Off(v, t, ql[k]) + 1 + Data_(l, ql, k) <= u - n
    <3> DEFINE x == Off(v, t, ql[k])
               o == Off(w, s, ql[k])
               c == Data_(l, ql, k)
    <3>1. /\ u \in Nat /\ n \in Nat /\ n <= u /\ o \in Nat /\ c \in Nat /\ o >= n
          /\ x = o - n /\ o + 1 + c <= u
      BY <1>1, <1>2, <2>2
    <3> HIDE DEF x, o, c
    <3>2. (u - n) - x = u - o /\ x + 1 + c <= u - n
      BY <3>1, SMTT(20)
    <3>3. QED BY <3>2 DEF x, o, c
  <2>5. z - Off(v, t, ql[k]) <= Most(Len(ql) - k + 1)
    BY <2>2, <2>3, <2>4 DEF z
  <2>6. QED BY <2>2, <2>4, <2>5, LiesHere DEF z
<1>13. Chained(v, t, z, l, ql)
  <2>1. ASSUME ql = <<>> PROVE z = 0
    <3>1. N = 1
      BY <1>4, <2>1
    <3>2. Off(w, s, pl[1]) + 1 + Data_(l, pl, 1) = u /\ Data_(l, pl, 1) \in Nat
      BY <1>6, <1>8, <3>1
    <3>3. QED BY <1>1, <1>2, <3>2 DEF z
  <2>2. ASSUME ql # <<>>
        PROVE  ql[1] = t /\ Off(v, t, ql[Len(ql)]) + 1 + Data_(l, ql, Len(ql)) = z
    <3>1. N > 1 /\ 1 \in 1..N - 1 /\ N - 1 \in 1..N - 1 /\ (N - 1) + 1 = N
      BY <1>4, <2>2
    <3>2. pl[1 + 1] = IF pl[1] + 1 + Data_(l, pl, 1) = w THEN 0
                                                        ELSE pl[1] + 1 + Data_(l, pl, 1)
      BY <1>9, <3>1
    <3>3. Data_(l, pl, 1) \in Nat
      BY <1>4, <1>6
    <3>4. s + n = pl[1] + 1 + Data_(l, pl, 1)
      BY <1>1, <1>2, <3>3
    <3>5. ql[1] = t
      BY <1>4, <3>1, <3>2, <3>4
    <3> DEFINE i == N - 1
    <3>6. /\ ql[i] = pl[i + 1] /\ Data_(l, ql, i) = Data_(l, pl, i + 1) /\ i + 1 = N /\ i = Len(ql)
          /\ Off(w, s, ql[i]) \in Nat /\ Data_(l, ql, i) \in Nat /\ Off(w, s, ql[i]) >= n
          /\ Off(v, t, ql[i]) = Off(w, s, ql[i]) - n
      BY <1>4, <1>11, <3>1
    <3> HIDE DEF i
    <3>7. Off(w, s, ql[i]) + 1 + Data_(l, ql, i) = u
      BY <1>8, <3>6
    <3>8. Off(v, t, ql[i]) + 1 + Data_(l, ql, i) = z
      <4> DEFINE x == Off(v, t, ql[i])
                 o == Off(w, s, ql[i])
                 c == Data_(l, ql, i)
      <4>1. /\ u \in Nat /\ n \in Nat /\ n <= u /\ o \in Nat /\ c \in Nat /\ o >= n
            /\ x = o - n /\ o + 1 + c = u
        BY <1>1, <1>2, <3>6, <3>7
      <4> HIDE DEF x, o, c
      <4>2. x + 1 + c = u - n
        BY <4>1, SMTT(20)
      <4>3. QED BY <4>2 DEF x, c, z
    <3>9. QED BY <3>5, <3>6, <3>8
  <2>3. ASSUME NEW k \in 1..Len(ql) - 1
        PROVE  ql[k + 1] = IF ql[k] + 1 + Data_(l, ql, k) = v THEN 0
                                                             ELSE ql[k] + 1 + Data_(l, ql, k)
    <3>1. k \in 1..N - 1 /\ k + 1 \in 1..N - 1
      BY <1>4
    <3> DEFINE i == k + 1
    <3>2. ql[i] = pl[i + 1] /\ i \in 1..N - 1
      BY <1>11, <3>1
    <3>3. ql[k] = pl[i] /\ Data_(l, ql, k) = Data_(l, pl, i)
      BY <1>11, <3>1
    <3>4. (ql[k] + 1 + Data_(l, ql, k) = v <=> ql[k] + 1 + Data_(l, ql, k) = w)
      BY <1>11, <3>1
    <3> HIDE DEF i
    <3>5. pl[i + 1] = IF pl[i] + 1 + Data_(l, pl, i) = w THEN 0 ELSE pl[i] + 1 + Data_(l, pl, i)
      BY <1>9, <3>2
    <3>6. ql[i] = IF ql[k] + 1 + Data_(l, ql, k) = v THEN 0 ELSE ql[k] + 1 + Data_(l, ql, k)
      BY <3>2, <3>3, <3>4, <3>5
    <3>7. QED BY <3>6 DEF i
  <2>4. QED BY <2>1, <2>2, <2>3 DEF Chained, Data_
<1>14. ASSUME NEW j \in 1..Len(ql), NEW k \in 1..Len(ql), j < k
       PROVE  Off(v, t, ql[j]) + 1 + Data_(l, ql, j) <= Off(v, t, ql[k])
  <2>1. j \in 1..N - 1 /\ k \in 1..N - 1
    BY <1>4
  <2>2. /\ ql[j] = pl[j + 1] /\ Data_(l, ql, j) = Data_(l, pl, j + 1)
        /\ Off(v, t, ql[j]) = Off(w, s, ql[j]) - n
        /\ Off(w, s, ql[j]) \in Nat /\ Data_(l, ql, j) \in Nat /\ n \in Nat
    BY <1>2, <1>11, <2>1
  <2>3. /\ ql[k] = pl[k + 1] /\ Off(v, t, ql[k]) = Off(w, s, ql[k]) - n
        /\ Off(w, s, ql[k]) \in Nat
    BY <1>11, <2>1
  <2> DEFINE i == j + 1
             h == k + 1
  <2>4. i \in 1..N /\ h \in 1..N /\ i < h
    BY <1>4, <1>14, <2>1
  <2> HIDE DEF i, h
  <2>5. Off(w, s, pl[i]) + 1 + Data_(l, pl, i) <= Off(w, s, pl[h])
    BY <1>7, <2>4
  <2>6. Off(w, s, ql[j]) + 1 + Data_(l, ql, j) <= Off(w, s, ql[k])
    BY <2>2, <2>3, <2>5 DEF i, h
  <2> DEFINE x == Off(w, s, ql[j])
             y == Off(w, s, ql[k])
             c == Data_(l, ql, j)
  <2>7. x \in Nat /\ y \in Nat /\ c \in Nat /\ n \in Nat /\ x + 1 + c <= y
    BY <2>2, <2>3, <2>6
  <2> HIDE DEF x, y, c
  <2>8. (x - n) + 1 + c <= y - n
    BY <2>7
  <2>9. QED BY <2>2, <2>3, <2>8 DEF x, y, c
<1>15. Ordered(v, t, l, ql)
  BY <1>14 DEF Ordered, Data_
<1>16. QED BY <1>12, <1>13, <1>15 DEF Packets, ql, z

-----------------------------------------------------------------------------
(* The actions *)

LEMMA InRange ==
    ASSUME NEW w, NEW s, NEW u, RingOK(w, s, u)
    PROVE  /\ w \in 1..size /\ s \in 0..w - 1 /\ u \in 0..w /\ (w = size \/ u >= w - s)
           /\ s \in Blocks /\ s + 1 \in Blocks
           /\ end(w, s, u) \in Blocks /\ end(w, s, u) + 1 \in Blocks
<1>1. mtu \in Nat /\ mtu > 0 /\ size \in Nat
  BY Packed
<1>2. end(w, s, u) \in Nat /\ end(w, s, u) + mtu + 1 <= size
  BY TheEnd
<1>3. QED BY <1>1, <1>2 DEF RingOK, Blocks

\* What the input is told, d and a, says whether there is room for the largest packet.
LEMMA ToldIs ==
    ASSUME NEW w, NEW s, NEW u, RingOK(w, s, u),
           NEW d, d = IF HasInput(w, s, u) THEN end(w, s, u) + 1 ELSE -1,
           NEW a, a = IF HasInput(w, s, u) THEN (free(w, s, u) - 1) * block ELSE -1
    PROVE  /\ a \in Int
           /\ a >= input_mtu <=> Roomy(w, s, u)
           /\ Roomy(w, s, u) => d = end(w, s, u) + 1 /\ d # -1
<1>1. end(w, s, u) \in Nat /\ free(w, s, u) - 1 \in Int
  BY TheEnd
<1> DEFINE m == free(w, s, u) - 1
<1> HIDE DEF m
<1>2. m * block \in Int
  BY <1>1, RoomInBlocks DEF m
<1>3. a \in Int
  BY <1>2 DEF m
<1>4. a >= input_mtu <=> Roomy(w, s, u)
  BY RoomIs
<1>5. Roomy(w, s, u) => d = end(w, s, u) + 1
  BY DEF Roomy
<1>6. QED BY <1>1, <1>3, <1>4, <1>5

LEMMA AskedIs ==
    ASSUME RingOK(wrap, start, used), RememberedIsCurrent
    PROVE  /\ input_avail \in Int
           /\ input_avail >= input_mtu <=> Roomy(wrap, start, used)
           /\ Roomy(wrap, start, used) => input_dest = end(wrap, start, used) + 1
                                          /\ input_dest # -1
BY ToldIs DEF RememberedIsCurrent

\* What is lent is apart from every packet, and so is the place for the length before it.
LEMMA Unharmed ==
    ASSUME RingInv, Roomy(wrap, start, used), NEW k \in 1..Len(places),
           NEW i \in places[k]..places[k] + Data_(len, places, k)
    PROVE  /\ i \in Blocks /\ places[k] \in Nat /\ Data_(len, places, k) \in Nat
           /\ i < end(wrap, start, used) \/ i > end(wrap, start, used) + mtu
<1>1. RingOK(wrap, start, used) /\ Packets(wrap, start, used, len, places)
  BY DEF RingInv
<1>2. /\ places[k] \in Nat /\ Data_(len, places, k) \in Nat
      /\ places[k] + 1 + Data_(len, places, k) <= wrap
      /\ Off(wrap, start, places[k]) + 1 + Data_(len, places, k) <= used
  BY <1>1, LiesThere
<1> DEFINE p == places[k]
           b == Data_(len, places, k)
<1>3. /\ p \in Nat /\ b \in Nat /\ p + 1 + b <= wrap /\ Off(wrap, start, p) + 1 + b <= used
      /\ i \in p..p + b
  BY <1>2
<1> HIDE DEF p, b
<1>4. i \in Nat /\ i < wrap /\ Off(wrap, start, i) < used
  BY <1>1, <1>3, Piece
<1>5. i < end(wrap, start, used) \/ i > end(wrap, start, used) + mtu
  BY <1>1, <1>4, Apart
<1>6. i \in Blocks
  <2>1. wrap \in Nat /\ wrap <= size /\ size \in Nat
    BY <1>1, OffIs, Packed
  <2>2. QED BY <1>4, <2>1 DEF Blocks
<1>7. QED BY <1>2, <1>5, <1>6

LEMMA FirstAtStart ==
    ASSUME RingInv
    PROVE  /\ places \in Seq(Nat) /\ places \in Seq(Blocks)
           /\ used > 0 => places # <<>>
           /\ places # <<>> => 1 \in 1..Len(places) /\ places[1] = start /\ used > 0
<1>1. RingOK(wrap, start, used) /\ Packets(wrap, start, used, len, places)
  BY DEF RingInv
<1>2. places \in Seq(Blocks) /\ places \in Seq(Nat)
  <2>1. places \in Seq(Blocks) /\ Blocks \subseteq Nat
    BY DEF RingInv, BufferTypeOK, Blocks
  <2>2. QED BY <2>1, SeqMonotonic
<1>3. used > 0 => places # <<>>
  BY <1>1 DEF Packets, Chained
<1>4. ASSUME places # <<>> PROVE 1 \in 1..Len(places) /\ places[1] = start /\ used > 0
  <2>1. 1 \in 1..Len(places)
    BY <1>2, <1>4, EmptySeq
  <2>2. 1 + bdivide_up(len[start]) = 1 + bdivide_up(len[start])
    OBVIOUS
  <2> DEFINE n == 1 + bdivide_up(len[start])
  <2>3. n = 1 + bdivide_up(len[start])
    OBVIOUS
  <2> HIDE DEF n
  <2>4. places[1] = start /\ n \in Nat /\ n > 0 /\ n <= used
    BY <1>1, <1>2, <1>4, <2>3, TheFirst
  <2>5. used \in Nat
    BY <1>1 DEF RingOK
  <2>6. QED BY <2>1, <2>4, <2>5
<1>5. QED BY <1>2, <1>3, <1>4

\* The input writes to what it was lent: no packet changes.
LEMMA WritesApart ==
    ASSUME RingInv, NEW d \in Data, InputWrites(d)
    PROVE  /\ \A k \in 1..Len(places) :
                 len'[places[k]] = len[places[k]] /\ data'[places[k]] = data[places[k]]
           /\ \A k \in 1..Len(places) :
                 \A i \in places[k] + 1..places[k] + Data_(len, places, k) : data'[i] = data[i]
           /\ len' \in [Blocks -> 0..input_mtu] /\ data' \in [Blocks -> Data \cup {NoData}]
<1>1. lent # -1 /\ lent = input_dest /\ input_avail >= input_mtu
  BY DEF InputWrites, RingInv, LoansStayValid
<1>2. RingOK(wrap, start, used) /\ RememberedIsCurrent
  BY DEF RingInv
<1>3. Roomy(wrap, start, used) /\ lent = end(wrap, start, used) + 1
  BY <1>1, <1>2, AskedIs
<1>4. end(wrap, start, used) \in Nat /\ mtu \in Nat
  BY <1>2, TheEnd, Packed
<1>5. /\ data' = [i \in Blocks |-> IF i \in lent..lent + mtu - 1 THEN d ELSE data[i]]
      /\ len'  = [i \in Blocks |-> IF i \in lent..lent + mtu - 1 THEN 0 ELSE len[i]]
  BY DEF InputWrites
<1>6. ASSUME NEW k \in 1..Len(places), NEW i \in places[k]..places[k] + Data_(len, places, k)
      PROVE  len'[i] = len[i] /\ data'[i] = data[i]
  <2>1. i \in Blocks /\ (i < end(wrap, start, used) \/ i > end(wrap, start, used) + mtu)
    BY <1>3, Unharmed
  <2>2. i \notin lent..lent + mtu - 1
    BY <1>3, <1>4, <2>1 DEF Blocks
  <2>3. QED BY <1>5, <2>1, <2>2
<1>7. ASSUME NEW k \in 1..Len(places)
      PROVE  places[k] \in Nat /\ Data_(len, places, k) \in Nat
  BY <1>2, LiesThere DEF RingInv
<1>8. ASSUME NEW k \in 1..Len(places)
      PROVE  len'[places[k]] = len[places[k]] /\ data'[places[k]] = data[places[k]]
  <2>1. places[k] \in places[k]..places[k] + Data_(len, places, k)
    BY <1>7
  <2>2. QED BY <1>6, <2>1
<1>9. ASSUME NEW k \in 1..Len(places),
             NEW i \in places[k] + 1..places[k] + Data_(len, places, k)
      PROVE  data'[i] = data[i]
  <2>1. i \in places[k]..places[k] + Data_(len, places, k)
    BY <1>7
  <2>2. QED BY <1>6, <2>1
<1>10. len' \in [Blocks -> 0..input_mtu] /\ data' \in [Blocks -> Data \cup {NoData}]
  <2>1. len \in [Blocks -> 0..input_mtu] /\ data \in [Blocks -> Data \cup {NoData}]
    BY DEF RingInv, BufferTypeOK
  <2>2. 0 \in 0..input_mtu
    BY PacketBufferAssumption
  <2>3. QED BY <1>5, <2>1, <2>2
<1>11. QED BY <1>8, <1>9, <1>10

LEMMA WritesKeep ==
    ASSUME RingInv, NEW d \in Data, InputWrites(d)
    PROVE  RingInv'
<1>1. /\ \A k \in 1..Len(places) :
           len'[places[k]] = len[places[k]] /\ data'[places[k]] = data[places[k]]
      /\ len' \in [Blocks -> 0..input_mtu] /\ data' \in [Blocks -> Data \cup {NoData}]
  BY WritesApart
<1>2. UNCHANGED <<wrap, start, used, places, inputVars, outputVars, lent, sent>>
  BY DEF InputWrites
<1>3. Packets(wrap, start, used, len', places)
  <2>1. places \in Seq(Nat) /\ Packets(wrap, start, used, len, places)
    BY FirstAtStart DEF RingInv
  <2>2. QED BY <1>1, <2>1, PacketsKept
<1>4. used > 0 => len'[start] = len[start]
  BY <1>1, FirstAtStart
<1>5. BufferTypeOK'
  BY <1>1, <1>2 DEF RingInv, BufferTypeOK, inputVars, outputVars
<1>6. RememberedIsCurrent'
  BY <1>2, <1>4 DEF RingInv, RememberedIsCurrent, inputVars, outputVars
<1>7. LoansStayValid'
  BY <1>2 DEF RingInv, LoansStayValid, inputVars, outputVars
<1>8. (sent # <<>> <=> used > 0)' /\ (lent # -1 <=> input_avail >= input_mtu)'
  BY <1>2 DEF RingInv, inputVars
<1>9. RingOK(wrap, start, used)' /\ Packets(wrap, start, used, len, places)'
  BY <1>2, <1>3 DEF RingInv
<1>10. (\A k \in 1..Len(places) : data[places[k]] = NoData)'
  BY <1>1, <1>2 DEF RingInv
<1>11. QED BY <1>5, <1>6, <1>7, <1>8, <1>9, <1>10 DEF RingInv

\* A packet of n bytes goes into the place after the last.
LEMMA SubmitIs ==
    ASSUME RingInv, NEW n \in 0..input_mtu, PacketBuffer_input_handler_done(n),
           NEW at, at = end(wrap, start, used), NEW b, b = bdivide_up(n)
    PROVE  /\ lent # -1 /\ lent = at + 1 /\ Roomy(wrap, start, used) /\ at \in Blocks
           /\ b \in Nat /\ b <= mtu /\ (n = 0 <=> b = 0)
           /\ len' = [len EXCEPT ![at] = n] /\ data' = [data EXCEPT ![at] = NoData]
           /\ start' = start /\ used' = used + 1 + b /\ wrap' = Longer_wrap(wrap, start, used, b)
           /\ places' = Append(places, at)
           /\ update_input(wrap', start, used')
           /\ IF used = 0 THEN update_output(len', start, used') ELSE UNCHANGED outputVars
           /\ \A k \in 1..Len(places) : places[k] # at
<1>1. /\ lent # -1 /\ ChunkBuffer2_SubmitPacket(n)
  BY DEF PacketBuffer_input_handler_done
<1>2. RingOK(wrap, start, used) /\ RememberedIsCurrent
      /\ lent = input_dest /\ input_avail >= input_mtu
  BY <1>1 DEF RingInv, LoansStayValid
<1>3. Roomy(wrap, start, used) /\ lent = end(wrap, start, used) + 1
  BY <1>2, AskedIs
<1>4. at \in Blocks
  BY <1>2, InRange
<1>5. b \in Nat /\ b <= mtu /\ (n = 0 <=> b = 0)
  BY BlocksOf
<1>6. /\ used \in Nat /\ used + 1 + b = used + 1 + bdivide_up(n)
      /\ at + 1 + b = end(wrap, start, used) + 1 + bdivide_up(n)
  BY <1>2 DEF RingOK
<1>7. wrap' = Longer_wrap(wrap, start, used, b)
  BY <1>1, <1>6 DEF ChunkBuffer2_SubmitPacket, Longer_wrap, EndsEarly
<1>8. /\ len' = [len EXCEPT ![at] = n] /\ data' = [data EXCEPT ![at] = NoData]
      /\ start' = start /\ used' = used + 1 + b
      /\ places' = Append(places, at)
      /\ update_input(wrap', start, used')
      /\ IF used = 0 THEN update_output(len', start, used') ELSE UNCHANGED outputVars
  BY <1>1 DEF ChunkBuffer2_SubmitPacket
<1>9. ASSUME NEW k \in 1..Len(places) PROVE places[k] # at
  <2>1. places[k] \in Nat /\ Data_(len, places, k) \in Nat
    BY <1>2, LiesThere DEF RingInv
  <2>2. places[k] \in places[k]..places[k] + Data_(len, places, k)
    BY <2>1
  <2>3. places[k] < at \/ places[k] > at + mtu
    BY <1>3, <2>2, Unharmed
  <2>4. at \in Nat /\ mtu \in Nat
    BY <1>4, Packed DEF Blocks
  <2>5. QED BY <2>1, <2>3, <2>4
<1>10. QED BY <1>1, <1>3, <1>4, <1>5, <1>7, <1>8, <1>9

\* The ranges, of whatever ring it is.
LEMMA TypeFollows ==
    ASSUME RingOK(wrap, start, used)', RememberedIsCurrent', places' \in Seq(Blocks),
           len' \in [Blocks -> 0..input_mtu], data' \in [Blocks -> Data \cup {NoData}],
           lent' \in Blocks \cup {-1}
    PROVE  BufferTypeOK'
<1>1. /\ wrap' \in 1..size /\ start' \in 0..wrap' - 1 /\ used' \in 0..wrap'
      /\ (wrap' = size \/ used' >= wrap' - start')
      /\ start' + 1 \in Blocks /\ end(wrap', start', used') + 1 \in Blocks
  BY InRange
<1>2. input_dest' \in Blocks \cup {-1} /\ output_dest' \in Blocks \cup {-1}
  BY <1>1 DEF RememberedIsCurrent
<1>3. QED BY <1>1, <1>2 DEF BufferTypeOK

\* What the output is asked, by what there is.
LEMMA OutputIs ==
    ASSUME NEW s, NEW u, NEW l \in [Blocks -> 0..input_mtu], s \in Blocks, u \in Nat,
           NEW a, a = IF u > 0 THEN l[s] ELSE -1
    PROVE  a \in Int /\ (a < 0 <=> u = 0) /\ (a >= 0 <=> u > 0)
<1>1. l[s] \in 0..input_mtu /\ input_mtu \in Nat
  BY PacketBufferAssumption
<1>2. QED BY <1>1

LEMMA SubmitKeeps ==
    ASSUME RingInv, NEW n \in 0..input_mtu, PacketBuffer_input_handler_done(n)
    PROVE  RingInv'
<1> DEFINE at == end(wrap, start, used)
           b == bdivide_up(n)
<1>1. /\ lent # -1 /\ lent = at + 1 /\ Roomy(wrap, start, used) /\ at \in Blocks
      /\ b \in Nat /\ b <= mtu
      /\ len' = [len EXCEPT ![at] = n] /\ data' = [data EXCEPT ![at] = NoData]
      /\ start' = start /\ used' = used + 1 + b /\ wrap' = Longer_wrap(wrap, start, used, b)
      /\ places' = Append(places, at)
      /\ update_input(wrap', start, used')
      /\ IF used = 0 THEN update_output(len', start, used') ELSE UNCHANGED outputVars
      /\ \A k \in 1..Len(places) : places[k] # at
  BY SubmitIs
<1>2. /\ RingOK(wrap, start, used) /\ Packets(wrap, start, used, len, places)
      /\ RememberedIsCurrent
      /\ len \in [Blocks -> 0..input_mtu] /\ data \in [Blocks -> Data \cup {NoData}]
  BY DEF RingInv, BufferTypeOK
<1>3. places \in Seq(Nat) /\ places \in Seq(Blocks)
  BY FirstAtStart
<1>4. b = bdivide_up(n)
  OBVIOUS
<1>5. at = end(wrap, start, used)
  OBVIOUS
<1> HIDE DEF b, at
<1>6. ASSUME NEW k \in 1..Len(places)
      PROVE  /\ places[k] \in Blocks /\ len'[places[k]] = len[places[k]]
             /\ data'[places[k]] = data[places[k]]
  <2>1. places[k] \in Blocks
    BY <1>3
  <2>2. QED BY <1>1, <1>2, <2>1
<1>7. len'[at] = n
  BY <1>1, <1>2
<1>8. RingOK(wrap', start, used')
  BY <1>1, <1>2, Submitted
<1>9. Packets(wrap', start, used', len', Append(places, at))
  BY <1>1, <1>2, <1>3, <1>4, <1>5, <1>6, <1>7, PacketsSubmitted
<1>10. RingOK(wrap, start, used)' /\ Packets(wrap, start, used, len, places)'
  BY <1>1, <1>8, <1>9
<1>11. /\ used \in Nat /\ used' \in Nat /\ used' > 0
  BY <1>1, <1>2 DEF RingOK
<1>12. len' \in [Blocks -> 0..input_mtu] /\ data' \in [Blocks -> Data \cup {NoData}]
  BY <1>1, <1>2
<1>13. places' \in Seq(Blocks) /\ Len(places') = Len(places) + 1 /\ Len(places) \in Nat
       /\ \A k \in 1..Len(places) : places'[k] = places[k]
       /\ places'[Len(places) + 1] = at
  BY <1>1, <1>3, AppendProperties
<1>14. output_dest' = start + 1 /\ output_avail' = len'[start]
  <2>1. CASE used = 0
    BY <1>1, <1>11, <2>1 DEF update_output
  <2>2. CASE used # 0
    <3>1. used > 0 /\ places # <<>> /\ 1 \in 1..Len(places) /\ places[1] = start
      BY <1>11, <2>2, FirstAtStart
    <3>2. len'[start] = len[start]
      BY <1>6, <3>1
    <3>3. output_dest' = output_dest /\ output_avail' = output_avail
      BY <1>1, <2>2 DEF outputVars
    <3>4. QED BY <1>2, <3>1, <3>2, <3>3 DEF RememberedIsCurrent
  <2>3. QED BY <2>1, <2>2
<1>15. RememberedIsCurrent'
  <2>1. /\ input_dest' = IF HasInput(wrap', start', used') THEN end(wrap', start', used') + 1 ELSE -1
        /\ input_avail' = IF HasInput(wrap', start', used')
                            THEN (free(wrap', start', used') - 1) * block ELSE -1
    BY <1>1 DEF update_input
  <2>2. QED BY <1>1, <1>11, <1>14, <2>1 DEF RememberedIsCurrent
<1>16. /\ input_avail' \in Int
       /\ input_avail' >= input_mtu => input_dest' # -1
       /\ input_avail' >= input_mtu <=> Roomy(wrap', start', used')
       /\ Roomy(wrap', start', used') => input_dest' = end(wrap', start', used') + 1
  BY <1>10, <1>15, ToldIs DEF RememberedIsCurrent
<1>17. lent' = IF input_avail' >= input_mtu THEN input_dest' ELSE -1
  BY DEF PacketBuffer_input_handler_done, Receiver_Recv
<1>18. lent' # -1 <=> input_avail' >= input_mtu
  BY <1>16, <1>17
<1>19. lent' \in Blocks \cup {-1}
  <2>1. end(wrap', start', used') + 1 \in Blocks
    BY <1>10, InRange
  <2>2. QED BY <1>16, <1>17, <2>1
<1>20. BufferTypeOK'
  BY <1>10, <1>12, <1>13, <1>15, <1>19, TypeFollows
<1>21. sent' = <<output_dest', output_avail'>>
  <2>1. start \in Blocks /\ used \in Nat
    BY <1>2, <1>11, InRange
  <2>2. output_avail < 0 <=> used = 0
    BY <1>2, <2>1, OutputIs DEF RememberedIsCurrent
  <2>3. CASE used = 0
    BY <2>2, <2>3 DEF PacketBuffer_input_handler_done, Sender_Send
  <2>4. CASE used # 0
    <3>1. used > 0 /\ sent # <<>>
      BY <1>11, <2>4 DEF RingInv
    <3>2. sent' = sent /\ output_dest' = output_dest /\ output_avail' = output_avail
      BY <1>1, <2>2, <2>4 DEF PacketBuffer_input_handler_done, outputVars
    <3>3. QED BY <3>1, <3>2 DEF RingInv, LoansStayValid
  <2>5. QED BY <2>3, <2>4
<1>22. LoansStayValid'
  BY <1>17, <1>18, <1>21 DEF LoansStayValid
<1>23. (sent # <<>> <=> used > 0)'
  BY <1>11, <1>21
<1>24. ASSUME NEW k \in 1..Len(places') PROVE data'[places'[k]] = NoData
  <2>1. CASE k \in 1..Len(places)
    BY <1>6, <1>13, <2>1 DEF RingInv
  <2>2. CASE k = Len(places) + 1
    BY <1>1, <1>2, <1>13, <2>2
  <2>3. QED BY <1>13, <2>1, <2>2
<1>25. QED BY <1>10, <1>15, <1>18, <1>20, <1>22, <1>23, <1>24 DEF RingInv

\* The first packet leaves; the place for the next one does not move.
LEMMA ConsumeKeeps ==
    ASSUME RingInv, PacketBuffer_output_handler_done
    PROVE  RingInv' /\ places # <<>> /\ places' = Tail(places) /\ UNCHANGED <<len, data>>
<1> DEFINE n == 1 + bdivide_up(len[start])
<1>1. /\ RingOK(wrap, start, used) /\ Packets(wrap, start, used, len, places)
      /\ RememberedIsCurrent
      /\ len \in [Blocks -> 0..input_mtu] /\ data \in [Blocks -> Data \cup {NoData}]
  BY DEF RingInv, BufferTypeOK
<1>2. used > 0 /\ used \in Nat /\ sent # <<>> /\ places # <<>>
  BY <1>1, FirstAtStart DEF PacketBuffer_output_handler_done, RingInv, RingOK
<1>3. places \in Seq(Nat) /\ places \in Seq(Blocks)
  BY FirstAtStart
<1>4. /\ start' = IF start + n = wrap THEN 0 ELSE start + n
      /\ wrap' = IF start + n = wrap THEN size ELSE wrap
      /\ used' = used - n /\ places' = Tail(places) /\ len' = len /\ data' = data
      /\ IF used >= wrap - start THEN update_input(wrap', start', used') ELSE UNCHANGED inputVars
      /\ update_output(len, start', used')
  BY DEF PacketBuffer_output_handler_done, ChunkBuffer2_ConsumePacket, AtWrap, WasWrapped
<1>5. n = 1 + bdivide_up(len[start])
  OBVIOUS
<1> HIDE DEF n
<1>6. /\ places[1] = start /\ n \in Nat /\ n > 0 /\ start + n <= wrap /\ n <= used
      /\ start + n < wrap => start + n + mtu + 1 <= size
  BY <1>1, <1>2, <1>3, <1>5, TheFirst
<1>7. /\ RingOK(wrap', start', used - n) /\ end(wrap', start', used - n) = end(wrap, start, used)
      /\ Roomy(wrap, start, used) => Roomy(wrap', start', used - n)
      /\ used < wrap - start => /\ HasInput(wrap', start', used - n) = HasInput(wrap, start, used)
                                /\ free(wrap', start', used - n) = free(wrap, start, used)
  BY <1>1, <1>4, <1>6, Consumed
<1>8. Packets(wrap', start', used - n, len, Tail(places))
  BY <1>1, <1>2, <1>3, <1>4, <1>5, PacketsConsumed
<1>9. RingOK(wrap, start, used)' /\ Packets(wrap, start, used, len, places)'
  BY <1>4, <1>7, <1>8
<1>10. RememberedIsCurrent'
  <2>1. /\ input_dest' = IF HasInput(wrap', start', used') THEN end(wrap', start', used') + 1 ELSE -1
        /\ input_avail' = IF HasInput(wrap', start', used')
                            THEN (free(wrap', start', used') - 1) * block ELSE -1
    <3>1. CASE used >= wrap - start
      BY <1>4, <3>1 DEF update_input
    <3>2. CASE ~(used >= wrap - start)
      <4>1. used < wrap - start
        BY <1>1, <3>2 DEF RingOK
      <4>2. /\ HasInput(wrap', start', used') = HasInput(wrap, start, used)
            /\ free(wrap', start', used') = free(wrap, start, used)
            /\ end(wrap', start', used') = end(wrap, start, used)
        BY <1>4, <1>7, <4>1
      <4>3. input_dest' = input_dest /\ input_avail' = input_avail
        BY <1>4, <3>2 DEF inputVars
      <4>4. QED BY <1>1, <4>2, <4>3 DEF RememberedIsCurrent
    <3>3. QED BY <3>1, <3>2
  <2>2. /\ output_dest' = IF used' > 0 THEN start' + 1 ELSE -1
        /\ output_avail' = IF used' > 0 THEN len'[start'] ELSE -1
    BY <1>4 DEF update_output
  <2>3. QED BY <2>1, <2>2 DEF RememberedIsCurrent
<1>11. /\ input_avail' \in Int
       /\ input_avail' >= input_mtu <=> Roomy(wrap', start', used')
       /\ Roomy(wrap', start', used') => /\ input_dest' = end(wrap', start', used') + 1
                                         /\ input_dest' # -1
  BY <1>9, <1>10, ToldIs DEF RememberedIsCurrent
<1>12. /\ input_avail \in Int
       /\ input_avail >= input_mtu <=> Roomy(wrap, start, used)
       /\ Roomy(wrap, start, used) => input_dest = end(wrap, start, used) + 1
  BY <1>1, AskedIs
<1>13. lent' = IF input_avail' >= input_mtu THEN input_dest' ELSE -1
  <2>0. input_mtu \in Nat
    BY PacketBufferAssumption
  <2>1. IF input_avail < input_mtu /\ input_avail' >= input_mtu THEN lent' = input_dest'
                                                              ELSE lent' = lent
    BY DEF PacketBuffer_output_handler_done, AsksInput, Receiver_Recv
  <2>2. CASE input_avail >= input_mtu
    <3>1. lent' = lent /\ lent = input_dest
      BY <1>12, <2>0, <2>1, <2>2 DEF RingInv, LoansStayValid
    <3>2. Roomy(wrap', start', used') /\ end(wrap', start', used') = end(wrap, start, used)
      BY <1>4, <1>7, <1>12, <2>2
    <3>3. QED BY <1>11, <1>12, <2>2, <3>1, <3>2
  <2>3. CASE ~(input_avail >= input_mtu)
    <3>1. lent = -1 /\ input_avail < input_mtu
      BY <1>12, <2>0, <2>3 DEF RingInv
    <3>2. QED BY <2>1, <3>1
  <2>4. QED BY <2>2, <2>3
<1>14. /\ lent' # -1 <=> input_avail' >= input_mtu
       /\ lent' \in Blocks \cup {-1}
  <2>1. end(wrap', start', used') + 1 \in Blocks
    BY <1>9, InRange
  <2>2. QED BY <1>11, <1>13, <2>1
<1>15. places' \in Seq(Blocks)
  BY <1>2, <1>3, <1>4, HeadTailProperties
<1>16. BufferTypeOK'
  BY <1>1, <1>4, <1>9, <1>10, <1>14, <1>15, TypeFollows
<1>17. sent' = IF used' > 0 THEN <<output_dest', output_avail'>> ELSE <<>>
  <2>1. start' \in Blocks /\ used' \in Nat
    BY <1>9, InRange DEF RingOK
  <2>2. output_avail' >= 0 <=> used' > 0
    BY <1>1, <1>4, <2>1, OutputIs DEF update_output
  <2>3. QED BY <2>2 DEF PacketBuffer_output_handler_done, Sender_Send
<1>18. (sent # <<>> <=> used > 0)' /\ LoansStayValid'
  BY <1>13, <1>14, <1>17 DEF LoansStayValid
<1>19. ASSUME NEW k \in 1..Len(places') PROVE data'[places'[k]] = NoData
  <2>1. /\ Len(places) \in Nat /\ Len(places') = Len(places) - 1
        /\ \A j \in 1..Len(places) - 1 : places'[j] = places[j + 1]
    BY <1>2, <1>3, <1>4, TheRest
  <2>2. k + 1 \in 1..Len(places) /\ places'[k] = places[k + 1]
    BY <2>1
  <2>3. QED BY <1>4, <2>2 DEF RingInv
<1>20. RingInv'
  BY <1>9, <1>10, <1>14, <1>16, <1>18, <1>19 DEF RingInv
<1>21. QED BY <1>2, <1>4, <1>20

LEMMA RingStarts == ASSUME BufferInit PROVE RingInv
<1>1. /\ len = [i \in Blocks |-> 0] /\ data = [i \in Blocks |-> NoData]
      /\ wrap = size /\ start = 0 /\ used = 0
      /\ input_dest = 1 /\ input_avail = (size - 1) * block
      /\ output_dest = -1 /\ output_avail = -1
      /\ lent = 1 /\ sent = <<>> /\ places = <<>>
  BY DEF BufferInit
<1>2. mtu \in Nat /\ mtu > 0 /\ size \in Nat /\ 2 * (1 + mtu) <= size
  <2>1. 0 < num_packets /\ Most(0) = 0
    BY PacketBufferAssumption, Packed
  <2>2. QED BY <2>1, Packed, RoomForTwo
<1>3. RingOK(size, 0, 0)
  BY <1>2 DEF RingOK
<1>4. Packets(size, 0, 0, len, <<>>)
  <2>1. Len(<<>>) = 0
    BY EmptySeq
  <2>2. QED BY <2>1 DEF Packets, Chained, Ordered
<1>5. end(size, 0, 0) = 0 /\ free(size, 0, 0) = size /\ HasInput(size, 0, 0)
      /\ Roomy(size, 0, 0)
  <2>1. 0 < size - 0 /\ 0 + 0 = 0 /\ size - 0 = size
    BY <1>2
  <2>2. end(size, 0, 0) = 0 /\ free(size, 0, 0) = size
        /\ (HasInput(size, 0, 0) <=> free(size, 0, 0) > 0)
    BY <1>3, <2>1, TheEnd
  <2>3. QED BY <1>2, <2>2 DEF Roomy
<1>6. RememberedIsCurrent
  BY <1>1, <1>5 DEF RememberedIsCurrent
<1>7. input_avail >= input_mtu
  BY <1>1, <1>3, <1>5, <1>6, AskedIs
<1>8. LoansStayValid
  BY <1>1, <1>7 DEF LoansStayValid
<1>9. BufferTypeOK
  <2>1. /\ wrap \in 1..size /\ start \in 0..wrap - 1 /\ used \in 0..wrap
        /\ wrap = size /\ 1 \in Blocks
    BY <1>1, <1>2 DEF Blocks
  <2>2. len \in [Blocks -> 0..input_mtu] /\ data \in [Blocks -> Data \cup {NoData}]
    BY <1>1, PacketBufferAssumption
  <2>3. places \in Seq(Blocks)
    BY <1>1, EmptySeq
  <2>4. QED BY <1>1, <2>1, <2>2, <2>3 DEF BufferTypeOK
<1>10. \A k \in 1..Len(places) : data[places[k]] = NoData
  BY <1>1, EmptySeq
<1>11. /\ sent # <<>> <=> used > 0
       /\ lent # -1 <=> input_avail >= input_mtu
  BY <1>1, <1>7
<1>12. QED BY <1>1, <1>3, <1>4, <1>6, <1>8, <1>9, <1>10, <1>11 DEF RingInv

LEMMA RingNext == ASSUME RingInv, [BufferNext]_bufferVars PROVE RingInv'
<1>1. CASE \E d \in Data : InputWrites(d)
  BY <1>1, WritesKeep
<1>2. CASE \E n \in 0..input_mtu : PacketBuffer_input_handler_done(n)
  BY <1>2, SubmitKeeps
<1>3. CASE PacketBuffer_output_handler_done
  BY <1>3, ConsumeKeeps
<1>4. CASE UNCHANGED bufferVars
  BY <1>4 DEF bufferVars, ring, inputVars, outputVars, RingInv, BufferTypeOK, RememberedIsCurrent,
              LoansStayValid
<1>5. QED BY <1>1, <1>2, <1>3, <1>4 DEF BufferNext

\* The inductive invariant.
THEOREM RingHolds == BufferSpec => []RingInv
<1>1. BufferInit => RingInv
  BY RingStarts
<1>2. RingInv /\ [BufferNext]_bufferVars => RingInv'
  BY RingNext
<1>3. QED BY <1>1, <1>2, PTL DEF BufferSpec

\* Less than num_packets packets leave room for one more, which the input has then been asked for.
LEMMA RingSays == ASSUME RingInv PROVE NobodyForgotten
<1>1. /\ RingOK(wrap, start, used) /\ Packets(wrap, start, used, len, places)
      /\ RememberedIsCurrent
  BY DEF RingInv
<1>2. /\ mtu \in Nat /\ size \in Nat /\ Most(0) = 0 /\ wrap \in Nat /\ used \in Nat /\ start \in Nat
      /\ start < wrap /\ used <= wrap /\ size <= wrap + mtu /\ Off(wrap, start, start) = 0
  BY <1>1, Packed, OffIs DEF RingOK
<1>3. places \in Seq(Nat) /\ Len(places) \in Nat
  BY FirstAtStart, LenProperties
<1>4. ASSUME Len(places) < num_packets PROVE lent # -1
  <2> DEFINE N == Len(places)
             most == Most(N)
  <2>1. most \in Nat /\ most + 2 * (1 + mtu) <= size
    BY <1>3, <1>4, Packed, RoomForTwo
  <2>2. used <= most
    <3>1. CASE places = <<>>
      <4>1. used = 0
        BY <1>1, <3>1 DEF Packets, Chained
      <4>2. QED BY <2>1, <4>1
    <3>2. CASE places # <<>>
      <4>1. 1 \in 1..Len(places) /\ places[1] = start /\ N - 1 + 1 = N
        BY <1>3, <3>2, FirstAtStart
      <4>2. used - Off(wrap, start, places[1]) <= Most(Len(places) - 1 + 1)
        BY <1>1, <4>1, LiesThere
      <4>3. used - 0 <= most
        BY <1>2, <4>1, <4>2
      <4>4. QED BY <1>2, <2>1, <4>3
    <3>3. QED BY <3>1, <3>2
  <2> HIDE DEF most
  <2>3. used + 2 + mtu + mtu <= size
    BY <1>2, <2>1, <2>2
  <2>4. free(wrap, start, used) > mtu
    <3>1. CASE used < wrap - start
      BY <1>1, <1>2, <3>1, TheEnd DEF RingOK
    <3>2. CASE ~(used < wrap - start)
      <4>1. used >= wrap - start
        BY <1>2, <3>2
      <4>2. free(wrap, start, used) = start - (used - (wrap - start))
        BY <1>1, <4>1, TheEnd
      <4>3. QED BY <1>2, <2>3, <4>2
    <3>3. QED BY <3>1, <3>2
  <2>5. free(wrap, start, used) \in Nat /\ (HasInput(wrap, start, used) <=> free(wrap, start, used) > 0)
    BY <1>1, TheEnd
  <2>6. Roomy(wrap, start, used)
    BY <1>2, <2>4, <2>5 DEF Roomy
  <2>7. QED BY <1>1, <2>6, AskedIs DEF RingInv
<1>5. QED BY <1>4 DEF RingInv, NobodyForgotten

\* Neither side harms what the other was lent, and none is forgotten.
THEOREM BufferAlwaysAgrees == BufferSpec => []BufferAgrees
<1>1. RingInv => BufferAgrees
  BY RingSays DEF RingInv, BufferAgrees
<1>2. QED BY <1>1, RingHolds, PTL

-----------------------------------------------------------------------------
(* The queue that the ring implements *)

\* What the packets at pl say.
Reading(l, b, pl) ==
    [k \in 1..Len(pl) |->
        [len |-> l[pl[k]], data |-> {b[i] : i \in pl[k] + 1..pl[k] + Data_(l, pl, k)}]]

\* From each packet one finds the next.
LEMMA AllFound == ASSUME RingInv, NEW k \in 1..Len(places) PROVE Found(k)
<1>1. Packets(wrap, start, used, len, places) /\ RingOK(wrap, start, used)
  BY DEF RingInv
<1>2. /\ places \in Seq(Nat) /\ places # <<>> /\ places[1] = start /\ Len(places) \in Nat
  <2>1. places \in Seq(Nat)
    BY FirstAtStart
  <2>2. places # <<>>
    BY EmptySeq
  <2>3. QED BY <2>1, <2>2, FirstAtStart, LenProperties
<1>3. ASSUME k # 1 PROVE places[k] = After(places[k - 1])
  <2> DEFINE j == k - 1
  <2>1. j \in 1..Len(places) - 1 /\ j + 1 = k
    BY <1>2, <1>3
  <2> HIDE DEF j
  <2>2. places[j + 1] = IF places[j] + 1 + bdivide_up(len[places[j]]) = wrap THEN 0
                          ELSE places[j] + 1 + bdivide_up(len[places[j]])
    BY <1>1, <2>1 DEF Packets, Chained
  <2>3. places[k] = After(places[j])
    BY <2>1, <2>2 DEF After, Past, Blocks_OfData
  <2>4. QED BY <2>3 DEF j
<1>4. data[places[k]] = NoData
  BY DEF RingInv
<1> DEFINE p == places[k]
           b == Data_(len, places, k)
<1>5. /\ p \in Nat /\ b \in Nat /\ p + 1 + b <= wrap /\ Off(wrap, start, p) + 1 + b <= used
      /\ used \in Nat /\ Off(wrap, start, p) \in Nat
  BY <1>1, LiesThere, OffIs
<1>6. Blocks_OfData(p) = b /\ Off(wrap, start, p) = Before(p)
  BY DEF Blocks_OfData, Data_, Off, Before
<1> HIDE DEF b, p
<1>7. Past(p) <= wrap /\ 1 + Blocks_OfData(p) <= Left(p)
  BY <1>5, <1>6 DEF Past, Left
<1>8. QED BY <1>2, <1>3, <1>4, <1>7 DEF Found, p

LEMMA ContentsAre == RingInv => Contents = Reading(len, data, places)
<1> SUFFICES ASSUME RingInv PROVE Contents = Reading(len, data, places)
  OBVIOUS
<1>1. \A k \in 1..Len(places) : Found(k)
  BY AllFound
<1>2. \A k \in 1..Len(places) : Blocks_OfData(places[k]) = Data_(len, places, k)
  BY DEF Blocks_OfData, Data_
<1>3. QED BY <1>1, <1>2 DEF Contents, PacketAt, Reading

\* Whatever can be read from the ring.
Readable == [len : 0..input_mtu, data : SUBSET (Data \cup {NoData})]

IsRead(l, b, pl, q) ==
    /\ q \in Seq(Readable) /\ Len(q) = Len(pl) /\ Len(pl) \in Nat
    /\ \A k \in 1..Len(pl) :
         q[k] = [len |-> l[pl[k]], data |-> {b[i] : i \in pl[k] + 1..pl[k] + Data_(l, pl, k)}]

LEMMA ReadingIs ==
    ASSUME RingInv
    PROVE  IsRead(len, data, places, Contents)
<1>1. /\ len \in [Blocks -> 0..input_mtu] /\ data \in [Blocks -> Data \cup {NoData}]
      /\ RingOK(wrap, start, used) /\ Packets(wrap, start, used, len, places)
  BY DEF RingInv, BufferTypeOK
<1>2. places \in Seq(Blocks) /\ Len(places) \in Nat
  BY FirstAtStart, LenProperties
<1>3. ASSUME NEW k \in 1..Len(places)
      PROVE  [len |-> len[places[k]],
              data |-> {data[i] : i \in places[k] + 1..places[k] + Data_(len, places, k)}] \in Readable
  <2>1. places[k] \in Blocks
    BY <1>2
  <2>2. /\ places[k] \in Nat /\ Data_(len, places, k) \in Nat
        /\ places[k] + 1 + Data_(len, places, k) <= wrap
        /\ wrap \in Nat /\ wrap <= size /\ size \in Nat
    BY <1>1, LiesThere, OffIs, Packed
  <2>3. \A i \in places[k] + 1..places[k] + Data_(len, places, k) : i \in Blocks
    BY <2>2 DEF Blocks
  <2>4. {data[i] : i \in places[k] + 1..places[k] + Data_(len, places, k)}
          \in SUBSET (Data \cup {NoData})
    BY <1>1, <2>3
  <2>5. len[places[k]] \in 0..input_mtu
    BY <1>1, <2>1
  <2>6. QED BY <2>4, <2>5 DEF Readable
<1> DEFINE R == Reading(len, data, places)
<1>4. R \in [1..Len(places) -> Readable]
  BY <1>3 DEF Reading
<1>5. R \in Seq(Readable) /\ Len(R) = Len(places)
  <2> HIDE DEF R
  <2>1. QED BY <1>2, <1>4
<1>6. IsRead(len, data, places, R)
  BY <1>2, <1>5 DEF Reading, IsRead
<1>7. QED BY <1>6, ContentsAre

LEMMA ReadingIsStill == RingInv' => IsRead(len', data', places', Contents')
<1>1. RingInv => IsRead(len, data, places, Contents)
  BY ReadingIs
<1>2. (RingInv => IsRead(len, data, places, Contents))'
  BY <1>1, PTL
<1>3. QED BY <1>2

\* The input writes to a place of its own.
LEMMA FifoRests ==
    ASSUME RingInv, NEW d \in Data, InputWrites(d)
    PROVE  Contents' = Contents
<1>1. IsRead(len, data, places, Contents) /\ IsRead(len', data', places', Contents')
  BY WritesKeep, ReadingIs, ReadingIsStill
<1>2. places' = places
  BY DEF InputWrites
<1>3. ASSUME NEW k \in 1..Len(places) PROVE Contents'[k] = Contents[k]
  <2>1. len'[places[k]] = len[places[k]]
        /\ \A i \in places[k] + 1..places[k] + Data_(len, places, k) : data'[i] = data[i]
    BY WritesApart
  <2>2. Data_(len', places, k) = Data_(len, places, k)
    BY <2>1 DEF Data_
  <2>3. {data'[i] : i \in places[k] + 1..places[k] + Data_(len', places, k)}
          = {data[i] : i \in places[k] + 1..places[k] + Data_(len, places, k)}
    BY <2>1, <2>2
  <2>4. /\ Contents[k] =
             [len |-> len[places[k]],
              data |-> {data[i] : i \in places[k] + 1..places[k] + Data_(len, places, k)}]
        /\ Contents'[k] =
             [len |-> len'[places[k]],
              data |-> {data'[i] : i \in places[k] + 1..places[k] + Data_(len', places, k)}]
    BY <1>1, <1>2 DEF IsRead
  <2>5. QED BY <2>1, <2>3, <2>4
<1>4. /\ Contents \in Seq(Readable) /\ Contents' \in Seq(Readable)
      /\ Len(Contents) = Len(places) /\ Len(Contents') = Len(places)
  BY <1>1, <1>2 DEF IsRead
<1>5. QED
  <2> DEFINE q == Contents
             r == Contents'
  <2>1. /\ q \in Seq(Readable) /\ r \in Seq(Readable) /\ Len(q) = Len(r)
        /\ \A k \in 1..Len(q) : r[k] = q[k]
    BY <1>3, <1>4
  <2> HIDE DEF q, r
  <2>2. q = r
    BY <2>1, SeqEqual
  <2>3. QED BY <2>2 DEF q, r

\* A packet of n bytes, all of them d.
LEMMA WholePacket ==
    ASSUME NEW n \in 0..input_mtu, NEW d \in Data,
           NEW p, p = [len |-> n, data |-> IF n = 0 THEN {} ELSE {d}]
    PROVE  p \in Packet
BY SMT DEF Packet

\* The packet that was written is put into the queue, whole.
LEMMA FifoPut ==
    ASSUME RingInv, NEW n \in 0..input_mtu, PacketBuffer_input_handler_done(n)
    PROVE  F!Put
<1> DEFINE at == end(wrap, start, used)
           b == bdivide_up(n)
           N == Len(places)
<1>1. /\ lent # -1 /\ lent = at + 1 /\ Roomy(wrap, start, used) /\ at \in Blocks
      /\ b \in Nat /\ b <= mtu /\ (n = 0 <=> b = 0)
      /\ len' = [len EXCEPT ![at] = n] /\ data' = [data EXCEPT ![at] = NoData]
      /\ places' = Append(places, at)
      /\ \A k \in 1..Len(places) : places[k] # at
  BY SubmitIs
<1>2. IsRead(len, data, places, Contents) /\ IsRead(len', data', places', Contents')
  BY SubmitKeeps, ReadingIs, ReadingIsStill
<1>3. PICK d \in Data : \A i \in lent..lent + b - 1 : data[i] = d
  BY DEF PacketBuffer_input_handler_done
<1>4. /\ len \in [Blocks -> 0..input_mtu] /\ data \in [Blocks -> Data \cup {NoData}]
      /\ places \in Seq(Blocks) /\ N \in Nat
  BY FirstAtStart, LenProperties DEF RingInv, BufferTypeOK
<1>5. /\ N \in Nat /\ Len(places') = N + 1 /\ \A k \in 1..N : places'[k] = places[k]
      /\ places'[N + 1] = at
  BY <1>1, <1>4, AppendProperties
<1>6. at \in Nat /\ at + mtu + 1 <= size /\ mtu \in Nat /\ size \in Nat
  BY TheEnd, Packed DEF RingInv
<1> DEFINE p == [len |-> n, data |-> IF n = 0 THEN {} ELSE {d}]
<1>7. b = bdivide_up(n)
  OBVIOUS
<1>8. p \in Packet /\ p \in Readable
  <2>1. p \in Packet
    BY WholePacket
  <2> DEFINE x == IF n = 0 THEN {} ELSE {d}
  <2>2. x \in SUBSET (Data \cup {NoData}) /\ p = [len |-> n, data |-> x]
    OBVIOUS
  <2> HIDE DEF x, p
  <2>3. p \in Readable
    BY <2>2 DEF Readable
  <2>4. QED BY <2>1, <2>3
<1> HIDE DEF at, b, N
<1>9. Contents'[N + 1] = p
  <2>1. len'[at] = n
    BY <1>1, <1>4
  <2>2. Data_(len', places', N + 1) = b
    BY <1>5, <1>7, <2>1 DEF Data_
  <2>3. N + 1 \in 1..Len(places')
    BY <1>5
  <2>4. Contents'[N + 1] = [len |-> n, data |-> {data'[i] : i \in at + 1..at + b}]
    BY <1>2, <1>5, <2>1, <2>2, <2>3 DEF IsRead
  <2>5. ASSUME NEW i \in at + 1..at + b PROVE data'[i] = d
    <3>1. i \in Int /\ i >= at + 1 /\ i <= at + b
      BY <1>1, <1>6
    <3>2. i \in lent..lent + b - 1 /\ i \in Blocks /\ i # at
      BY <1>1, <1>6, <3>1 DEF Blocks
    <3>3. QED BY <1>1, <1>3, <1>4, <3>2
  <2>6. CASE n = 0
    <3>1. b = 0 /\ at + 1..at + b = {}
      BY <1>1, <1>6, <2>6
    <3>2. {data'[i] : i \in at + 1..at + b} = {}
      BY <3>1
    <3>3. QED BY <2>4, <2>6, <3>2
  <2>7. CASE n # 0
    <3>1. at + 1 \in at + 1..at + b
      BY <1>1, <1>6, <2>7
    <3>2. {data'[i] : i \in at + 1..at + b} = {d}
      BY <2>5, <3>1
    <3>3. QED BY <2>4, <2>7, <3>2
  <2>8. QED BY <2>6, <2>7
<1>10. ASSUME NEW k \in 1..N PROVE Contents'[k] = Contents[k]
  <2>1. k \in 1..Len(places) /\ k \in 1..Len(places') /\ places'[k] = places[k]
    BY <1>5 DEF N
  <2>2. places[k] \in Blocks /\ places[k] # at
    BY <1>1, <1>4, <2>1
  <2>3. len'[places[k]] = len[places[k]]
    BY <1>1, <1>4, <2>2
  <2>4. Data_(len', places', k) = Data_(len, places, k)
    BY <2>1, <2>3 DEF Data_
  <2>5. ASSUME NEW i \in places[k] + 1..places[k] + Data_(len, places, k)
        PROVE  data'[i] = data[i]
    <3>0. places[k] \in Nat /\ Data_(len, places, k) \in Nat
      BY <2>1, LiesThere DEF RingInv
    <3>1. i \in places[k]..places[k] + Data_(len, places, k)
      BY <3>0
    <3>2. i \in Blocks /\ (i < at \/ i > at + mtu)
      BY <1>1, <2>1, <3>1, Unharmed DEF at
    <3>3. i \in Int /\ i # at
      BY <1>6, <3>2 DEF Blocks
    <3>4. QED BY <1>1, <1>4, <3>2, <3>3
  <2>6. {data'[i] : i \in places'[k] + 1..places'[k] + Data_(len', places', k)}
          = {data[i] : i \in places[k] + 1..places[k] + Data_(len, places, k)}
    BY <2>1, <2>4, <2>5
  <2>7. /\ Contents[k] =
             [len |-> len[places[k]],
              data |-> {data[i] : i \in places[k] + 1..places[k] + Data_(len, places, k)}]
        /\ Contents'[k] =
             [len |-> len'[places'[k]],
              data |-> {data'[i] : i \in places'[k] + 1..places'[k] + Data_(len', places', k)}]
    BY <1>2, <2>1 DEF IsRead
  <2>8. len'[places'[k]] = len[places[k]]
    BY <2>1, <2>3
  <2>9. QED BY <2>6, <2>7, <2>8
<1>11. Contents' = Append(Contents, p)
  <2> DEFINE q == Contents
             r == Contents'
             a == Append(q, p)
  <2>1. /\ q \in Seq(Readable) /\ r \in Seq(Readable) /\ Len(q) = N /\ Len(r) = N + 1
        /\ r[N + 1] = p /\ \A k \in 1..N : r[k] = q[k]
    BY <1>2, <1>5, <1>9, <1>10 DEF IsRead, N
  <2> HIDE DEF q, r, p
  <2>2. /\ a \in Seq(Readable) /\ Len(a) = N + 1 /\ a[N + 1] = p
        /\ \A k \in 1..N : a[k] = q[k]
    BY <1>8, <2>1, AppendProperties
  <2> HIDE DEF a
  <2>3. \A k \in 1..N + 1 : k \in 1..N \/ k = N + 1
    BY <1>5
  <2>4. r = a
    BY <2>1, <2>2, <2>3, SeqEqual
  <2>5. QED BY <2>4 DEF q, r, a
<1>12. QED BY <1>8, <1>11 DEF F!Put

\* The first packet is taken.
LEMMA FifoGet ==
    ASSUME RingInv, PacketBuffer_output_handler_done
    PROVE  F!Get
<1>1. RingInv' /\ places # <<>> /\ places' = Tail(places) /\ len' = len /\ data' = data
  BY ConsumeKeeps
<1>2. IsRead(len, data, places, Contents) /\ IsRead(len', data', places', Contents')
  BY <1>1, ReadingIs, ReadingIsStill
<1> DEFINE N == Len(places)
<1>3. /\ N \in Nat /\ N > 0 /\ Len(places') = N - 1
      /\ \A k \in 1..N - 1 : places'[k] = places[k + 1]
  BY <1>1, FirstAtStart, TheRest
<1>4. ASSUME NEW k \in 1..N - 1 PROVE Contents'[k] = Contents[k + 1]
  <2>1. k \in 1..Len(places') /\ k + 1 \in 1..Len(places) /\ places'[k] = places[k + 1]
    BY <1>3
  <2> DEFINE j == k + 1
  <2> HIDE DEF j
  <2>2. Data_(len', places', k) = Data_(len, places, j)
    BY <1>1, <2>1 DEF Data_, j
  <2>3. j \in 1..Len(places) /\ places'[k] = places[j]
    BY <2>1 DEF j
  <2>4. len'[places'[k]] = len[places[j]]
        /\ {data'[i] : i \in places'[k] + 1..places'[k] + Data_(len', places', k)}
             = {data[i] : i \in places[j] + 1..places[j] + Data_(len, places, j)}
    BY <1>1, <2>2, <2>3
  <2>5. /\ Contents[j] =
             [len |-> len[places[j]],
               data |-> {data[i] : i \in places[j] + 1..places[j] + Data_(len, places, j)}]
        /\ Contents'[k] =
             [len |-> len'[places'[k]],
               data |-> {data'[i] : i \in places'[k] + 1..places'[k] + Data_(len', places', k)}]
    BY <1>2, <2>1, <2>3 DEF IsRead
  <2>6. Contents'[k] = Contents[j]
    BY <2>4, <2>5
  <2>7. QED BY <2>6 DEF j
<1>5. Contents # <<>> /\ Contents' = Tail(Contents)
  <2> DEFINE q == Contents
             r == Contents'
             a == Tail(q)
  <2>1. /\ q \in Seq(Readable) /\ r \in Seq(Readable) /\ Len(q) = N /\ Len(r) = N - 1
        /\ \A k \in 1..N - 1 : r[k] = q[k + 1]
    BY <1>2, <1>3, <1>4 DEF IsRead
  <2> HIDE DEF q, r, N
  <2>2. q # <<>>
    BY <1>3, <2>1, EmptySeq
  <2>3. a \in Seq(Readable) /\ Len(a) = N - 1 /\ \A k \in 1..N - 1 : a[k] = q[k + 1]
    BY <2>1, <2>2, HeadTailProperties
  <2> HIDE DEF a
  <2>4. r = a
    BY <2>1, <2>3, SeqEqual
  <2>5. QED BY <2>2, <2>4 DEF q, r, a
<1>6. QED BY <1>5 DEF F!Get

LEMMA FifoStarts == ASSUME BufferInit PROVE F!Init
<1>1. IsRead(len, data, places, Contents) /\ places = <<>>
  BY RingStarts, ReadingIs DEF BufferInit
<1>2. Contents \in Seq(Readable) /\ Len(Contents) = 0
  BY <1>1, EmptySeq DEF IsRead
<1> DEFINE q == Contents
<1>3. q = <<>>
  <2> HIDE DEF q
  <2>1. QED BY <1>2, EmptySeq DEF q
<1>4. QED BY <1>3 DEF F!Init

LEMMA FifoStep ==
    ASSUME RingInv, [BufferNext]_bufferVars
    PROVE  [F!Next]_Contents
<1>1. CASE \E d \in Data : InputWrites(d)
  BY <1>1, FifoRests
<1>2. CASE \E n \in 0..input_mtu : PacketBuffer_input_handler_done(n)
  BY <1>2, FifoPut DEF F!Next
<1>3. CASE PacketBuffer_output_handler_done
  BY <1>3, FifoGet DEF F!Next
<1>4. CASE UNCHANGED bufferVars
  <2>1. UNCHANGED <<len, data, wrap, start, used, places>>
    BY <1>4 DEF bufferVars, ring
  <2>2. Contents' = Contents
    BY <2>1 DEF Contents, Found, PacketAt, Past, After, Before, Left, Blocks_OfData
  <2>3. QED BY <2>2
<1>5. QED BY <1>1, <1>2, <1>3, <1>4 DEF BufferNext

\* The ring implements the queue: every packet comes out whole, once and in order, whatever its
\* users do with the space that they are lent.
THEOREM ImplementsFifo == BufferSpec => IsFifo
<1>1. BufferInit => F!Init
  BY FifoStarts
<1>2. RingInv /\ [BufferNext]_bufferVars => [F!Next]_Contents
  BY FifoStep
<1>3. QED BY <1>1, <1>2, RingHolds, PTL DEF BufferSpec, IsFifo, F!Spec

-----------------------------------------------------------------------------
(* PacketStream                                                            *)
-----------------------------------------------------------------------------

\* The bytes on their way, those in the decoder's buffer (u of them at place s of b) and then
\* those of the stream.
Line(b, s, u, rest) == [i \in 1..u + Len(rest) |-> IF i <= u THEN b[s + i - 1] ELSE rest[i - u]]

OfPacket(line, i) == line[i][1]
Place(line, i) == line[i][2]

Encoded(sz, p) == PACKETPROTO_ENCLEN(sz[p])

\* The first n bytes of the line are those of the packets from due on, each followed by the
\* next, up to the first w bytes of packet c, the one that is written now or will be next.
\* Said of places and not of packets, this needs no count of what lies between two of them.
OnlyWritten(line, n, sz, due, c, w) ==
    \A i \in 1..n :
        /\ OfPacket(line, i) \in due..c /\ Place(line, i) \in 1..Encoded(sz, OfPacket(line, i))
        /\ OfPacket(line, i) = c => Place(line, i) <= w

OnePiece(line, n, sz) ==
    \A i \in 1..n :
        /\ \A m \in 0..n - i :
             Place(line, i) + m <= Encoded(sz, OfPacket(line, i)) =>
                 line[i + m] = <<OfPacket(line, i), Place(line, i) + m>>
        /\ i < n /\ Place(line, i) = Encoded(sz, OfPacket(line, i)) =>
             line[i + 1] = <<OfPacket(line, i) + 1, 1>>

InOrder(line, n) ==
    \A i, j \in 1..n : i < j =>
        \/ OfPacket(line, i) < OfPacket(line, j)
        \/ OfPacket(line, i) = OfPacket(line, j) /\ Place(line, i) < Place(line, j)

Begins(line, n, due) == n > 0 => line[1] = <<due, 1>>

Ends(line, n, sz, due, c, w) ==
    IF n = 0 THEN due = c /\ w = 0
    ELSE \/ OfPacket(line, n) = c /\ Place(line, n) = w
         \/ /\ OfPacket(line, n) = c - 1 /\ Place(line, n) = Encoded(sz, c - 1)
            /\ w = 0

OnTheWay(line, n, sz, due, c, w) ==
    /\ due \in 1..c /\ c - 1 <= Len(sz) /\ w \in Nat /\ (w > 0 => c <= Len(sz) /\ w < Encoded(sz, c))
    /\ OnlyWritten(line, n, sz, due, c, w) /\ OnePiece(line, n, sz)
    /\ InOrder(line, n) /\ Begins(line, n, due) /\ Ends(line, n, sz, due, c, w)

\* As much as w bytes of packet c may be all of it.
OnTheWayThen(line, n, sz, due, c, w) ==
    IF w = Encoded(sz, c) THEN OnTheWay(line, n, sz, due, c + 1, 0)
                          ELSE OnTheWay(line, n, sz, due, c, w)

\* The same of the line that u bytes at place s of b and the rest of the stream are.
InLine(b, s, u, rest, sz, due, c, w) ==
    OnTheWay(Line(b, s, u, rest), u + Len(rest), sz, due, c, w)

\* e bytes at place s are those of packet p.
Whole(b, s, p, e) == \A i \in 1..e : b[s + i - 1] = <<p, i>>

\* The line with k more bytes of packet c behind the first w, and without the first k bytes.
Appended(more, line, n, k, c, w) ==
    /\ \A i \in 1..n : more[i] = line[i]
    /\ \A i \in n + 1..n + k : more[i] = <<c, w + (i - n)>>

Dropped(less, line, n, k) == \A i \in 1..n - k : less[i] = line[i + k]

\* The packet that has to come out next, the one to be written, and how much of it was.
Due == IF got < first THEN first ELSE got + 1
Coming == written + 1
Begun == IF in_len = -1 THEN 0 ELSE in_used

SenderInv ==
    /\ written = IF in_len = -1 THEN Len(sizes) ELSE Len(sizes) - 1
    /\ in_len # -1 => in_len = Encoded(sizes, Len(sizes)) /\ in_used \in 0..in_len - 1

DecoderInv ==
    IF connected
    THEN InLine(buf, buf_start, buf_used, stream, sizes, Due, Coming, Begun)
    ELSE stream = <<>> /\ buf_start = 0 /\ buf_used = 0 /\ ~passing /\ Begun = 0

StreamInv ==
    /\ StreamTypeOK /\ stream \in Seq(Nat \X Nat)
    /\ SenderInv /\ got <= written /\ first \in 1..Coming
    /\ DecoderInv /\ NeverMisread /\ RoomWhenAsked

-----------------------------------------------------------------------------
(* The line *)

LEMMA PacketBytes ==
    ASSUME NEW line, NEW n \in Nat, NEW sz \in Seq(Nat), NEW due, NEW c \in Nat, NEW w,
           OnTheWay(line, n, sz, due, c, w), NEW i \in 1..n
    PROVE  /\ OfPacket(line, i) \in 1..Len(sz) /\ OfPacket(line, i) \in Nat
           /\ due <= OfPacket(line, i) /\ OfPacket(line, i) <= c
           /\ Encoded(sz, OfPacket(line, i)) \in Nat /\ Place(line, i) \in Nat
           /\ 1 <= Place(line, i) /\ Place(line, i) <= Encoded(sz, OfPacket(line, i))
           /\ OfPacket(line, i) = c => Place(line, i) <= w
<1>1. /\ OfPacket(line, i) \in due..c /\ Place(line, i) \in 1..Encoded(sz, OfPacket(line, i))
      /\ OfPacket(line, i) = c => Place(line, i) <= w
      /\ due \in 1..c /\ c - 1 <= Len(sz) /\ w \in Nat /\ (w > 0 => c <= Len(sz))
  BY DEF OnTheWay, OnlyWritten
<1>2. Len(sz) \in Nat
  OBVIOUS
<1>3. OfPacket(line, i) \in Nat /\ OfPacket(line, i) >= 1 /\ Place(line, i) >= 1
  BY <1>1
<1>4. OfPacket(line, i) \in 1..Len(sz)
  BY <1>1, <1>2, <1>3
<1>5. sz[OfPacket(line, i)] \in Nat
  BY <1>4
<1>6. Encoded(sz, OfPacket(line, i)) \in Nat
  BY <1>5, PacketStreamAssumption DEF Encoded, PACKETPROTO_ENCLEN
<1>7. QED BY <1>1, <1>3, <1>4, <1>6

\* k more bytes of the packet are written.
LEMMA Longer ==
    ASSUME NEW line, NEW n \in Nat, NEW sz \in Seq(Nat), NEW due, NEW c \in Nat, NEW w \in Nat,
           OnTheWay(line, n, sz, due, c, w), c <= Len(sz),
           NEW k \in Nat \ {0}, w + k <= Encoded(sz, c),
           NEW more, Appended(more, line, n, k, c, w)
    PROVE  OnTheWayThen(more, n + k, sz, due, c, w + k)
<1>1. due \in 1..c /\ due \in Nat /\ c \in 1..Len(sz) /\ Encoded(sz, c) \in Nat
  <2>1. due \in 1..c /\ due \in Nat /\ c >= 1
    BY DEF OnTheWay
  <2>2. sz[c] \in Nat
    BY <2>1
  <2>3. QED BY <2>1, <2>2, PacketStreamAssumption DEF Encoded, PACKETPROTO_ENCLEN
<1>2. \A i \in 1..n :
        /\ OfPacket(more, i) = OfPacket(line, i) /\ Place(more, i) = Place(line, i)
        /\ OfPacket(line, i) \in Nat /\ due <= OfPacket(line, i) /\ OfPacket(line, i) <= c
        /\ Encoded(sz, OfPacket(line, i)) \in Nat /\ Place(line, i) \in Nat
        /\ 1 <= Place(line, i) /\ Place(line, i) <= Encoded(sz, OfPacket(line, i))
        /\ OfPacket(line, i) = c => Place(line, i) <= w
  <2> TAKE i \in 1..n
  <2>1. OfPacket(more, i) = OfPacket(line, i) /\ Place(more, i) = Place(line, i)
    BY DEF OfPacket, Place, Appended
  <2>2. QED BY <2>1, PacketBytes
<1>3. \A i \in n + 1..n + k : OfPacket(more, i) = c /\ Place(more, i) = w + (i - n)
  BY DEF OfPacket, Place, Appended
<1>0. /\ \A i \in 1..n : more[i] = line[i]
      /\ \A i \in n + 1..n + k : more[i] = <<c, w + (i - n)>>
  BY DEF Appended
<1>4. OnePiece(more, n + k, sz)
  <2>1. ASSUME NEW i \in 1..n + k, NEW m \in 0..n + k - i,
               Place(more, i) + m <= Encoded(sz, OfPacket(more, i))
        PROVE  more[i + m] = <<OfPacket(more, i), Place(more, i) + m>>
    <3> DEFINE j == i + m
    <3>0. i \in Nat /\ m \in Nat /\ j \in Nat /\ i >= 1 /\ i <= j /\ j <= n + k /\ j = i + m
      OBVIOUS
    <3> HIDE DEF j
    <3>1. CASE i + m <= n
      <4>1. i \in 1..n /\ m \in 0..n - i
        BY <3>1
      <4>2. line[i + m] = <<OfPacket(line, i), Place(line, i) + m>>
        BY <2>1, <4>1, <1>2 DEF OnTheWay, OnePiece
      <4>3. i + m \in 1..n
        BY <3>1
      <4>4. QED BY <4>1, <4>2, <4>3, <1>0, <1>2
    <3>2. CASE i <= n /\ i + m > n
      <4>1. i \in 1..n /\ n \in 1..n /\ n - i \in 0..n - i /\ n # 0
        BY <3>2
      <4>0. /\ OfPacket(more, i) = OfPacket(line, i) /\ Place(more, i) = Place(line, i)
            /\ Place(line, i) \in Nat /\ Encoded(sz, OfPacket(line, i)) \in Nat
        BY <4>1, <1>2
      <4>2. Place(line, i) + (n - i) < Encoded(sz, OfPacket(line, i))
        <5>1. /\ Place(line, i) \in Nat /\ Encoded(sz, OfPacket(line, i)) \in Nat
              /\ Place(line, i) + m <= Encoded(sz, OfPacket(line, i))
          BY <2>1, <4>0
        <5>2. n - i < m
          BY <3>2, <4>1
        <5>3. QED BY <5>1, <5>2
      <4>3. line[i + (n - i)] = <<OfPacket(line, i), Place(line, i) + (n - i)>>
        <5>1. \A l \in 0..n - i :
                Place(line, i) + l <= Encoded(sz, OfPacket(line, i)) =>
                    line[i + l] = <<OfPacket(line, i), Place(line, i) + l>>
          BY <4>1 DEF OnTheWay, OnePiece
        <5>2. Place(line, i) + (n - i) <= Encoded(sz, OfPacket(line, i))
          BY <4>0, <4>1, <4>2
        <5>3. QED BY <4>1, <5>1, <5>2
      <4>4. i + (n - i) = n
        BY <4>1
      <4>5. OfPacket(line, n) = OfPacket(line, i) /\ Place(line, n) = Place(line, i) + (n - i)
        BY <4>3, <4>4 DEF OfPacket, Place
      <4>6. OfPacket(line, n) = c /\ Place(line, n) = w
        BY <4>1, <4>2, <4>5, <1>2 DEF OnTheWay, Ends
      <4>7. more[j] = <<c, w + (j - n)>>
        <5>1. j \in n + 1..n + k
          BY <3>0, <3>2
        <5>2. QED BY <5>1, <1>0
      <4>8. w + (j - n) = Place(more, i) + m /\ c = OfPacket(more, i)
        <5>1. w = Place(line, i) + (n - i) /\ c = OfPacket(line, i)
          BY <4>5, <4>6
        <5>2. QED BY <3>0, <4>0, <5>1, SMTT(20)
      <4>9. QED BY <3>0, <4>7, <4>8
    <3>3. CASE i > n
      <4>1. i \in n + 1..n + k /\ j \in n + 1..n + k
        BY <3>0, <3>3
      <4>2. more[j] = <<c, w + (j - n)>>
        BY <4>1, <1>0
      <4>3. OfPacket(more, i) = c /\ Place(more, i) = w + (i - n)
        BY <4>1, <1>3
      <4>4. w + (j - n) = Place(more, i) + m
        BY <3>0, <4>3
      <4>5. QED BY <3>0, <4>2, <4>3, <4>4
    <3>4. QED BY <3>0, <3>1, <3>2, <3>3, SMTT(20)
  <2>2. ASSUME NEW i \in 1..n + k, i < n + k, Place(more, i) = Encoded(sz, OfPacket(more, i))
        PROVE  more[i + 1] = <<OfPacket(more, i) + 1, 1>>
    <3>1. CASE i < n
      <4>1. i \in 1..n /\ i + 1 \in 1..n
        BY <3>1
      <4>2. QED BY <2>2, <3>1, <4>1, <1>0, <1>2 DEF OnTheWay, OnePiece
    <3>2. CASE i = n
      <4>1. n \in 1..n /\ n # 0 /\ n + 1 \in n + 1..n + k
        BY <3>2
      <4>2. ~(OfPacket(line, n) = c /\ Place(line, n) = w)
        BY <2>2, <3>2, <4>1, <1>1, <1>2
      <4>3. OfPacket(line, n) = c - 1 /\ w = 0
        BY <4>1, <4>2 DEF OnTheWay, Ends
      <4>4. more[n + 1] = <<c, w + (n + 1 - n)>>
        BY <4>1, <1>0, SMTT(20)
      <4>5. w + (n + 1 - n) = 1 /\ OfPacket(more, n) + 1 = c
        BY <4>1, <4>3, <1>2
      <4>6. QED BY <3>2, <4>4, <4>5
    <3>3. CASE i > n
      <4>1. i \in n + 1..n + k
        BY <3>3
      <4>2. w + (i - n) = Encoded(sz, c)
        BY <2>2, <4>1, <1>3
      <4>3. QED BY <4>1, <4>2, <2>2, <1>1
    <3>4. QED BY <3>1, <3>2, <3>3
  <2>3. QED BY <2>1, <2>2 DEF OnePiece
<1>a. InOrder(more, n + k)
  <2> SUFFICES ASSUME NEW i \in 1..n + k, NEW j \in 1..n + k, i < j
               PROVE  \/ OfPacket(more, i) < OfPacket(more, j)
                      \/ OfPacket(more, i) = OfPacket(more, j) /\ Place(more, i) < Place(more, j)
    BY DEF InOrder
  <2>1. CASE j <= n
    <3>1. i \in 1..n /\ j \in 1..n
      BY <2>1
    <3>2. QED BY <3>1, <1>2 DEF OnTheWay, InOrder
  <2>2. CASE i <= n /\ j > n
    <3>1. i \in 1..n /\ j \in n + 1..n + k
      BY <2>2
    <3>2. OfPacket(more, j) = c /\ Place(more, j) = w + (j - n) /\ j - n > 0
      BY <3>1, <1>3
    <3>3. /\ OfPacket(more, i) \in Nat /\ OfPacket(more, i) <= c /\ Place(more, i) \in Nat
          /\ OfPacket(more, i) = c => Place(more, i) <= w
      BY <3>1, <1>2
    <3>4. QED BY <3>2, <3>3
  <2>3. CASE i > n
    <3>1. i \in n + 1..n + k /\ j \in n + 1..n + k
      BY <2>3
    <3>2. QED BY <3>1, <1>1, <1>3
  <2>4. QED BY <2>1, <2>2, <2>3
<1>5. Begins(more, n + k, due)
  <2>1. CASE n = 0
    <3>1. due = c /\ w = 0 /\ 1 \in n + 1..n + k
      BY <2>1 DEF OnTheWay, Ends
    <3>2. more[1] = <<c, w + (1 - n)>>
      BY <3>1, <1>0
    <3>3. w + (1 - n) = 1
      BY <2>1, <3>1
    <3>4. QED BY <3>1, <3>2, <3>3 DEF Begins
  <2>2. CASE n # 0
    <3>1. 1 \in 1..n /\ n > 0
      BY <2>2
    <3>2. QED BY <3>1, <1>0 DEF OnTheWay, Begins
  <2>3. QED BY <2>1, <2>2
<1>6. n + k \in n + 1..n + k /\ n + k # 0
  OBVIOUS
<1>7. OfPacket(more, n + k) = c /\ Place(more, n + k) = w + k
  <2>1. w + (n + k - n) = w + k
    OBVIOUS
  <2>2. QED BY <1>3, <1>6, <2>1
<1>8. \A i \in 1..n + k : i \in 1..n \/ i \in n + 1..n + k
  OBVIOUS
<1>9. CASE w + k = Encoded(sz, c)
  <2>1. OnlyWritten(more, n + k, sz, due, c + 1, 0)
    <3> SUFFICES ASSUME NEW i \in 1..n + k
                 PROVE  /\ OfPacket(more, i) \in due..c + 1 /\ OfPacket(more, i) # c + 1
                        /\ Place(more, i) \in 1..Encoded(sz, OfPacket(more, i))
      BY DEF OnlyWritten
    <3>1. CASE i \in 1..n
      <4>1. /\ OfPacket(more, i) \in Nat /\ due <= OfPacket(more, i) /\ OfPacket(more, i) <= c
            /\ Encoded(sz, OfPacket(more, i)) \in Nat /\ Place(more, i) \in Nat
            /\ 1 <= Place(more, i) /\ Place(more, i) <= Encoded(sz, OfPacket(more, i))
        BY <3>1, <1>2
      <4>2. QED BY <4>1, <1>1, SMTT(20)
    <3>2. CASE i \in n + 1..n + k
      BY <3>2, <1>1, <1>3
    <3>3. QED BY <1>8, <3>1, <3>2
  <2>2. Ends(more, n + k, sz, due, c + 1, 0)
    BY <1>1, <1>6, <1>7, <1>9 DEF Ends
  <2>3. QED BY <1>1, <1>4, <1>5, <1>9, <1>a, <2>1, <2>2 DEF OnTheWay, OnTheWayThen
<1>10. CASE w + k # Encoded(sz, c)
  <2>1. OnlyWritten(more, n + k, sz, due, c, w + k)
    <3> SUFFICES ASSUME NEW i \in 1..n + k
                 PROVE  /\ OfPacket(more, i) \in due..c
                        /\ Place(more, i) \in 1..Encoded(sz, OfPacket(more, i))
                        /\ OfPacket(more, i) = c => Place(more, i) <= w + k
      BY DEF OnlyWritten
    <3>1. CASE i \in 1..n
      BY <3>1, <1>1, <1>2
    <3>2. CASE i \in n + 1..n + k
      BY <3>2, <1>1, <1>3
    <3>3. QED BY <1>8, <3>1, <3>2
  <2>2. Ends(more, n + k, sz, due, c, w + k)
    BY <1>6, <1>7 DEF Ends
  <2>3. QED BY <1>1, <1>4, <1>5, <1>10, <1>a, <2>1, <2>2, SMTT(20) DEF OnTheWay, OnTheWayThen
<1>11. QED BY <1>9, <1>10

\* The packet at the head is taken out: it is whole, and what follows begins the next one.
LEMMA Shorter ==
    ASSUME NEW line, NEW n \in Nat, NEW sz \in Seq(Nat), NEW due, NEW c \in Nat, NEW w \in Nat,
           OnTheWay(line, n, sz, due, c, w), n > 0, Encoded(sz, due) \in 1..n,
           NEW less, Dropped(less, line, n, Encoded(sz, due))
    PROVE  /\ OnTheWay(less, n - Encoded(sz, due), sz, due + 1, c, w)
           /\ due < c /\ Whole(line, 1, due, Encoded(sz, due))
<1> DEFINE e == Encoded(sz, due)
<1>1. line[1] = <<due, 1>> /\ 1 \in 1..n /\ due \in 1..c /\ due \in Nat
  BY DEF OnTheWay, Begins
<1>2. OfPacket(line, 1) = due /\ Place(line, 1) = 1
  BY <1>1 DEF OfPacket, Place
<1> HIDE DEF e
<1>0. e \in 1..n /\ Encoded(sz, due) = e /\ \A i \in 1..n - e : less[i] = line[i + e]
  BY DEF e, Dropped
<1>3. ASSUME NEW i \in 1..e PROVE line[i] = <<due, i>>
  <2>1. i - 1 \in 0..n - 1 /\ Place(line, 1) + (i - 1) <= Encoded(sz, OfPacket(line, 1))
    BY <1>0, <1>2
  <2>2. line[1 + (i - 1)] = <<OfPacket(line, 1), Place(line, 1) + (i - 1)>>
    BY <1>1, <2>1 DEF OnTheWay, OnePiece
  <2>3. 1 + (i - 1) = i
    OBVIOUS
  <2>4. QED BY <1>2, <2>2, <2>3
<1>4. OfPacket(line, e) = due /\ Place(line, e) = e /\ e \in 1..n
  BY <1>0, <1>3 DEF OfPacket, Place
<1>5. \A i \in 1..n :
        /\ OfPacket(line, i) \in Nat /\ due <= OfPacket(line, i) /\ OfPacket(line, i) <= c
        /\ Encoded(sz, OfPacket(line, i)) \in Nat /\ Place(line, i) \in Nat
        /\ 1 <= Place(line, i) /\ Place(line, i) <= Encoded(sz, OfPacket(line, i))
        /\ OfPacket(line, i) = c => Place(line, i) <= w
  BY PacketBytes
<1>6. \A i \in 1..n - e : /\ i + e \in 1..n /\ OfPacket(less, i) = OfPacket(line, i + e)
                          /\ Place(less, i) = Place(line, i + e)
  BY <1>0 DEF OfPacket, Place
<1>7. due < c
  <2>1. CASE due = c
    <3>1. e <= w /\ w > 0
      BY <1>4, <1>5, <2>1
    <3>2. w < Encoded(sz, due)
      BY <2>1, <3>1 DEF OnTheWay
    <3>3. QED BY <1>0, <3>1, <3>2
  <2>2. QED BY <1>1, <2>1
<1>a. Whole(line, 1, due, e)
  <2>1. \A i \in 1..e : 1 + i - 1 = i
    BY <1>0
  <2>2. QED BY <1>3, <2>1 DEF Whole
<1>8. CASE n = e
  <2>1. due = c - 1 /\ w = 0
    BY <1>4, <1>7, <1>8 DEF OnTheWay, Ends
  <2>2. n - e = 0 /\ due + 1 = c
    BY <1>1, <1>8, <2>1
  <2>3. OnTheWay(less, 0, sz, c, c, 0)
    BY <1>7, <1>1, <2>1 DEF OnTheWay, OnlyWritten, OnePiece, InOrder, Begins, Ends
  <2>4. QED BY <1>0, <1>a, <1>7, <2>1, <2>2, <2>3
<1>9. CASE n # e
  <2>1. e < n /\ n - e > 0 /\ 1 \in 1..n - e /\ n - e \in 1..n - e /\ (n - e) + e = n
    BY <1>0, <1>9
  <2>2. line[e + 1] = <<due + 1, 1>>
    BY <1>0, <1>4, <2>1 DEF OnTheWay, OnePiece
  <2>3. less[1] = <<due + 1, 1>>
    BY <1>0, <2>1, <2>2
  <2>4. \A i \in 1..n - e : OfPacket(less, i) >= due + 1
    <3> SUFFICES ASSUME NEW i \in 1..n - e, OfPacket(less, i) = due PROVE FALSE
      <4>1. \A i \in 1..n - e : OfPacket(less, i) \in Nat /\ due <= OfPacket(less, i)
        BY <1>5, <1>6
      <4>2. QED BY <1>1, <4>1
    <3>1. i + e \in 1..n /\ OfPacket(line, i + e) = due /\ Place(line, i + e) \in 1..e
      BY <1>0, <1>5, <1>6
    <3>2. e < i + e
      BY <1>0
    <3>3. OfPacket(line, e) < OfPacket(line, i + e) \/ Place(line, e) < Place(line, i + e)
      BY <1>4, <3>1, <3>2 DEF OnTheWay, InOrder
    <3>4. QED BY <1>0, <1>1, <1>4, <3>1, <3>3
  <2>5. OnePiece(less, n - e, sz)
    <3> SUFFICES ASSUME NEW i \in 1..n - e
                 PROVE  /\ \A m \in 0..n - e - i :
                             Place(less, i) + m <= Encoded(sz, OfPacket(less, i)) =>
                                 less[i + m] = <<OfPacket(less, i), Place(less, i) + m>>
                        /\ i < n - e /\ Place(less, i) = Encoded(sz, OfPacket(less, i)) =>
                             less[i + 1] = <<OfPacket(less, i) + 1, 1>>
      BY DEF OnePiece
    <3>1. ASSUME NEW m \in 0..n - e - i, Place(less, i) + m <= Encoded(sz, OfPacket(less, i))
          PROVE  less[i + m] = <<OfPacket(less, i), Place(less, i) + m>>
      <4>1. i + e \in 1..n /\ m \in 0..n - (i + e) /\ i + m \in 1..n - e
        BY <1>0
      <4>2. line[(i + e) + m] = <<OfPacket(line, i + e), Place(line, i + e) + m>>
        BY <1>6, <3>1, <4>1 DEF OnTheWay, OnePiece
      <4>3. (i + e) + m = (i + m) + e
        BY <1>0
      <4>4. QED BY <1>0, <1>6, <4>1, <4>2, <4>3
    <3>2. ASSUME i < n - e, Place(less, i) = Encoded(sz, OfPacket(less, i))
          PROVE  less[i + 1] = <<OfPacket(less, i) + 1, 1>>
      <4>1. i + e \in 1..n /\ i + e < n /\ i + 1 \in 1..n - e
        BY <1>0, <3>2
      <4>2. line[(i + e) + 1] = <<OfPacket(line, i + e) + 1, 1>>
        BY <1>6, <3>2, <4>1 DEF OnTheWay, OnePiece
      <4>3. (i + e) + 1 = (i + 1) + e
        BY <1>0
      <4>4. QED BY <1>0, <1>6, <4>1, <4>2, <4>3
    <3>3. QED BY <3>1, <3>2
  <2>6. OnlyWritten(less, n - e, sz, due + 1, c, w)
    <3> SUFFICES ASSUME NEW i \in 1..n - e
                 PROVE  /\ OfPacket(less, i) \in due + 1..c
                        /\ Place(less, i) \in 1..Encoded(sz, OfPacket(less, i))
                        /\ OfPacket(less, i) = c => Place(less, i) <= w
      BY DEF OnlyWritten
    <3>1. /\ OfPacket(less, i) \in Nat /\ OfPacket(less, i) <= c /\ Place(less, i) \in Nat
          /\ Encoded(sz, OfPacket(less, i)) \in Nat /\ 1 <= Place(less, i)
          /\ Place(less, i) <= Encoded(sz, OfPacket(less, i))
          /\ OfPacket(less, i) = c => Place(less, i) <= w
      BY <1>5, <1>6
    <3>2. due + 1 <= OfPacket(less, i)
      BY <2>4
    <3>3. QED BY <1>1, <3>1, <3>2
  <2>7. Ends(less, n - e, sz, due + 1, c, w)
    BY <1>6, <2>1 DEF OnTheWay, Ends
  <2>8. OnTheWay(less, n - e, sz, due + 1, c, w)
    <3>1. InOrder(less, n - e)
      <4> SUFFICES ASSUME NEW i \in 1..n - e, NEW j \in 1..n - e, i < j
                   PROVE  \/ OfPacket(less, i) < OfPacket(less, j)
                          \/ OfPacket(less, i) = OfPacket(less, j) /\ Place(less, i) < Place(less, j)
        BY DEF InOrder
      <4>1. i + e < j + e
        BY <1>0
      <4>2. QED BY <1>6, <4>1 DEF OnTheWay, InOrder
    <3>2. QED BY <1>1, <1>7, <2>3, <2>5, <2>6, <2>7, <3>1 DEF OnTheWay, Begins
  <2>9. QED BY <1>0, <1>a, <1>7, <2>8
<1>10. QED BY <1>8, <1>9
-----------------------------------------------------------------------------
(* The bytes where they are *)

LEMMA Lengths ==
    /\ header \in Nat \ {0} /\ output_mtu \in Nat /\ buf_size = header + output_mtu
    /\ buf_size \in Nat /\ buf_size > 0
BY PacketStreamAssumption DEF buf_size, PACKETPROTO_ENCLEN

LEMMA SizesAreLengths ==
    ASSUME StreamInv
    PROVE  /\ sizes \in Seq(Nat) /\ Len(sizes) \in Nat /\ written \in Nat /\ Coming \in Nat
           /\ Begun \in Nat /\ got \in Nat /\ first \in Nat /\ Due \in Nat
<1>1. sizes \in Seq(Nat)
  <2>1. sizes \in Seq(Sizes) /\ Sizes \subseteq Nat
    BY PacketStreamAssumption DEF StreamInv, StreamTypeOK
  <2>2. Len(sizes) \in Nat /\ sizes \in [1..Len(sizes) -> Sizes]
    BY <2>1, LenProperties
  <2>3. sizes \in [1..Len(sizes) -> Nat]
    BY <2>1, <2>2
  <2>4. QED BY <2>2, <2>3
<1>2. Len(sizes) \in Nat
  BY <1>1
<1>3. written \in Nat /\ got \in Nat /\ first \in Nat
  BY <1>2 DEF StreamInv, StreamTypeOK, Coming
<1>4. Begun \in Nat
  BY <1>1, <1>2 DEF StreamInv, StreamTypeOK, Begun
<1>5. QED BY <1>1, <1>2, <1>3, <1>4 DEF Coming, Due

LEMMA InHand ==
    ASSUME StreamInv, in_len # -1
    PROVE  /\ Len(sizes) >= 1 /\ written = Len(sizes) - 1 /\ Coming = Len(sizes) /\ Begun = in_used
           /\ in_len = Encoded(sizes, Len(sizes)) /\ in_len \in Nat \ {0}
           /\ in_used \in 0..in_len - 1
<1>1. sizes \in Seq(Nat) /\ Len(sizes) \in Nat /\ written \in Nat
  BY SizesAreLengths
<1>2. written = Len(sizes) - 1 /\ in_len = Encoded(sizes, Len(sizes)) /\ in_used \in 0..in_len - 1
  BY DEF StreamInv, SenderInv
<1>3. Len(sizes) >= 1 /\ Coming = Len(sizes)
  BY <1>1, <1>2 DEF Coming
<1>4. sizes[Len(sizes)] \in Nat
  BY <1>1, <1>3
<1>5. in_len \in Nat \ {0}
  BY <1>2, <1>4, PacketStreamAssumption DEF Encoded, PACKETPROTO_ENCLEN
<1>6. QED BY <1>2, <1>3, <1>5 DEF Begun

\* Where data is moved to the front, or from the stream to the buffer, the line stays.
LEMMA LineMoved ==
    ASSUME NEW b, NEW s \in Nat, NEW u \in Nat, s + u <= buf_size, NEW rest \in Seq(Nat \X Nat)
    PROVE  Line(Moved(b, s, u), 0, u, rest) = Line(b, s, u, rest)
<1> DEFINE at(i) == IF i <= u THEN Moved(b, s, u)[0 + i - 1] ELSE rest[i - u]
           was(i) == IF i <= u THEN b[s + i - 1] ELSE rest[i - u]
           n == u + Len(rest)
<1>1. Len(rest) \in Nat
  OBVIOUS
<1>2. ASSUME NEW i \in 1..n PROVE at(i) = was(i)
  <2>1. CASE i <= u
    <3>1. 0 + i - 1 \in Places /\ 0 + i - 1 < u /\ s + (0 + i - 1) = s + i - 1
      BY <1>1, <2>1, Lengths DEF Places
    <3>2. Moved(b, s, u)[0 + i - 1] = b[s + (0 + i - 1)]
      BY <3>1 DEF Moved
    <3>3. QED BY <2>1, <3>1, <3>2
  <2>2. CASE ~(i <= u)
    BY <2>2
  <2>3. QED BY <2>1, <2>2
<1>3. [i \in 1..n |-> at(i)] = [i \in 1..n |-> was(i)]
  BY <1>2
<1>4. QED BY <1>3 DEF Line

\* n bytes of the stream, read to where the data in the buffer ends.
ReadTo(at, n) == [i \in Places |-> IF i \in at..at + n - 1 THEN stream[i - at + 1] ELSE buf[i]]

LEMMA LineRead ==
    ASSUME StreamInv, NEW n \in Nat, n <= Len(stream), n <= Room
    PROVE  /\ DOMAIN ReadTo(buf_start + buf_used, n) = Places
           /\ SubSeq(stream, n + 1, Len(stream)) \in Seq(Nat \X Nat)
           /\ Len(SubSeq(stream, n + 1, Len(stream))) = Len(stream) - n
           /\ Line(ReadTo(buf_start + buf_used, n), buf_start, buf_used + n,
                   SubSeq(stream, n + 1, Len(stream))) = Line(buf, buf_start, buf_used, stream)
<1> DEFINE rest == SubSeq(stream, n + 1, Len(stream))
           s == buf_start
           u == buf_used
           b == ReadTo(s + u, n)
           N == u + Len(stream)
           at(i) == IF i <= u + n THEN b[s + i - 1] ELSE rest[i - (u + n)]
           was(i) == IF i <= u THEN buf[s + i - 1] ELSE stream[i - u]
<1>1. /\ stream \in Seq(Nat \X Nat) /\ Len(stream) \in Nat
      /\ s \in Nat /\ u \in Nat /\ s + u + n <= buf_size
  BY Lengths DEF StreamInv, StreamTypeOK, Places, Room
<1>2. /\ rest \in Seq(Nat \X Nat) /\ Len(rest) = Len(stream) - n
      /\ \A i \in 1..Len(stream) - n : rest[i] = stream[n + i]
  BY <1>1
<1>3. DOMAIN b = Places /\ \A i \in Places :
        b[i] = IF i \in s + u..s + u + n - 1 THEN stream[i - (s + u) + 1] ELSE buf[i]
  BY DEF ReadTo
<1> HIDE DEF rest, b
<1>4. ASSUME NEW i \in 1..N PROVE at(i) = was(i)
  <2>1. CASE i <= u
    <3>1. s + i - 1 \in Places /\ ~(s + i - 1 \in s + u..s + u + n - 1)
      BY <1>1, <2>1, Lengths DEF Places
    <3>2. b[s + i - 1] = buf[s + i - 1]
      BY <1>3, <3>1
    <3>3. i <= u + n
      BY <1>1, <2>1
    <3>4. QED BY <2>1, <3>2, <3>3
  <2>2. CASE i > u /\ i <= u + n
    <3> DEFINE j == s + i - 1
    <3>1. j \in Places /\ j \in s + u..s + u + n - 1 /\ j - (s + u) + 1 = i - u
      BY <1>1, <2>2, Lengths DEF Places
    <3> HIDE DEF j
    <3>2. b[j] = stream[j - (s + u) + 1]
      BY <1>3, <3>1
    <3>3. ~(i <= u)
      BY <1>1, <2>2
    <3>4. at(i) = b[j] /\ was(i) = stream[i - u]
      BY <2>2, <3>3 DEF j
    <3>5. QED BY <3>1, <3>2, <3>4
  <2>3. CASE i > u + n
    <3>1. i - (u + n) \in 1..Len(stream) - n /\ n + (i - (u + n)) = i - u
      BY <1>1, <2>3
    <3>2. rest[i - (u + n)] = stream[n + (i - (u + n))]
      BY <1>2, <3>1
    <3>3. ~(i <= u) /\ ~(i <= u + n)
      BY <1>1, <2>3
    <3>4. at(i) = rest[i - (u + n)] /\ was(i) = stream[i - u]
      BY <3>3
    <3>5. QED BY <3>1, <3>2, <3>4
  <2>4. QED BY <1>1, <2>1, <2>2, <2>3
<1>5. [i \in 1..N |-> at(i)] = [i \in 1..N |-> was(i)]
  BY <1>4
<1>6. (u + n) + Len(rest) = N
  BY <1>1, <1>2
<1>7. Line(b, s, u + n, rest) = [i \in 1..N |-> at(i)]
  BY <1>6 DEF Line
<1>8. Line(buf, s, u, stream) = [i \in 1..N |-> was(i)]
  BY DEF Line
<1>9. QED BY <1>2, <1>3, <1>5, <1>7, <1>8 DEF rest, b

\* The packet at place s is taken out of the buffer.
LEMMA LineDropped ==
    ASSUME NEW b, NEW s \in Nat, NEW u \in Nat, NEW rest \in Seq(Nat \X Nat), NEW e \in 1..u
    PROVE  Dropped(Line(b, s + e, u - e, rest), Line(b, s, u, rest), u + Len(rest), e)
<1>1. Len(rest) \in Nat
  OBVIOUS
<1> SUFFICES ASSUME NEW i \in 1..(u + Len(rest)) - e
             PROVE  Line(b, s + e, u - e, rest)[i] = Line(b, s, u, rest)[i + e]
  BY DEF Dropped
<1>2. i \in 1..(u - e) + Len(rest) /\ i + e \in 1..u + Len(rest)
  BY <1>1
<1>3. Line(b, s + e, u - e, rest)[i] = IF i <= u - e THEN b[s + e + i - 1] ELSE rest[i - (u - e)]
  BY <1>2 DEF Line
<1>4. Line(b, s, u, rest)[i + e] = IF i + e <= u THEN b[s + (i + e) - 1] ELSE rest[(i + e) - u]
  BY <1>2 DEF Line
<1>5. /\ (i <= u - e) = (i + e <= u) /\ s + e + i - 1 = s + (i + e) - 1
      /\ i - (u - e) = (i + e) - u
  BY <1>2
<1>6. QED BY <1>3, <1>4, <1>5

\* The stream is longer by n bytes of the packet that is written.
LEMMA LineAppended ==
    ASSUME NEW b, NEW s \in Nat, NEW u \in Nat, NEW rest \in Seq(Nat \X Nat),
           NEW p \in Nat, NEW w \in Nat, NEW n \in Nat \ {0}
    PROVE  /\ rest \o Bytes(p, w, n) \in Seq(Nat \X Nat)
           /\ Len(rest \o Bytes(p, w, n)) = Len(rest) + n
           /\ Appended(Line(b, s, u, rest \o Bytes(p, w, n)), Line(b, s, u, rest),
                       u + Len(rest), n, p, w)
<1> DEFINE t == Bytes(p, w, n)
           r == rest \o t
<1>1. Len(rest) \in Nat
  OBVIOUS
<1>2. t \in Seq(Nat \X Nat) /\ Len(t) = n /\ \A i \in 1..n : t[i] = <<p, w + i>>
  BY DEF Bytes
<1> HIDE DEF t
<1>3. /\ r \in Seq(Nat \X Nat) /\ Len(r) = Len(rest) + n
      /\ \A i \in 1..Len(rest) + n : r[i] = IF i <= Len(rest) THEN rest[i] ELSE t[i - Len(rest)]
  BY <1>2, ConcatProperties, ZenonT(30)
<1> HIDE DEF r
<1>4. ASSUME NEW i \in 1..u + Len(rest) PROVE Line(b, s, u, r)[i] = Line(b, s, u, rest)[i]
  <2>1. i \in 1..u + Len(r)
    BY <1>1, <1>3
  <2>2. Line(b, s, u, r)[i] = IF i <= u THEN b[s + i - 1] ELSE r[i - u]
    BY <2>1 DEF Line
  <2>3. Line(b, s, u, rest)[i] = IF i <= u THEN b[s + i - 1] ELSE rest[i - u]
    BY DEF Line
  <2>4. CASE i <= u
    BY <2>2, <2>3, <2>4
  <2>5. CASE ~(i <= u)
    <3>1. i - u \in 1..Len(rest) + n /\ i - u <= Len(rest)
      BY <1>1, <2>5
    <3>2. QED BY <1>3, <2>2, <2>3, <2>5, <3>1
  <2>6. QED BY <2>4, <2>5
<1>5. ASSUME NEW i \in u + Len(rest) + 1..u + Len(rest) + n
      PROVE  Line(b, s, u, r)[i] = <<p, w + (i - (u + Len(rest)))>>
  <2>1. /\ i \in 1..u + Len(r) /\ ~(i <= u) /\ i - u \in 1..Len(rest) + n
        /\ ~(i - u <= Len(rest)) /\ i - u - Len(rest) \in 1..n
        /\ i - u - Len(rest) = i - (u + Len(rest))
    BY <1>1, <1>3
  <2>2. Line(b, s, u, r)[i] = r[i - u]
    BY <2>1 DEF Line
  <2>3. r[i - u] = t[i - u - Len(rest)]
    BY <1>3, <2>1
  <2>4. QED BY <1>2, <2>1, <2>2, <2>3
<1>6. QED BY <1>3, <1>4, <1>5 DEF Appended, r, t

-----------------------------------------------------------------------------
(* The steps *)

\* A packet more that is sent changes nothing of those before it.
LEMMA OneMoreSent ==
    ASSUME NEW line, NEW n \in Nat, NEW sz \in Seq(Nat), NEW due, NEW c \in Nat,
           OnTheWay(line, n, sz, due, c, 0), NEW plen \in Nat
    PROVE  OnTheWay(line, n, Append(sz, plen), due, c, 0)
<1> DEFINE more == Append(sz, plen)
<1>1. /\ Len(sz) \in Nat /\ more \in Seq(Nat) /\ Len(more) = Len(sz) + 1
      /\ \A p \in 1..Len(sz) : Encoded(more, p) = Encoded(sz, p)
  BY AppendProperties DEF Encoded
<1> HIDE DEF more
<1>2. \A i \in 1..n : /\ OfPacket(line, i) \in 1..Len(sz)
                      /\ Encoded(more, OfPacket(line, i)) = Encoded(sz, OfPacket(line, i))
  BY PacketBytes, <1>1
<1>3. OnlyWritten(line, n, more, due, c, 0)
  BY <1>2 DEF OnTheWay, OnlyWritten
<1>4. OnePiece(line, n, more)
  BY <1>2 DEF OnTheWay, OnePiece
<1>5. Ends(line, n, more, due, c, 0)
  <2>1. CASE n = 0
    BY <2>1 DEF OnTheWay, Ends
  <2>2. CASE n # 0
    <3>1. n \in 1..n
      BY <2>2
    <3>2. QED BY <2>2, <3>1, <1>2 DEF OnTheWay, Ends
  <2>3. QED BY <2>1, <2>2
<1>6. due \in 1..c /\ c - 1 <= Len(more)
  BY <1>1 DEF OnTheWay
<1>7. QED BY <1>3, <1>4, <1>5, <1>6 DEF OnTheWay, more

\* The bytes in the buffer begin with the packet that is due, if there are any.
LEMMA AtHead ==
    ASSUME NEW b, NEW s \in Nat, NEW u \in Nat, NEW rest \in Seq(Nat \X Nat),
           NEW sz \in Seq(Nat), NEW due \in Nat, NEW c \in Nat, NEW w \in Nat,
           InLine(b, s, u, rest, sz, due, c, w), u > 0
    PROVE  b[s] = <<due, 1>> /\ due \in 1..Len(sz) /\ sz[due] \in Nat
<1> DEFINE line == Line(b, s, u, rest)
           n == u + Len(rest)
<1>1. Len(rest) \in Nat
  OBVIOUS
<1>2. n \in Nat /\ n > 0 /\ 1 \in 1..n /\ s + 1 - 1 = s /\ 1 <= u
  BY <1>1
<1>3. line[1] = b[s + 1 - 1]
  BY <1>2 DEF Line
<1>4. OnTheWay(line, n, sz, due, c, w)
  BY DEF InLine
<1> HIDE DEF line, n
<1>5. line[1] = <<due, 1>>
  BY <1>2, <1>4 DEF OnTheWay, Begins
<1>6. OfPacket(line, 1) \in 1..Len(sz)
  BY <1>2, <1>4, PacketBytes
<1>7. b[s] = <<due, 1>>
  BY <1>2, <1>3, <1>5
<1>8. due \in 1..Len(sz)
  BY <1>5, <1>6 DEF OfPacket
<1>9. QED BY <1>7, <1>8

\* When it is whole it can be cut off, and what is left is in line.
LEMMA CutOff ==
    ASSUME NEW b, NEW s \in Nat, NEW u \in Nat, NEW rest \in Seq(Nat \X Nat),
           NEW sz \in Seq(Nat), NEW due, NEW c \in Nat, NEW w \in Nat,
           InLine(b, s, u, rest, sz, due, c, w), Encoded(sz, due) \in 1..u
    PROVE  /\ InLine(b, s + Encoded(sz, due), u - Encoded(sz, due), rest, sz, due + 1, c, w)
           /\ due < c /\ Whole(b, s, due, Encoded(sz, due))
<1> DEFINE e == Encoded(sz, due)
           line == Line(b, s, u, rest)
           less == Line(b, s + e, u - e, rest)
           n == u + Len(rest)
<1>1. Len(rest) \in Nat
  OBVIOUS
<1>2. n \in Nat /\ n > 0 /\ e \in 1..n /\ e \in Nat /\ (u - e) + Len(rest) = n - e
  BY <1>1
<1>3. Dropped(less, line, n, e)
  BY LineDropped
<1>4. \A i \in 1..e : line[1 + i - 1] = b[s + i - 1]
  <2>1. \A i \in 1..e : 1 + i - 1 = i /\ i \in 1..u + Len(rest) /\ i <= u
    BY <1>1
  <2>2. QED BY <2>1 DEF Line
<1>5. OnTheWay(line, n, sz, due, c, w)
  BY DEF InLine
<1> HIDE DEF line, n, less
<1>6. OnTheWay(less, n - e, sz, due + 1, c, w) /\ due < c /\ Whole(line, 1, due, e)
  <2>1. Encoded(sz, due) \in 1..n /\ Dropped(less, line, n, Encoded(sz, due)) /\ n \in Nat /\ n > 0
    BY <1>2, <1>3
  <2>2. QED BY <1>5, <2>1, Shorter
<1>7. InLine(b, s + e, u - e, rest, sz, due + 1, c, w)
  BY <1>2, <1>6 DEF InLine, less
<1>8. Whole(b, s, due, e)
  BY <1>4, <1>6 DEF Whole
<1>9. QED BY <1>6, <1>7, <1>8

LEMMA Disconnect ==
    ASSUME StreamInv, DisconnectOutput, misread' = FALSE
    PROVE  StreamInv'
<1>1. /\ connected' = FALSE /\ stream' = <<>> /\ in_len' = in_len /\ in_used' = 0
      /\ DOMAIN buf' = Places /\ buf_start' = 0 /\ buf_used' = 0 /\ passing' = FALSE
      /\ sizes' = sizes /\ written' = written /\ streams' = streams /\ first' = first
      /\ got' = got
  BY DEF DisconnectOutput, Kept, NewDecoder
<1>2. /\ sizes \in Seq(Nat) /\ Len(sizes) \in Nat
      /\ buf_size \in Nat \ {0} /\ 0 \in Places
  BY SizesAreLengths, Lengths DEF Places
<1>3. in_len # -1 => in_len \in Nat /\ in_len > 0
  BY InHand
<1>4. StreamTypeOK'
  <2>1. /\ sizes' \in Seq(Sizes) /\ Len(sizes') <= MaxPackets
        /\ connected' \in BOOLEAN /\ passing' \in BOOLEAN /\ misread' \in BOOLEAN
        /\ streams' \in 0..MaxStreams /\ {written', got'} \subseteq 0..Len(sizes')
    BY <1>1 DEF StreamInv, StreamTypeOK
  <2>2. in_len' = -1 \/ in_used' \in 0..in_len'
    BY <1>1, <1>3
  <2>3. /\ buf_start' \in Places \cup {buf_size} /\ buf_used' \in 0..buf_size - buf_start'
    BY <1>1, <1>2
  <2>4. QED BY <1>1, <2>1, <2>2, <2>3 DEF StreamTypeOK, Places, buf_size, PACKETPROTO_ENCLEN
<1>5. SenderInv'
  BY <1>1, <1>3 DEF StreamInv, SenderInv, Encoded, PACKETPROTO_ENCLEN
<1>6. DecoderInv'
  BY <1>1 DEF DecoderInv, Begun
<1>7. stream' \in Seq(Nat \X Nat)
  BY <1>1
<1>8. QED BY <1>1, <1>4, <1>5, <1>6, <1>7 DEF StreamInv, NeverMisread, RoomWhenAsked, Coming

\* Whatever the buffer and the stream hold: what process_data does keeps the invariant, and
\* what it gives out is what is due.
LEMMA Process ==
    ASSUME StreamInv, connected,
           NEW b, DOMAIN b = Places, NEW s \in Nat, NEW u \in Nat, s + u <= buf_size,
           NEW rest \in Seq(Nat \X Nat),
           InLine(b, s, u, rest, sizes, Due, Coming, Begun),
           process_data(b, s, u, rest)
    PROVE  StreamInv' /\ (got' # got => got' = Due)
<1> DEFINE e == Encoded(sizes, Due)
<1>1. /\ sizes \in Seq(Nat) /\ Len(sizes) \in Nat /\ written \in Nat /\ Coming \in Nat
      /\ Begun \in Nat /\ got \in Nat /\ first \in Nat /\ Due \in Nat
  BY SizesAreLengths
<1>2. ASSUME HasHeader(u)
      PROVE  /\ u > 0 /\ b[s] = <<Due, 1>> /\ Due \in 1..Len(sizes) /\ ~Misplaced(b, s)
             /\ data_len(b, s) = sizes[Due] /\ sizes[Due] \in Nat
             /\ PACKETPROTO_ENCLEN(data_len(b, s)) = e
             /\ e \in Nat \ {0} /\ e = header + sizes[Due]
  <2>1. u > 0
    BY <1>2, Lengths DEF HasHeader
  <2>2. b[s] = <<Due, 1>> /\ Due \in 1..Len(sizes) /\ sizes[Due] \in Nat
    BY <2>1, <1>1, AtHead
  <2>3. b[s][1] = Due /\ b[s][2] = 1
    BY <2>2
  <2>4. ~Misplaced(b, s) /\ data_len(b, s) = sizes[Due]
    BY <2>3 DEF Misplaced, data_len
  <2>5. e = header + sizes[Due] /\ PACKETPROTO_ENCLEN(data_len(b, s)) = e
    BY <2>4 DEF Encoded, PACKETPROTO_ENCLEN
  <2>6. QED BY <2>1, <2>2, <2>4, <2>5, Lengths
<1> HIDE DEF e
<1>0. misread = FALSE
  BY DEF StreamInv, StreamTypeOK, NeverMisread
<1>3. CASE HasHeader(u) /\ data_len(b, s) > output_mtu
  <2>1. DisconnectOutput /\ misread' = (misread \/ Misplaced(b, s))
    BY <1>3 DEF process_data
  <2>2. misread' = FALSE /\ got' = got
    BY <1>0, <1>2, <1>3, <2>1 DEF DisconnectOutput
  <2>3. QED BY <2>1, <2>2, Disconnect
<1>4. CASE HasHeader(u) /\ ~(data_len(b, s) > output_mtu) /\ HasPacket(b, s, u)
  <2>1. Pass(b, s, u) /\ stream' = rest
    BY <1>2, <1>4 DEF process_data
  <2>2. e \in 1..u /\ b[s][1] = Due
    BY <1>2, <1>4 DEF HasPacket
  <2>3. /\ buf' = b /\ buf_start' = s + e /\ buf_used' = u - e /\ passing' = TRUE
        /\ got' = Due
        /\ misread' = (misread \/ [i \in 1..e |-> b[s + i - 1]] # Bytes(Due, 0, e))
        /\ UNCHANGED <<sender, link>>
    BY <1>2, <1>4, <2>1, <2>2 DEF Pass
  <2>4. /\ sizes' = sizes /\ in_len' = in_len /\ in_used' = in_used /\ written' = written
        /\ connected' = connected /\ streams' = streams /\ first' = first
    BY <2>3 DEF sender, link
  <2>9. /\ InLine(b, s + e, u - e, rest, sizes, Due + 1, Coming, Begun)
        /\ Due < Coming /\ Whole(b, s, Due, e)
    BY <1>1, <2>2, CutOff DEF e
  <2>10. misread' = FALSE
    <3>1. \A i \in 1..e : b[s + i - 1] = <<Due, 0 + i>>
      BY <2>9 DEF Whole
    <3>2. [i \in 1..e |-> b[s + i - 1]] = Bytes(Due, 0, e)
      BY <3>1 DEF Bytes
    <3>3. QED BY <2>3, <3>2 DEF StreamInv, StreamTypeOK, NeverMisread
  <2>11. Due' = Due + 1 /\ Coming' = Coming /\ Begun' = Begun
    <3>1. Due >= first
      BY <1>1 DEF Due
    <3>2. Due' = IF Due < first THEN first ELSE Due + 1
      BY <2>3, <2>4 DEF Due
    <3>3. QED BY <1>1, <2>4, <3>1, <3>2 DEF Coming, Begun
  <2>13. DecoderInv'
    <3>1. InLine(buf', buf_start', buf_used', stream', sizes', Due', Coming', Begun')
      BY <2>1, <2>3, <2>4, <2>9, <2>11
    <3>2. QED BY <2>4, <3>1 DEF DecoderInv
  <2>14. StreamTypeOK'
    <3>1. /\ buf_start' \in Places \cup {buf_size} /\ buf_used' \in 0..buf_size - buf_start'
          /\ DOMAIN buf' = Places
      <4>1. /\ s + e \in Nat /\ s + e <= buf_size /\ u - e \in Nat
            /\ u - e <= buf_size - (s + e)
        BY <2>2, Lengths
      <4>2. s + e \in Places \cup {buf_size} /\ u - e \in 0..buf_size - (s + e)
        BY <4>1, Lengths DEF Places
      <4>3. QED BY <2>3, <4>2
    <3>2. got' \in 0..Len(sizes)
      BY <1>1, <1>2, <1>4, <2>3
    <3>3. QED BY <2>3, <2>4, <2>10, <3>1, <3>2
              DEF StreamInv, StreamTypeOK, Places, buf_size, PACKETPROTO_ENCLEN
  <2>15. SenderInv' /\ got' <= written' /\ first' \in 1..Coming'
    <3>1. SenderInv'
      BY <2>4 DEF StreamInv, SenderInv, Encoded, PACKETPROTO_ENCLEN
    <3>2. Due <= written
      BY <1>1, <2>9 DEF Coming
    <3>3. QED BY <2>3, <2>4, <2>11, <3>1, <3>2 DEF StreamInv
  <2>16. NeverMisread' /\ RoomWhenAsked'
    BY <2>3, <2>10 DEF NeverMisread, RoomWhenAsked
  <2>17. stream' \in Seq(Nat \X Nat)
    BY <2>1
  <2>18. QED BY <2>3, <2>13, <2>14, <2>15, <2>16, <2>17 DEF StreamInv
<1>5. CASE ~(HasHeader(u) /\ data_len(b, s) > output_mtu) /\ ~(HasHeader(u) /\ HasPacket(b, s, u))
  <2>1. Receive(b, s, u) /\ stream' = rest
    BY <1>2, <1>5 DEF process_data
  <2>2. /\ buf' = IF AtEnd(s, u) THEN Moved(b, s, u) ELSE b
        /\ buf_start' = IF AtEnd(s, u) THEN 0 ELSE s
        /\ buf_used' = u /\ passing' = FALSE
        /\ got' = got /\ misread' = misread
        /\ sizes' = sizes /\ in_len' = in_len /\ in_used' = in_used /\ written' = written
        /\ connected' = connected /\ streams' = streams /\ first' = first
    BY <2>1 DEF Receive, sender, link
  <2>3. ~(s = 0 /\ u = buf_size)
    <3> SUFFICES ASSUME u = buf_size PROVE FALSE
      OBVIOUS
    <3>1. HasHeader(u)
      BY Lengths, PacketStreamAssumption DEF HasHeader
    <3>2. e <= u
      BY <1>2, <1>5, <3>1, Lengths, PacketStreamAssumption
    <3>3. HasPacket(b, s, u)
      BY <1>2, <3>1, <3>2 DEF HasPacket
    <3>4. QED BY <1>5, <3>1, <3>3
  <2>4. buf_start' + u < buf_size /\ buf_start' \in Nat
    <3>1. CASE AtEnd(s, u)
      <4>1. u < buf_size
        BY <2>3, <3>1, Lengths DEF AtEnd
      <4>2. QED BY <2>2, <3>1, <4>1
    <3>2. CASE ~AtEnd(s, u)
      <4>0. s + u # buf_size
        BY <3>2 DEF AtEnd
      <4>1. s + u < buf_size
        BY <4>0, Lengths
      <4>2. QED BY <2>2, <3>2, <4>1
    <3>3. QED BY <3>1, <3>2
  <2>5. Line(buf', buf_start', u, rest) = Line(b, s, u, rest)
    BY <2>2, LineMoved
  <2>6. Due' = Due /\ Coming' = Coming /\ Begun' = Begun
    BY <2>2 DEF Due, Coming, Begun
  <2>7. DecoderInv'
    <3>1. InLine(buf', buf_start', u, rest, sizes', Due', Coming', Begun')
      BY <2>2, <2>5, <2>6 DEF InLine
    <3>2. QED BY <2>1, <2>2, <3>1 DEF DecoderInv
  <2>8. StreamTypeOK'
    <3>1. /\ buf_start' \in Places \cup {buf_size} /\ buf_used' \in 0..buf_size - buf_start'
      BY <2>2, <2>4, Lengths DEF Places
    <3>2. DOMAIN buf' = Places
      BY <2>2 DEF Moved
    <3>3. QED BY <2>2, <3>1, <3>2
              DEF StreamInv, StreamTypeOK, Places, buf_size, PACKETPROTO_ENCLEN
  <2>9. SenderInv' /\ got' <= written' /\ first' \in 1..Coming'
    BY <2>2, <2>6 DEF StreamInv, SenderInv, Encoded, PACKETPROTO_ENCLEN
  <2>10. NeverMisread' /\ RoomWhenAsked'
    <3>1. Room' > 0
      BY <2>2, <2>4, Lengths DEF Room, buf_size, PACKETPROTO_ENCLEN
    <3>2. QED BY <2>2, <3>1 DEF StreamInv, NeverMisread, RoomWhenAsked
  <2>11. stream' \in Seq(Nat \X Nat)
    BY <2>1
  <2>12. QED BY <2>2, <2>7, <2>8, <2>9, <2>10, <2>11 DEF StreamInv
<1>6. QED BY <1>3, <1>4, <1>5

-----------------------------------------------------------------------------
(* The theorems *)

\* What a step may give out: nothing, or the packet that is due.
GivesWhatIsDue == got' # got => got' = Due

LEMMA Sent ==
    ASSUME StreamInv, NEW plen \in Sizes, PacketPassConnector_input_handler_send(plen)
    PROVE  StreamInv' /\ GivesWhatIsDue
<1>1. /\ sizes \in Seq(Nat) /\ Len(sizes) \in Nat /\ written \in Nat /\ Coming \in Nat
      /\ Begun \in Nat /\ got \in Nat /\ first \in Nat /\ Due \in Nat
  BY SizesAreLengths
<1>2. /\ in_len = -1 /\ Len(sizes) < MaxPackets /\ sizes' = Append(sizes, plen)
      /\ in_len' = header + plen /\ in_used' = 0 /\ written' = written
      /\ buf' = buf /\ buf_start' = buf_start /\ buf_used' = buf_used /\ passing' = passing
      /\ got' = got /\ misread' = misread /\ connected' = connected /\ streams' = streams
      /\ first' = first /\ stream' = stream
  BY DEF PacketPassConnector_input_handler_send, decoder, link, PACKETPROTO_ENCLEN
<1>3. plen \in Nat /\ header \in Nat \ {0} /\ sizes \in Seq(Sizes)
  BY PacketStreamAssumption DEF StreamInv, StreamTypeOK
<1>4. /\ sizes' \in Seq(Sizes) /\ sizes' \in Seq(Nat) /\ Len(sizes') = Len(sizes) + 1
      /\ sizes'[Len(sizes) + 1] = plen
  BY <1>1, <1>2, <1>3, AppendProperties
<1>5. written = Len(sizes) /\ Begun = 0 /\ Begun' = 0 /\ Due' = Due /\ Coming' = Coming
  BY <1>2 DEF StreamInv, SenderInv, Begun, Due, Coming
<1>6. StreamTypeOK'
  <2>1. Len(sizes') <= MaxPackets /\ {written', got'} \subseteq 0..Len(sizes')
    BY <1>1, <1>2, <1>4, PacketStreamAssumption DEF StreamInv, StreamTypeOK
  <2>2. in_used' \in 0..in_len'
    BY <1>2, <1>3
  <2>3. QED BY <1>2, <1>4, <2>1, <2>2
            DEF StreamInv, StreamTypeOK, Places, buf_size, PACKETPROTO_ENCLEN
<1>7. SenderInv'
  BY <1>1, <1>2, <1>3, <1>4, <1>5 DEF SenderInv, Encoded, PACKETPROTO_ENCLEN
<1>8. DecoderInv'
  <2>1. CASE connected
    <3>1. InLine(buf, buf_start, buf_used, stream, sizes, Due, Coming, 0)
      BY <1>5, <2>1 DEF StreamInv, DecoderInv
    <3>2. buf_used + Len(stream) \in Nat
      BY Lengths DEF StreamInv, StreamTypeOK, Places
    <3>3. OnTheWay(Line(buf, buf_start, buf_used, stream), buf_used + Len(stream),
                   Append(sizes, plen), Due, Coming, 0)
      BY <1>1, <1>3, <3>1, <3>2, OneMoreSent DEF InLine
    <3>4. InLine(buf', buf_start', buf_used', stream', sizes', Due', Coming', Begun')
      BY <1>2, <1>5, <3>3 DEF InLine
    <3>5. QED BY <1>2, <2>1, <3>4 DEF DecoderInv
  <2>2. CASE ~connected
    BY <1>2, <1>5, <2>2 DEF StreamInv, DecoderInv
  <2>3. QED BY <2>1, <2>2
<1>9. NeverMisread' /\ RoomWhenAsked'
  BY <1>2 DEF StreamInv, NeverMisread, RoomWhenAsked, Room, buf_size, PACKETPROTO_ENCLEN
<1>10. /\ stream' \in Seq(Nat \X Nat) /\ got' <= written' /\ first' \in 1..Coming'
  BY <1>2, <1>5 DEF StreamInv
<1>11. QED BY <1>2, <1>6, <1>7, <1>8, <1>9, <1>10 DEF StreamInv, GivesWhatIsDue

LEMMA Written ==
    ASSUME StreamInv, NEW n \in Nat, Write(n)
    PROVE  StreamInv' /\ GivesWhatIsDue
<1>1. /\ sizes \in Seq(Nat) /\ Len(sizes) \in Nat /\ written \in Nat /\ Coming \in Nat
      /\ Begun \in Nat /\ got \in Nat /\ first \in Nat /\ Due \in Nat
  BY SizesAreLengths
<1>2. /\ connected /\ in_len # -1 /\ n \in 1..in_len - in_used
      /\ stream' = stream \o Bytes(Len(sizes), in_used, n) /\ in_used' = in_used + n
      /\ in_used + n = in_len => in_len' = -1 /\ written' = Len(sizes)
      /\ in_used + n # in_len => in_len' = in_len /\ written' = written
      /\ sizes' = sizes
      /\ buf' = buf /\ buf_start' = buf_start /\ buf_used' = buf_used /\ passing' = passing
      /\ got' = got /\ misread' = misread /\ connected' = connected /\ streams' = streams
      /\ first' = first
  BY DEF Write, decoder, link
<1>3. /\ Len(sizes) >= 1 /\ written = Len(sizes) - 1 /\ Coming = Len(sizes) /\ Begun = in_used
      /\ in_len = Encoded(sizes, Len(sizes)) /\ in_len \in Nat \ {0}
      /\ in_used \in 0..in_len - 1
  BY <1>2, InHand
<1>4. n \in Nat \ {0} /\ in_used \in Nat /\ in_used + n <= in_len
  BY <1>2, <1>3
<1>5. Due' = Due
  BY <1>2 DEF Due
<1>6. IF in_used + n = in_len
      THEN Coming' = Coming + 1 /\ Begun' = 0 /\ in_len' = -1 /\ written' = Len(sizes)
      ELSE Coming' = Coming /\ Begun' = in_used + n /\ in_len' = in_len /\ written' = written
  BY <1>1, <1>2, <1>3 DEF Coming, Begun
<1>7. stream' \in Seq(Nat \X Nat) /\ DecoderInv'
  <2> DEFINE line == Line(buf, buf_start, buf_used, stream)
             more == Line(buf, buf_start, buf_used, stream')
             N == buf_used + Len(stream)
  <2>1. /\ stream \in Seq(Nat \X Nat) /\ buf_start \in Nat /\ buf_used \in Nat
        /\ Len(stream) \in Nat /\ N \in Nat
    BY Lengths DEF StreamInv, StreamTypeOK, Places
  <2>2. /\ stream' \in Seq(Nat \X Nat) /\ Len(stream') = Len(stream) + n
        /\ Appended(more, line, N, n, Len(sizes), in_used)
    BY <1>1, <1>2, <1>4, <2>1, LineAppended
  <2>3. buf_used + Len(stream') = N + n
    BY <1>4, <2>1, <2>2
  <2>4. OnTheWay(line, N, sizes, Due, Len(sizes), in_used)
    BY <1>2, <1>3 DEF StreamInv, DecoderInv, InLine
  <2> HIDE DEF line, more, N
  <2>5. OnTheWayThen(more, N + n, sizes, Due, Len(sizes), in_used + n)
    <3>1. Len(sizes) <= Len(sizes) /\ in_used + n <= Encoded(sizes, Len(sizes))
      BY <1>1, <1>3, <1>4
    <3>2. QED BY <1>1, <1>4, <2>1, <2>2, <2>4, <3>1, Longer
  <2>6. OnTheWay(more, N + n, sizes, Due, Coming', Begun')
    BY <1>3, <1>6, <2>5 DEF OnTheWayThen
  <2>7. InLine(buf', buf_start', buf_used', stream', sizes', Due', Coming', Begun')
    BY <1>2, <1>5, <2>3, <2>6 DEF InLine, more
  <2>8. QED BY <1>2, <2>2, <2>7 DEF DecoderInv
<1>8. StreamTypeOK'
  <2>1. in_len' = -1 \/ in_used' \in 0..in_len'
    BY <1>2, <1>3, <1>4, <1>6
  <2>2. written' \in 0..Len(sizes') /\ got' \in 0..Len(sizes')
    <3>1. written' = written \/ written' = Len(sizes)
      BY <1>6
    <3>2. written \in 0..Len(sizes) /\ got \in 0..Len(sizes)
      BY DEF StreamInv, StreamTypeOK
    <3>3. QED BY <1>1, <1>2, <3>1, <3>2
  <2>3. QED BY <1>2, <2>1, <2>2
            DEF StreamInv, StreamTypeOK, Places, buf_size, PACKETPROTO_ENCLEN
<1>9. SenderInv'
  <2>1. CASE in_used + n = in_len
    BY <1>2, <1>6, <2>1 DEF SenderInv
  <2>2. CASE in_used + n # in_len
    <3>1. in_len' = in_len /\ written' = written /\ in_used' = in_used + n
      BY <1>2, <2>2
    <3>2. in_used + n \in 0..in_len - 1
      BY <1>3, <1>4, <2>2
    <3>3. Encoded(sizes, Len(sizes))' = Encoded(sizes, Len(sizes))
      BY <1>2 DEF Encoded, PACKETPROTO_ENCLEN
    <3>4. QED BY <1>2, <1>3, <3>1, <3>2, <3>3 DEF SenderInv
  <2>3. QED BY <2>1, <2>2
<1>10. NeverMisread' /\ RoomWhenAsked'
  BY <1>2 DEF StreamInv, NeverMisread, RoomWhenAsked, Room, buf_size, PACKETPROTO_ENCLEN
<1>11. got' <= written' /\ first' \in 1..Coming'
  <2>1. got <= written /\ first \in 1..Coming
    BY DEF StreamInv
  <2>2. written' \in Nat /\ written <= written'
    <3>1. written' = written \/ written' = Len(sizes)
      BY <1>6
    <3>2. QED BY <1>1, <1>3, <3>1
  <2>3. Coming' \in Nat /\ Coming <= Coming'
    <3>1. Coming' = Coming \/ Coming' = Coming + 1
      BY <1>6
    <3>2. QED BY <1>1, <3>1
  <2>4. QED BY <1>1, <1>2, <2>1, <2>2, <2>3
<1>12. QED BY <1>2, <1>7, <1>8, <1>9, <1>10, <1>11 DEF StreamInv, GivesWhatIsDue

LEMMA Read ==
    ASSUME StreamInv, NEW n \in Nat, PacketProtoDecoder_input_handler_done(n)
    PROVE  StreamInv' /\ GivesWhatIsDue
<1> DEFINE b == ReadTo(buf_start + buf_used, n)
           rest == SubSeq(stream, n + 1, Len(stream))
<1>1. /\ connected /\ n <= Room /\ n <= Len(stream)
      /\ process_data(b, buf_start, buf_used + n, rest)
  BY DEF PacketProtoDecoder_input_handler_done, ReadTo
<1>2. /\ DOMAIN b = Places /\ rest \in Seq(Nat \X Nat) /\ Len(rest) = Len(stream) - n
      /\ Line(b, buf_start, buf_used + n, rest) = Line(buf, buf_start, buf_used, stream)
  BY <1>1, LineRead
<1> HIDE DEF b, rest
<1>3. /\ buf_start \in Nat /\ buf_used \in Nat /\ buf_used + n \in Nat /\ Len(stream) \in Nat
      /\ buf_start + (buf_used + n) <= buf_size /\ (buf_used + n) + Len(rest) = buf_used + Len(stream)
  BY <1>1, <1>2, Lengths DEF StreamInv, StreamTypeOK, Places, Room
<1>4. InLine(b, buf_start, buf_used + n, rest, sizes, Due, Coming, Begun)
  BY <1>1, <1>2, <1>3 DEF StreamInv, DecoderInv, InLine
<1>5. QED BY <1>1, <1>2, <1>3, <1>4, Process DEF GivesWhatIsDue

LEMMA Taken ==
    ASSUME StreamInv, PacketProtoDecoder_output_handler_done
    PROVE  StreamInv' /\ GivesWhatIsDue
<1>1. connected /\ process_data(buf, buf_start, buf_used, stream)
  BY DEF PacketProtoDecoder_output_handler_done
<1>2. /\ buf_start \in Nat /\ buf_used \in Nat /\ buf_start + buf_used <= buf_size
      /\ DOMAIN buf = Places /\ stream \in Seq(Nat \X Nat)
  BY Lengths DEF StreamInv, StreamTypeOK, Places
<1>3. InLine(buf, buf_start, buf_used, stream, sizes, Due, Coming, Begun)
  BY <1>1 DEF StreamInv, DecoderInv
<1>4. QED BY <1>1, <1>2, <1>3, Process DEF GivesWhatIsDue

LEMMA Up ==
    ASSUME StreamInv, StreamUp
    PROVE  StreamInv' /\ GivesWhatIsDue
<1>1. /\ sizes \in Seq(Nat) /\ Len(sizes) \in Nat /\ written \in Nat /\ Coming \in Nat
      /\ Begun \in Nat /\ got \in Nat /\ first \in Nat /\ Due \in Nat
  BY SizesAreLengths
<1>2. /\ ~connected /\ streams < MaxStreams /\ connected' = TRUE /\ streams' = streams + 1
      /\ first' = written + 1 /\ sizes' = sizes /\ in_len' = in_len /\ in_used' = in_used
      /\ written' = written /\ buf' = buf /\ buf_start' = buf_start /\ buf_used' = buf_used
      /\ passing' = passing /\ got' = got /\ misread' = misread /\ stream' = stream
  BY DEF StreamUp, sender, decoder
<1>3. stream = <<>> /\ buf_start = 0 /\ buf_used = 0 /\ ~passing /\ Begun = 0
  BY <1>2 DEF StreamInv, DecoderInv
<1>4. Coming' = Coming /\ Begun' = 0 /\ Due' = Coming
  <2>1. got < written + 1
    BY <1>1 DEF StreamInv
  <2>2. QED BY <1>2, <1>3, <2>1 DEF Coming, Begun, Due
<1>5. DecoderInv'
  <2>1. \A line : OnTheWay(line, 0, sizes, Coming, Coming, 0)
    <3>1. Coming \in 1..Coming /\ Coming - 1 <= Len(sizes)
      BY <1>1 DEF Coming, StreamInv, StreamTypeOK
    <3>2. QED BY <3>1 DEF OnTheWay, OnlyWritten, OnePiece, InOrder, Begins, Ends
  <2>2. buf_used + Len(stream) = 0
    BY <1>3
  <2>3. InLine(buf, buf_start, buf_used, stream, sizes, Coming, Coming, 0)
    BY <2>1, <2>2 DEF InLine
  <2>4. QED BY <1>2, <1>4, <2>3 DEF DecoderInv
<1>6. StreamTypeOK'
  <2>1. streams' \in 0..MaxStreams
    BY <1>2, PacketStreamAssumption DEF StreamInv, StreamTypeOK
  <2>2. QED BY <1>2, <2>1 DEF StreamInv, StreamTypeOK, Places, buf_size, PACKETPROTO_ENCLEN
<1>7. SenderInv'
  BY <1>2 DEF StreamInv, SenderInv, Encoded, PACKETPROTO_ENCLEN
<1>8. NeverMisread' /\ RoomWhenAsked'
  <2>1. Room' = buf_size
    BY <1>2, <1>3, Lengths DEF Room, buf_size, PACKETPROTO_ENCLEN
  <2>2. QED BY <1>2, <2>1, Lengths DEF StreamInv, NeverMisread, RoomWhenAsked
<1>9. stream' \in Seq(Nat \X Nat) /\ got' <= written' /\ first' \in 1..Coming'
  BY <1>1, <1>2, <1>4 DEF StreamInv, Coming
<1>10. QED BY <1>2, <1>5, <1>6, <1>7, <1>8, <1>9 DEF StreamInv, GivesWhatIsDue

LEMMA StreamStarts == ASSUME StreamInit PROVE StreamInv
<1>1. 0 \in Places
  BY Lengths DEF Places
<1>2. StreamTypeOK
  BY <1>1, Lengths, PacketStreamAssumption DEF StreamInit, StreamTypeOK
<1>3. QED BY <1>2, Lengths
          DEF StreamInit, StreamInv, SenderInv, DecoderInv, Begun, Coming, NeverMisread, RoomWhenAsked

LEMMA StreamStep ==
    ASSUME StreamInv, [StreamNext]_streamVars
    PROVE  StreamInv' /\ GivesWhatIsDue
<1>1. ASSUME NEW n \in Sizes, PacketPassConnector_input_handler_send(n)
      PROVE  StreamInv' /\ GivesWhatIsDue
  BY <1>1, Sent
<1>2. ASSUME SomeWrite PROVE StreamInv' /\ GivesWhatIsDue
  <2>1. PICK n \in 1..PACKETPROTO_ENCLEN(Max(Sizes)) : Write(n)
    BY <1>2 DEF SomeWrite
  <2>2. n \in Nat
    <3>1. n \in 1..in_len - in_used
      BY <2>1 DEF Write
    <3>2. QED BY <3>1
  <2>3. QED BY <2>1, <2>2, Written
<1>3. ASSUME SomeRead PROVE StreamInv' /\ GivesWhatIsDue
  BY <1>3, Read, Lengths DEF SomeRead
<1>4. ASSUME PacketProtoDecoder_output_handler_done PROVE StreamInv' /\ GivesWhatIsDue
  BY <1>4, Taken
<1>5. ASSUME StreamLost PROVE StreamInv' /\ GivesWhatIsDue
  <2>1. misread' = FALSE /\ got' = got /\ DisconnectOutput
    BY <1>5 DEF StreamLost, DisconnectOutput, StreamInv, StreamTypeOK, NeverMisread
  <2>2. QED BY <2>1, Disconnect DEF GivesWhatIsDue
<1>6. ASSUME StreamUp PROVE StreamInv' /\ GivesWhatIsDue
  BY <1>6, Up
<1>7. ASSUME UNCHANGED streamVars PROVE StreamInv' /\ GivesWhatIsDue
  BY <1>7 DEF streamVars, sender, decoder, link, StreamInv, StreamTypeOK, SenderInv, DecoderInv,
              NeverMisread, RoomWhenAsked, Room, Due, Coming, Begun, Encoded, Places, buf_size,
              PACKETPROTO_ENCLEN, GivesWhatIsDue
<1>8. QED BY <1>1, <1>2, <1>3, <1>4, <1>5, <1>6, <1>7 DEF StreamNext

\* The bytes between a sender and a decoder are always those of the packets that are due, in
\* their order and without a gap, up to what is written of the last (PacketStreamSender,
\* PacketProtoDecoder, PacketPassConnector).
THEOREM StreamHolds == StreamSpec => []StreamInv
<1>1. StreamInit => StreamInv
  BY StreamStarts
<1>2. StreamInv /\ [StreamNext]_streamVars => StreamInv'
  BY StreamStep
<1>3. QED BY <1>1, <1>2, PTL DEF StreamSpec

\* The decoder never takes bytes for a header that are none, gives out each packet whole, and
\* has room for the rest of a packet whenever it asks for more (process_data).
THEOREM DecoderAlwaysAgrees == StreamSpec => []DecoderAgrees
<1>1. StreamInv => DecoderAgrees
  BY DEF StreamInv, DecoderAgrees
<1>2. QED BY <1>1, StreamHolds, PTL

\* No packet is given out twice or before an earlier one that the stream has to carry.
THEOREM NextIsInOrder == StreamSpec => NextInOrder
<1>1. StreamInv /\ [StreamNext]_streamVars =>
        [got' # got => got' = IF got < first THEN first ELSE got + 1]_streamVars
  BY StreamStep DEF GivesWhatIsDue, Due
<1>2. QED BY <1>1, StreamHolds, PTL DEF StreamSpec, NextInOrder
=============================================================================
