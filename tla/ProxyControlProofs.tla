------------------------- MODULE ProxyControlProofs -------------------------
(***************************************************************************)
(* Proofs about ProxyControl and PerAppProxy, for any number of service    *)
(* instances and apps, any bounds, and whatever of Faults can happen.      *)
(***************************************************************************)
EXTENDS PerAppProxy, FiniteSetTheorems, SequenceTheorems, TLAPS

USE DEF tun

-----------------------------------------------------------------------------
(* The inductive invariant *)

\* Instance s answers to this main process.
Ours(s) == svc[s].client = "main"

Nobody == \A s \in Services : ~Ours(s)

FromMain(k) == toProxy[k].from = "main"

NothingQueued == \A k \in DOMAIN toProxy : ~FromMain(k)

\* The system is about to report a connection.
Connecting == pm.bound /\ ~pm.connected /\ current # NoService

JobIsOurs == job # NoJob /\ Ours(job.service)

\* What the status says of the one operation and of where it can be.
WhenIdle ==
    pm.status = "IDLE" =>
        ~pm.bound /\ ~pm.connected /\ toMain = <<>> /\ NothingQueued /\ Nobody

WhenStarting ==
    pm.status = "STARTING" =>
        /\ pm.bound
        /\ Connecting => toMain = <<>> /\ NothingQueued /\ Nobody
        /\ \A k \in DOMAIN toProxy : FromMain(k) =>
               toProxy[k].what = "START" /\ toMain = <<>> /\ Nobody
        /\ toMain = <<>> \/ (toMain = <<"START">> /\ ~JobIsOurs)

WhenRunning ==
    pm.status = "RUNNING" =>
        pm.bound /\ ~Connecting /\ toMain = <<>> /\ NothingQueued /\ ~JobIsOurs

WhenStopping ==
    pm.status = "STOPPING" =>
        /\ pm.bound /\ ~Connecting /\ ~JobIsOurs
        /\ \A k \in DOMAIN toProxy : FromMain(k) => toProxy[k].what = "STOP" /\ toMain = <<>>
        /\ toMain = <<>> \/ (toMain = <<"STOP">> /\ Nobody)

\* One instance answers to this process, it is the one the manager would ask to stop,
\* and it has no request before it that an earlier main process has left.
OneService ==
    /\ \A s \in Services : Ours(s) =>
           /\ pm.messenger \in {s, NoService}
           /\ \A t \in Services : Ours(t) => t = s
           /\ \A k \in DOMAIN toProxy : FromMain(k) /\ toProxy[k].service = s
    /\ \A k \in DOMAIN toProxy : FromMain(k) =>
           k = Len(toProxy) /\ pm.messenger \in {toProxy[k].service, NoService}
    /\ pm.connected /\ current # NoService => current = pm.messenger
    /\ job # NoJob => job.service \in Services

Placed == WhenIdle /\ WhenStarting /\ WhenRunning /\ WhenStopping /\ OneService

\* Instance s has set up the interface, and a tun2socks has its descriptor.
Serves(s) == /\ Ours(s) /\ svc[s].fd /\ svc[s].tl /\ vpn = s
             /\ \E p \in Programs : /\ Holds(tun2socks[p])
                                    /\ "main died" \notin mishaps => p = svc[s].tun

\* What the service has started runs, until it is on the way to be stopped.
Running ==
    AllNoticed =>
        /\ job # NoJob => svc[job.service].fd /\ svc[job.service].tl /\ vpn = job.service
        /\ pm.status = "RUNNING" \/ toMain = <<"START">> => \E s \in Services : Serves(s)

\* In the first main process every request, every program and the interface are its own.
FirstProcess ==
    "main died" \notin mishaps =>
        /\ ~orphans
        /\ \A k \in DOMAIN toProxy : FromMain(k)
        /\ \A s \in Services : Ours(s) \/ svc[s] = FreshInstance
        /\ \A p \in Programs : tun2socks[p] # "none" =>
               \E s \in Services : Ours(s) /\ svc[s].tun = p
        /\ vpn # NoService => Ours(vpn)
        /\ job # NoJob => Ours(job.service)

\* The switch of an activity that has seen everything since the proxy was off, and whose
\* callback the manager therefore holds.
Switch ==
    ui.live /\ ui.clean =>
        /\ ui.dialog => pm.status = "IDLE" /\ ui.checked /\ ~ui.enabled /\ ~ui.settings
        /\ pm.status = "IDLE" /\ ui.enabled => ~ui.checked
        /\ pm.status = "STARTING" =>
               ui.checked /\ ~ui.enabled /\ ~ui.settings /\ pm.startFinishCallback = "current"
        /\ pm.status = "RUNNING" => ui.checked /\ ~ui.settings
        /\ pm.status = "STOPPING" =>
               ~ui.checked /\ ~ui.enabled /\ ~ui.settings /\ pm.stopFinishCallback = "current"

ControlInv == TypeOK /\ Placed /\ Running /\ FirstProcess /\ Switch

-----------------------------------------------------------------------------
(* Types *)

LEMMA ManagerFields ==
    ASSUME TypeOK
    PROVE  /\ pm.status \in {"IDLE", "STARTING", "RUNNING", "STOPPING"}
           /\ pm.startFinishCallback \in Callbacks /\ pm.stopFinishCallback \in Callbacks
           /\ pm.messenger \in Services \cup {NoService}
           /\ pm.bound \in BOOLEAN /\ pm.connected \in BOOLEAN
BY DEF TypeOK, Manager

LEMMA InstanceFields ==
    ASSUME TypeOK, NEW s \in Services
    PROVE  /\ svc[s] \in Instance
           /\ svc[s].client \in {"none", "main", "dead"}
           /\ svc[s].fd \in BOOLEAN /\ svc[s].tl \in BOOLEAN
           /\ svc[s].tun \in Programs \cup {NoProgram}
BY DEF TypeOK, Instance

LEMMA RequestFields ==
    ASSUME TypeOK, NEW k \in DOMAIN toProxy
    PROVE  /\ k \in 1..Len(toProxy)
           /\ toProxy[k] \in Request
           /\ toProxy[k].what \in {"START", "STOP"} /\ toProxy[k].service \in Services
           /\ toProxy[k].from \in {"main", "dead"}
<1>1. toProxy \in Seq(Request)
  BY DEF TypeOK
<1>2. k \in 1..Len(toProxy) /\ toProxy[k] \in Request
  BY <1>1
<1>3. QED BY <1>2 DEF Request

\* The first request of a queue, and what is left.
LEMMA FirstRequest ==
    ASSUME TypeOK, toProxy # <<>>
    PROVE  /\ Len(toProxy) >= 1 /\ 1 \in DOMAIN toProxy /\ Head(toProxy) = toProxy[1]
           /\ Tail(toProxy) \in Seq(Request)
           /\ Len(Tail(toProxy)) = Len(toProxy) - 1
           /\ \A k \in DOMAIN Tail(toProxy) :
                 k + 1 \in DOMAIN toProxy /\ Tail(toProxy)[k] = toProxy[k + 1]
<1>1. toProxy \in Seq(Request)
  BY DEF TypeOK
<1>2. QED BY <1>1

LEMMA MoreRequests ==
    ASSUME TypeOK, NEW r \in Request
    PROVE  /\ Append(toProxy, r) \in Seq(Request)
           /\ DOMAIN Append(toProxy, r) = 1..(Len(toProxy) + 1)
           /\ Len(Append(toProxy, r)) = Len(toProxy) + 1
           /\ Append(toProxy, r)[Len(toProxy) + 1] = r
           /\ \A k \in DOMAIN toProxy : Append(toProxy, r)[k] = toProxy[k]
           /\ DOMAIN toProxy = 1..Len(toProxy) /\ Len(toProxy) \in Nat
<1>1. toProxy \in Seq(Request)
  BY DEF TypeOK
<1>2. QED BY <1>1

LEMMA AnswerQueue ==
    ASSUME TypeOK
    PROVE  /\ toMain \in Seq({"START", "STOP"})
           /\ \A what \in {"START", "STOP"} : Append(toMain, what) \in Seq({"START", "STOP"})
           /\ toMain # <<>> => Tail(toMain) \in Seq({"START", "STOP"})
BY DEF TypeOK

LEMMA NoMessages ==
    <<>> \in Seq({"START", "STOP"}) /\ <<>> \in Seq(Request) /\ DOMAIN <<>> = {} /\ Len(<<>>) = 0
<1>1. <<>> \in Seq({"START", "STOP"})
  OBVIOUS
<1>2. <<>> \in Seq(Request)
  OBVIOUS
<1>3. DOMAIN <<>> = {} /\ Len(<<>>) = 0
  OBVIOUS
<1>4. QED BY <1>1, <1>2, <1>3

LEMMA OneAnswer ==
    ASSUME NEW what, NEW q, q = <<what>>
    PROVE  Head(q) = what /\ Tail(q) = <<>> /\ q # <<>> /\ Append(<<>>, what) = q
<1>1. Len(q) = 1 /\ q[1] = what /\ q # <<>> /\ Head(q) = what
  OBVIOUS
<1>2. Tail(q) = <<>>
  BY <1>1
<1>3. Append(<<>>, what) = q
  OBVIOUS
<1>4. QED BY <1>1, <1>2, <1>3

\* What start does to the manager.
LEMMA StartFields ==
    ASSUME TypeOK, start
    PROVE  /\ pm' \in Manager /\ current' \in Services \cup {NoService}
           /\ pm.status # "IDLE" => pm' = pm /\ current' = current
           /\ pm.status = "IDLE" =>
                 /\ pm'.status = "STARTING" /\ pm'.startFinishCallback = "current"
                 /\ pm'.bound /\ ~pm'.connected
                 /\ pm'.messenger = pm.messenger
                 /\ current' # NoService /\ (current # NoService => current' = current)
<1>1. pm \in Manager /\ current \in Services \cup {NoService}
  BY DEF TypeOK
<1>2. CASE pm.status # "IDLE"
  BY <1>1, <1>2 DEF start
<1>3. CASE pm.status = "IDLE"
  <2>1. pm' = [pm EXCEPT !.status = "STARTING", !.startFinishCallback = "current",
                         !.bound = TRUE, !.connected = FALSE]
    BY <1>3 DEF start
  <2>2. current' \in Services /\ (current # NoService => current' = current)
    BY <1>1, <1>3 DEF start
  <2>3. pm' \in Manager
    BY <1>1, <2>1 DEF Manager, Callbacks
  <2>4. QED BY <1>1, <1>3, <2>1, <2>2, <2>3, ServicesAssumption DEF Manager
<1>4. QED BY <1>2, <1>3

\* What stop does to the manager m and to the queue of requests.
LEMMA StopFields ==
    ASSUME TypeOK, NEW m \in Manager, NEW cb \in Callbacks, stop(m, cb)
    PROVE  /\ pm' \in Manager /\ toProxy' \in Seq(Request)
           /\ m.status # "RUNNING" => pm' = m /\ toProxy' = toProxy
           /\ m.status = "RUNNING" =>
                 /\ pm'.status = "STOPPING" /\ pm'.stopFinishCallback = cb
                 /\ pm'.startFinishCallback = m.startFinishCallback
                 /\ pm'.bound = m.bound /\ pm'.connected = m.connected
                 /\ pm'.messenger = m.messenger
                 /\ m.messenger = NoService => toProxy' = toProxy
                 /\ m.messenger # NoService =>
                       toProxy' = Append(toProxy, [what |-> "STOP", service |-> m.messenger,
                                                   from |-> "main"])
<1>1. toProxy \in Seq(Request)
  BY DEF TypeOK
<1>2. CASE m.status # "RUNNING"
  BY <1>1, <1>2 DEF stop
<1>3. CASE m.status = "RUNNING"
  <2>1. pm' = [m EXCEPT !.status = "STOPPING", !.stopFinishCallback = cb]
    BY <1>3 DEF stop
  <2>2. /\ m.messenger = NoService => toProxy' = toProxy
        /\ m.messenger # NoService =>
              toProxy' = Append(toProxy, [what |-> "STOP", service |-> m.messenger,
                                          from |-> "main"])
    BY <1>3 DEF stop
  <2>3. pm' \in Manager
    BY <2>1 DEF Manager
  <2>4. toProxy' \in Seq(Request)
    <3>1. CASE m.messenger = NoService
      BY <1>1, <2>2, <3>1
    <3>2. CASE m.messenger # NoService
      <4>1. [what |-> "STOP", service |-> m.messenger, from |-> "main"] \in Request
        BY <3>2 DEF Manager, Request
      <4>2. QED BY <2>2, <3>2, <4>1, MoreRequests
    <3>3. QED BY <3>1, <3>2
  <2>5. pm'.bound = m.bound /\ pm'.connected = m.connected
    BY <2>1 DEF Manager
  <2>6. QED BY <1>3, <2>1, <2>2, <2>3, <2>4, <2>5 DEF Manager
<1>4. QED BY <1>2, <1>3

LEMMA ForgetFields ==
    ASSUME TypeOK
    PROVE  /\ Forget(pm) \in Manager
           /\ Forget(pm).status = pm.status /\ Forget(pm).bound = pm.bound
           /\ Forget(pm).connected = pm.connected /\ Forget(pm).messenger = pm.messenger
<1>1. pm \in Manager
  BY DEF TypeOK
<1>2. Stale(pm.startFinishCallback) \in Callbacks /\ Stale(pm.stopFinishCallback) \in Callbacks
  BY ManagerFields DEF Stale, Callbacks
<1>3. QED BY <1>1, <1>2 DEF Forget, Manager

LEMMA AnsweredType ==
    ASSUME TypeOK, NEW i, NEW what \in {"START", "STOP"}
    PROVE  Answered(i, what) \in Seq({"START", "STOP"})
BY AnswerQueue DEF Answered

\* Every action keeps the types.
LEMMA TypeInit == Init => TypeOK
<1> SUFFICES ASSUME Init PROVE TypeOK
  OBVIOUS
<1>1. ui \in Activity /\ pm \in Manager
  BY DEF Init, NoActivity, Activity, FreshManager, Manager, Callbacks
<1>2. svc \in [Services -> Instance]
  BY DEF Init, FreshInstance, Instance
<1>3. job \in [service : Services \cup {NoService}, tries : 0..FdTries - 1]
  BY BoundsAssumption DEF Init, NoJob
<1>4. /\ toProxy \in Seq(Request) /\ toMain \in Seq({"START", "STOP"})
      /\ current \in Services \cup {NoService} /\ orphans \in BOOLEAN /\ mishaps \subseteq Mishaps
  BY NoMessages DEF Init
<1>5. /\ tun2socks \in [Programs -> Tun2SocksStates]
      /\ path \in Programs \cup {NoProgram} /\ vpn \in Services \cup {NoService}
  BY DEF Init, Tun2SocksStates
<1>6. QED BY <1>1, <1>2, <1>3, <1>4, <1>5 DEF TypeOK

LEMMA TypeUser ==
    ASSUME TypeOK, User \/ Dialog \/ Recreate PROVE TypeOK'
<1> USE DEF Activity
<1>0. pm \in Manager /\ ui \in Activity /\ "stale" \in Callbacks /\ "current" \in Callbacks
  BY DEF TypeOK, Callbacks
<1>1. ASSUME NEW ask \in BOOLEAN, startProxy(ask) PROVE TypeOK'
  <2>1. ui' \in Activity
    BY <1>0, <1>1 DEF startProxy
  <2>2. pm' \in Manager /\ current' \in Services \cup {NoService}
    BY <1>1, StartFields DEF startProxy, TypeOK
  <2>3. QED BY <1>1, <2>1, <2>2 DEF startProxy, TypeOK
<1>2. ASSUME NEW granted \in BOOLEAN, onPrepareVpnServiceResult(granted) PROVE TypeOK'
  <2>1. ui' \in Activity
    BY <1>0, <1>2 DEF onPrepareVpnServiceResult
  <2>2. pm' \in Manager /\ current' \in Services \cup {NoService}
    BY <1>2, StartFields DEF onPrepareVpnServiceResult, TypeOK
  <2>3. QED BY <1>2, <2>1, <2>2 DEF onPrepareVpnServiceResult, TypeOK
<1>3. CASE stopProxy
  <2>1. ui' \in Activity
    BY <1>0, <1>3 DEF stopProxy
  <2>2. pm' \in Manager /\ toProxy' \in Seq(Request)
    BY <1>0, <1>3, StopFields DEF stopProxy
  <2>3. QED BY <1>3, <2>1, <2>2 DEF stopProxy, TypeOK
<1>4. CASE onDestroy
  <2>1. ui' \in Activity
    BY <1>4 DEF onDestroy, NoActivity
  <2>2. pm' \in Manager /\ toProxy' \in Seq(Request)
    BY <1>0, <1>4, ForgetFields, StopFields DEF onDestroy
  <2>3. QED BY <1>4, <2>1, <2>2 DEF onDestroy, TypeOK
<1>5. CASE onCreate
  <2>1. ui' \in Activity
    BY <1>5 DEF onCreate, Created
  <2>2. QED BY <1>5, <2>1 DEF onCreate, TypeOK
<1>6. CASE Recreate
  <2>1. ui' \in Activity
    BY <1>0, <1>6 DEF Recreate, Created
  <2>2. pm' \in Manager /\ toProxy' \in Seq(Request)
    BY <1>0, <1>6, ForgetFields, StopFields DEF Recreate
  <2>3. QED BY <1>6, <2>1, <2>2 DEF Recreate, TypeOK
<1>7. CASE Unpressed
  <2>1. ui' \in Activity
    BY <1>0, <1>7 DEF Unpressed
  <2>2. QED BY <1>7, <2>1 DEF Unpressed, TypeOK
<1>8. QED BY <1>1, <1>2, <1>3, <1>4, <1>5, <1>6, <1>7 DEF User, Dialog

LEMMA TypeManager ==
    ASSUME TypeOK, Answers \/ onProxyServiceConnected \/ onProxyServiceDisconnected
    PROVE  TypeOK'
<1>0. pm \in Manager /\ ui \in Activity /\ current \in Services \cup {NoService}
  BY DEF TypeOK
<1>1. CASE onProxyServiceConnected
  <2>1. current \in Services
    BY <1>0, <1>1 DEF onProxyServiceConnected
  <2>2. pm' \in Manager
    BY <1>0, <1>1 DEF onProxyServiceConnected, Manager
  <2>3. [what |-> "START", service |-> current, from |-> "main"] \in Request
    BY <2>1 DEF Request
  <2>4. toProxy' \in Seq(Request)
    BY <1>1, <2>3, MoreRequests DEF onProxyServiceConnected
  <2>5. QED BY <1>1, <2>2, <2>4 DEF onProxyServiceConnected, TypeOK
<1>2. CASE onProxyServiceDisconnected
  <2>1. pm' \in Manager
    BY <1>0, <1>2 DEF onProxyServiceDisconnected, Manager
  <2>2. QED BY <1>2, <2>1 DEF onProxyServiceDisconnected, TypeOK
<1>3. CASE onMessageStartProxyResponse
  <2>1. pm' \in Manager /\ ui' \in Activity
    BY <1>0, <1>3 DEF onMessageStartProxyResponse, Manager, Callbacks, Activity
  <2>2. toMain' \in Seq({"START", "STOP"})
    BY <1>3, AnswerQueue DEF onMessageStartProxyResponse
  <2>3. QED BY <1>3, <2>1, <2>2 DEF onMessageStartProxyResponse, TypeOK
<1>4. CASE onMessageStopProxyResponse
  <2>1. pm' \in Manager /\ ui' \in Activity
    BY <1>0, <1>4 DEF onMessageStopProxyResponse, Manager, Callbacks, Activity
  <2>2. toMain' \in Seq({"START", "STOP"})
    BY <1>4, AnswerQueue DEF onMessageStopProxyResponse
  <2>3. QED BY <1>4, <2>1, <2>2 DEF onMessageStopProxyResponse, TypeOK
<1>5. QED BY <1>1, <1>2, <1>3, <1>4 DEF Answers

\* The requests that a dead main process has left.
LEMMA LeftRequests ==
    ASSUME TypeOK, MainDies
    PROVE  /\ toProxy' \in Seq(Request) /\ DOMAIN toProxy' = DOMAIN toProxy
           /\ \A k \in DOMAIN toProxy' : toProxy'[k].from = "dead"
<1>1. toProxy \in Seq(Request) /\ Len(toProxy) \in Nat /\ DOMAIN toProxy = 1..Len(toProxy)
  BY DEF TypeOK
<1>2. toProxy' = [k \in 1..Len(toProxy) |-> [toProxy[k] EXCEPT !.from = "dead"]]
  BY <1>1 DEF MainDies
<1>3. ASSUME NEW k \in 1..Len(toProxy)
      PROVE  /\ [toProxy[k] EXCEPT !.from = "dead"] \in Request
             /\ [toProxy[k] EXCEPT !.from = "dead"].from = "dead"
  <2>1. toProxy[k] \in Request
    BY <1>1
  <2>2. QED BY <2>1 DEF Request
<1>4. toProxy' \in Seq(Request)
  BY <1>1, <1>2, <1>3
<1>5. QED BY <1>1, <1>2, <1>3, <1>4

LEMMA WithoutDeviceType ==
    ASSUME TypeOK
    PROVE  /\ WithoutDevice \in [Programs -> Tun2SocksStates]
           /\ \A p \in Programs : tun2socks[p] = "none" => WithoutDevice[p] = "none"
           /\ \A p \in Programs : WithoutDevice[p] # "none" => tun2socks[p] # "none"
<1>1. \A p \in Programs : tun2socks[p] \in Tun2SocksStates
  BY DEF TypeOK
<1>2. QED BY <1>1 DEF WithoutDevice, Tun2SocksStates

LEMMA VpnWithType ==
    ASSUME TypeOK, NEW fd, NEW processes
    PROVE  VpnWith(fd, processes) \in {vpn, NoService}
BY DEF VpnWith

\* What a start request does: it fails, or it starts a program and the job.
LEMMA StartRequest ==
    ASSUME TypeOK, NEW r \in {"vpn", "tl", "tun", "ok"}, onMessageStartProxyRequest(r)
    PROVE  LET m == Head(toProxy)
               s == m.service
           IN  /\ toProxy # <<>> /\ m.what = "START" /\ m.from \in {"main", "dead"}
               /\ s \in Services /\ toProxy' = Tail(toProxy) /\ toProxy' \in Seq(Request)
               /\ orphans' = (orphans \/ Overwrites(svc[s], r))
               /\ UNCHANGED <<ui, pm, current, path, toMain>>
               /\ vpn' = (IF r = "vpn" THEN vpn ELSE s) /\ vpn' \in Services \cup {NoService}
               /\ tun2socks' \in [Programs -> Tun2SocksStates]
               /\ \E p \in Programs \cup {NoProgram} :
                    /\ svc' = [svc EXCEPT ![s] = Started(svc[s], m.from, r, p)]
                    /\ svc' \in [Services -> Instance]
                    /\ svc'[s] = Started(svc[s], m.from, r, p)
                    /\ \A t \in Services : t # s => svc'[t] = svc[t]
                    /\ \A q \in Programs : tun2socks'[q] # "none" =>
                           tun2socks[q] # "none" \/ (r = "ok" /\ q = p)
               /\ \/ r = "ok" /\ job' = [service |-> s, tries |-> 0] /\ UNCHANGED mishaps
                  \/ r # "ok" /\ job' = NoJob /\ Happens("start failed")
<1> DEFINE m == Head(toProxy)
           s == m.service
           device == IF r = "vpn" THEN tun2socks ELSE WithoutDevice
<1>1. /\ toProxy # <<>> /\ m.what = "START" /\ toProxy' = Tail(toProxy)
      /\ orphans' = (orphans \/ Overwrites(svc[s], r))
      /\ UNCHANGED <<ui, pm, current, path, toMain>>
      /\ vpn' = IF r = "vpn" THEN vpn ELSE s
      /\ \/ r = "ok" /\ job' = [service |-> s, tries |-> 0] /\ UNCHANGED mishaps
         \/ r # "ok" /\ job' = NoJob /\ Happens("start failed")
  BY DEF onMessageStartProxyRequest
<1>2. s \in Services /\ m.from \in {"main", "dead"} /\ toProxy' \in Seq(Request)
  BY <1>1, FirstRequest, RequestFields
<1>3. vpn' \in Services \cup {NoService}
  BY <1>1, <1>2 DEF TypeOK
<1>4. /\ device \in [Programs -> Tun2SocksStates]
      /\ \A p \in Programs : device[p] # "none" => tun2socks[p] # "none"
  BY WithoutDeviceType DEF TypeOK
<1>5. PICK p \in Programs \cup {NoProgram} :
         /\ svc' = [svc EXCEPT ![s] = Started(svc[s], m.from, r, p)]
         /\ \/ r = "ok" /\ p \in Programs /\ tun2socks' = [device EXCEPT ![p] = "starting"]
            \/ tun2socks' = device
  BY DEF onMessageStartProxyRequest
<1>6. Started(svc[s], m.from, r, p) \in Instance
  BY <1>2, InstanceFields DEF Started, Instance
<1> HIDE DEF m, s, device
<1>7. /\ tun2socks' \in [Programs -> Tun2SocksStates]
      /\ \A q \in Programs : tun2socks'[q] # "none" =>
             tun2socks[q] # "none" \/ (r = "ok" /\ q = p)
  BY <1>4, <1>5 DEF Tun2SocksStates
<1>8. svc \in [Services -> Instance]
  BY DEF TypeOK
<1>9. /\ svc' \in [Services -> Instance] /\ svc'[s] = Started(svc[s], m.from, r, p)
      /\ \A t \in Services : t # s => svc'[t] = svc[t]
  BY <1>2, <1>5, <1>6, <1>8
<1>10. QED BY <1>1, <1>2, <1>3, <1>5, <1>7, <1>9 DEF m, s

LEMMA TypeService ==
    ASSUME TypeOK, Service \/ FdSent \/ FdFails
    PROVE  TypeOK'
<1>0. /\ svc \in [Services -> Instance] /\ NoJob \in [service : Services \cup {NoService}, tries : 0..FdTries - 1]
      /\ job \in [service : Services \cup {NoService}, tries : 0..FdTries - 1]
      /\ current \in Services \cup {NoService} /\ mishaps \subseteq Mishaps
      /\ tun2socks \in [Programs -> Tun2SocksStates] /\ vpn \in Services \cup {NoService}
  BY BoundsAssumption DEF TypeOK, NoJob
<1>1. ASSUME NEW r \in {"vpn", "tl", "tun", "ok"}, onMessageStartProxyRequest(r) PROVE TypeOK'
  <2> DEFINE s == Head(toProxy).service
  <2>1. /\ s \in Services /\ toProxy' \in Seq(Request) /\ svc' \in [Services -> Instance]
        /\ tun2socks' \in [Programs -> Tun2SocksStates] /\ vpn' \in Services \cup {NoService}
        /\ UNCHANGED <<ui, pm, current, path, toMain>>
        /\ orphans' = (orphans \/ Overwrites(svc[s], r))
        /\ \/ job' = [service |-> s, tries |-> 0] /\ UNCHANGED mishaps
           \/ job' = NoJob /\ Happens("start failed")
    BY <1>1, StartRequest
  <2> HIDE DEF s
  <2>2. job' \in [service : Services \cup {NoService}, tries : 0..FdTries - 1]
    <3>1. [service |-> s, tries |-> 0] \in [service : Services \cup {NoService}, tries : 0..FdTries - 1]
      <4>1. s \in Services
        BY <2>1
      <4>2. 0 \in 0..FdTries - 1
        BY BoundsAssumption
      <4>3. QED BY <4>1, <4>2
    <3>2. job' = [service |-> s, tries |-> 0] \/ job' = NoJob
      BY <2>1
    <3>3. QED BY <1>0, <3>1, <3>2
  <2>3. orphans' \in BOOLEAN /\ mishaps' \subseteq Mishaps
    BY <1>0, <2>1 DEF Happens, Mishaps, TypeOK
  <2>4. QED BY <2>1, <2>2, <2>3 DEF TypeOK
<1>2. CASE onMessageStopProxyRequest
  <2> DEFINE s == Head(toProxy).service
             i == [FreshInstance EXCEPT !.client = IF svc[s].client = "main" THEN "none"
                                                   ELSE svc[s].client]
  <2>1. toProxy # <<>> /\ s \in Services /\ toProxy' \in Seq(Request)
    BY <1>2, FirstRequest, RequestFields DEF onMessageStopProxyRequest
  <2>2. i \in Instance
    BY <2>1, InstanceFields DEF FreshInstance, Instance
  <2>3. svc' = [svc EXCEPT ![s] = i]
    BY <1>2 DEF onMessageStopProxyRequest
  <2>4. svc' \in [Services -> Instance]
    BY <1>0, <2>1, <2>2, <2>3
  <2>5. toMain' \in Seq({"START", "STOP"})
    BY <1>2, AnsweredType DEF onMessageStopProxyRequest
  <2>6. current' \in Services \cup {NoService}
    BY <1>0, <1>2 DEF onMessageStopProxyRequest
  <2>7. tun2socks' \in [Programs -> Tun2SocksStates]
    BY <1>0, <1>2 DEF onMessageStopProxyRequest, Tun2SocksStates
  <2>8. vpn' \in {vpn, NoService}
    BY <1>2, VpnWithType DEF onMessageStopProxyRequest
  <2>9. QED BY <1>2, <2>1, <2>4, <2>5, <2>6, <2>7, <2>8 DEF onMessageStopProxyRequest, TypeOK
<1>3. CASE FdSent
  <2>1. tun2socks' \in [Programs -> Tun2SocksStates]
    BY <1>0, <1>3 DEF FdSent, Tun2SocksStates
  <2>2. toMain' \in Seq({"START", "STOP"})
    BY <1>3, AnsweredType DEF FdSent
  <2>3. mishaps' \subseteq Mishaps
    BY <1>0, <1>3 DEF FdSent, Happens, Mishaps, Unnoticed
  <2>4. QED BY <1>0, <1>3, <2>1, <2>2, <2>3 DEF FdSent, TypeOK
<1>4. CASE FdFails
  <2>1. job' \in [service : Services \cup {NoService}, tries : 0..FdTries - 1]
    <3>1. job' = NoJob \/ (job.tries + 1 < FdTries /\ job' = [job EXCEPT !.tries = job.tries + 1])
      BY <1>4 DEF FdFails
    <3>2. job.tries \in 0..FdTries - 1 /\ job.service \in Services \cup {NoService}
      BY <1>0
    <3>3. job.tries + 1 < FdTries => job.tries + 1 \in 0..FdTries - 1
      BY <3>2, BoundsAssumption
    <3>4. QED BY <1>0, <3>1, <3>3
  <2>2. mishaps' \subseteq Mishaps
    BY <1>0, <1>4 DEF FdFails, Happens, Mishaps
  <2>3. QED BY <1>4, <2>1, <2>2 DEF FdFails, TypeOK
<1>5. QED BY <1>1, <1>2, <1>3, <1>4 DEF Service

LEMMA TypeAndroid ==
    ASSUME TypeOK,
           \/ Tun2Socks \/ Exits \/ Revoked \/ ServiceDestroyed \/ ProxyDies \/ MainDies
    PROVE  TypeOK'
<1>0. /\ svc \in [Services -> Instance] /\ mishaps \subseteq Mishaps
      /\ tun2socks \in [Programs -> Tun2SocksStates] /\ vpn \in Services \cup {NoService}
  BY DEF TypeOK
<1>1. ASSUME NEW p \in Programs, Tun2SocksListens(p) \/ Tun2SocksGetsFd(p) PROVE TypeOK'
  <2>1. tun2socks' \in [Programs -> Tun2SocksStates] /\ path' \in Programs \cup {NoProgram}
    BY <1>0, <1>1 DEF Tun2SocksListens, Tun2SocksGetsFd, Tun2SocksStates, TypeOK
  <2>2. QED BY <1>1, <2>1 DEF Tun2SocksListens, Tun2SocksGetsFd, TypeOK
<1>2. ASSUME NEW s \in Services, TlClientExits(s) PROVE TypeOK'
  <2>1. svc' \in [Services -> Instance]
    BY <1>0, <1>2 DEF TlClientExits, Instance
  <2>2. mishaps' \subseteq Mishaps
    BY <1>0, <1>2 DEF TlClientExits, Happens, Mishaps, Unnoticed
  <2>3. QED BY <1>2, <2>1, <2>2 DEF TlClientExits, TypeOK
<1>3. ASSUME (\E p \in Programs : Tun2SocksExits(p)) \/ Revoked PROVE TypeOK'
  <2>1. tun2socks' \in [Programs -> Tun2SocksStates]
    BY <1>0, <1>3, WithoutDeviceType DEF Tun2SocksExits, Revoked, Tun2SocksStates
  <2>2. mishaps' \subseteq Mishaps
    BY <1>0, <1>3 DEF Tun2SocksExits, Revoked, Happens, Mishaps, Unnoticed
  <2>3. vpn' \in {vpn, NoService}
    BY <1>3, VpnWithType DEF Tun2SocksExits, Revoked
  <2>4. QED BY <1>0, <1>3, <2>1, <2>2, <2>3 DEF Tun2SocksExits, Revoked, TypeOK
<1>4. CASE ServiceDestroyed
  <2>1. mishaps' \subseteq Mishaps
    BY <1>0, <1>4 DEF ServiceDestroyed, Happens, Mishaps
  <2>2. QED BY <1>4, <2>1 DEF ServiceDestroyed, TypeOK
<1>5. CASE ProxyDies
  <2>1. svc' \in [Services -> Instance] /\ tun2socks' \in [Programs -> Tun2SocksStates]
    BY <1>5 DEF ProxyDies, FreshInstance, Instance, Tun2SocksStates
  <2>2. NoJob \in [service : Services \cup {NoService}, tries : 0..FdTries - 1]
    BY BoundsAssumption DEF NoJob
  <2>3. mishaps' \subseteq Mishaps
    BY <1>0, <1>5 DEF ProxyDies, Happens, Mishaps, Unnoticed
  <2>4. toProxy' \in Seq(Request) /\ orphans' \in BOOLEAN
    BY <1>5, NoMessages DEF ProxyDies
  <2>5. QED BY <1>5, <2>1, <2>2, <2>3, <2>4 DEF ProxyDies, TypeOK
<1>6. CASE MainDies
  <2>1. svc' \in [Services -> Instance]
    <3>1. ASSUME NEW s \in Services
          PROVE  [svc[s] EXCEPT !.client = IF @ = "main" THEN "dead" ELSE @] \in Instance
      BY <1>0 DEF Instance
    <3>2. QED BY <1>6, <3>1 DEF MainDies
  <2>2. mishaps' \subseteq Mishaps
    BY <1>0, <1>6 DEF MainDies, Happens, Mishaps
  <2>3. ui' \in Activity /\ pm' \in Manager
    BY <1>6 DEF MainDies, NoActivity, Activity, FreshManager, Manager, Callbacks
  <2>5. toMain' \in Seq({"START", "STOP"})
    BY <1>6, NoMessages DEF MainDies
  <2>4. QED BY <1>6, <2>1, <2>2, <2>3, <2>5, LeftRequests DEF MainDies, TypeOK
<1>7. QED BY <1>1, <1>2, <1>3, <1>4, <1>5, <1>6 DEF Tun2Socks, Exits

-----------------------------------------------------------------------------
(* The switch *)

\* The answer that is handled is the one the manager waits for.
LEMMA AnswerIsAwaited ==
    ASSUME TypeOK, Placed, toMain # <<>>
    PROVE  /\ Head(toMain) = "START" => pm.status = "STARTING" /\ toMain = <<"START">>
           /\ Head(toMain) = "STOP" => pm.status = "STOPPING" /\ toMain = <<"STOP">>
           /\ Tail(toMain) = <<>>
<1>1. \/ pm.status = "STARTING" /\ toMain = <<"START">>
      \/ pm.status = "STOPPING" /\ toMain = <<"STOP">>
  BY ManagerFields DEF Placed, WhenIdle, WhenStarting, WhenRunning, WhenStopping
<1>2. CASE pm.status = "STARTING" /\ toMain = <<"START">>
  <2>1. Head(toMain) = "START" /\ Tail(toMain) = <<>>
    BY <1>2, OneAnswer
  <2>2. QED BY <1>2, <2>1
<1>3. CASE pm.status = "STOPPING" /\ toMain = <<"STOP">>
  <2>1. Head(toMain) = "STOP" /\ Tail(toMain) = <<>>
    BY <1>3, OneAnswer
  <2>2. QED BY <1>3, <2>1
<1>4. QED BY <1>1, <1>2, <1>3

LEMMA SwitchUser ==
    ASSUME TypeOK, Switch, User \/ Dialog \/ Recreate PROVE Switch'
<1>0. ui \in Activity /\ pm \in Manager /\ "stale" \in Callbacks /\ "current" \in Callbacks
  BY DEF TypeOK, Callbacks
<1>a. /\ ui.live \in BOOLEAN /\ ui.enabled \in BOOLEAN /\ ui.checked \in BOOLEAN
      /\ ui.settings \in BOOLEAN /\ ui.dialog \in BOOLEAN /\ ui.clean \in BOOLEAN
  BY <1>0 DEF Activity
<1>b. pm.status \in {"IDLE", "STARTING", "RUNNING", "STOPPING"}
  BY ManagerFields
<1>1. ASSUME NEW ask \in BOOLEAN, startProxy(ask) PROVE Switch'
  <2>1. ui' = [ui EXCEPT !.checked = TRUE, !.enabled = FALSE, !.settings = FALSE, !.dialog = ask]
    BY <1>1 DEF startProxy
  <2>2. /\ ui'.checked /\ ~ui'.enabled /\ ~ui'.settings /\ ui'.dialog = ask
        /\ ui'.live = ui.live /\ ui'.clean = ui.clean
    BY <1>0, <2>1 DEF Activity
  <2>3. ui.enabled /\ ~ui.checked /\ ~ui.dialog
    BY <1>1 DEF startProxy
  <2>4. ui.live /\ ui.clean => pm.status = "IDLE"
    BY <1>b, <2>3 DEF Switch
  <2>5. CASE ask
    <3>1. pm' = pm
      BY <1>1, <2>5 DEF startProxy
    <3>2. QED BY <2>2, <2>4, <3>1 DEF Switch
  <2>6. CASE ~ask
    <3>1. start
      BY <1>1, <2>6 DEF startProxy
    <3>2. pm.status = "IDLE" => pm'.status = "STARTING" /\ pm'.startFinishCallback = "current"
      BY <3>1, StartFields
    <3>3. QED BY <2>2, <2>4, <2>6, <3>2 DEF Switch
  <2>7. QED BY <2>5, <2>6
<1>2. ASSUME NEW granted \in BOOLEAN, onPrepareVpnServiceResult(granted) PROVE Switch'
  <2>1. ui.live /\ ui.dialog
    BY <1>2 DEF onPrepareVpnServiceResult
  <2>2. ui.clean => pm.status = "IDLE" /\ ui.checked /\ ~ui.enabled /\ ~ui.settings
    BY <2>1 DEF Switch
  <2>3. CASE granted
    <3>1. start /\ ui' = [ui EXCEPT !.dialog = FALSE]
      BY <1>2, <2>3 DEF onPrepareVpnServiceResult
    <3>2. pm.status = "IDLE" => pm'.status = "STARTING" /\ pm'.startFinishCallback = "current"
      BY <3>1, StartFields
    <3>3. /\ ui'.checked = ui.checked /\ ui'.enabled = ui.enabled /\ ui'.settings = ui.settings
          /\ ~ui'.dialog /\ ui'.clean = ui.clean
      BY <1>0, <3>1 DEF Activity
    <3>4. QED BY <2>2, <3>2, <3>3 DEF Switch
  <2>4. CASE ~granted
    <3>1. /\ pm' = pm
          /\ ui' = [ui EXCEPT !.dialog = FALSE, !.checked = FALSE, !.enabled = TRUE,
                              !.settings = TRUE]
      BY <1>2, <2>4 DEF onPrepareVpnServiceResult
    <3>2. ~ui'.checked /\ ~ui'.dialog /\ ui'.clean = ui.clean
      BY <1>0, <3>1 DEF Activity
    <3>3. QED BY <2>2, <3>1, <3>2 DEF Switch
  <2>5. QED BY <2>3, <2>4
<1>3. CASE stopProxy
  <2>1. ui.live /\ ui.enabled /\ ui.checked /\ ~ui.dialog
    BY <1>3 DEF stopProxy
  <2>2. ui' = [ui EXCEPT !.checked = FALSE, !.enabled = FALSE]
    BY <1>3 DEF stopProxy
  <2>3. /\ ~ui'.checked /\ ~ui'.enabled /\ ui'.settings = ui.settings
        /\ ui'.dialog = ui.dialog /\ ui'.clean = ui.clean
    BY <1>0, <2>2 DEF Activity
  <2>4. ui.clean => pm.status = "RUNNING"
    BY <1>b, <2>1 DEF Switch
  <2>5. pm.status = "RUNNING" => pm'.status = "STOPPING" /\ pm'.stopFinishCallback = "current"
    BY <1>0, <1>3, StopFields DEF stopProxy
  <2>6. QED BY <2>1, <2>3, <2>4, <2>5 DEF Switch
<1>4. CASE onDestroy
  BY <1>4 DEF onDestroy, NoActivity, Switch
<1>5. CASE onCreate
  <2>1. ui' = Created(pm.status, FALSE) /\ pm' = pm
    BY <1>5 DEF onCreate
  <2>2. ~ui'.checked /\ ~ui'.dialog /\ (ui'.clean => pm'.status = "IDLE")
    BY <2>1 DEF Created
  <2>3. QED BY <2>2 DEF Switch
<1>6. CASE Recreate
  <2>1. ui' = Created(pm'.status, ui.dialog)
    BY <1>6 DEF Recreate
  <2>2. ~ui'.checked /\ (ui'.clean => ~ui'.dialog /\ pm'.status = "IDLE")
    BY <2>1 DEF Created
  <2>3. QED BY <2>2 DEF Switch
<1>7. CASE Unpressed
  <2>1. ui' = [ui EXCEPT !.checked = ~ui.checked, !.clean = FALSE]
    BY <1>7 DEF Unpressed
  <2>2. ~ui'.clean
    BY <1>0, <2>1 DEF Activity
  <2>3. QED BY <2>2 DEF Switch
<1>8. QED BY <1>1, <1>2, <1>3, <1>4, <1>5, <1>6, <1>7 DEF User, Dialog

LEMMA SwitchAnswers ==
    ASSUME TypeOK, Placed, Switch, Answers PROVE Switch'
<1>0. ui \in Activity /\ pm \in Manager
  BY DEF TypeOK
<1>1. CASE onMessageStartProxyResponse
  <2>1. pm.status = "STARTING"
    BY <1>1, AnswerIsAwaited DEF onMessageStartProxyResponse
  <2>2. pm'.status = "RUNNING"
    BY <1>0, <1>1 DEF onMessageStartProxyResponse, Manager
  <2>3. /\ ui'.checked = ui.checked /\ ui'.settings = ui.settings /\ ui'.dialog = ui.dialog
        /\ ui'.live = ui.live /\ ui'.clean = ui.clean
    BY <1>0, <1>1 DEF onMessageStartProxyResponse, Activity
  <2>4. QED BY <2>1, <2>2, <2>3 DEF Switch
<1>2. CASE onMessageStopProxyResponse
  <2>1. pm.status = "STOPPING"
    BY <1>2, AnswerIsAwaited DEF onMessageStopProxyResponse
  <2>2. pm'.status = "IDLE"
    BY <1>0, <1>2 DEF onMessageStopProxyResponse, Manager
  <2>3. /\ ui'.checked = ui.checked /\ ui'.dialog = ui.dialog
        /\ ui'.live = ui.live /\ ui'.clean = ui.clean
    BY <1>0, <1>2 DEF onMessageStopProxyResponse, Activity
  <2>4. QED BY <2>1, <2>2, <2>3 DEF Switch
<1>3. QED BY <1>1, <1>2 DEF Answers

\* Whoever connects, the status and the callbacks stay.
LEMMA SwitchConnection ==
    ASSUME TypeOK, Switch, onProxyServiceConnected \/ onProxyServiceDisconnected PROVE Switch'
<1>0. pm \in Manager
  BY DEF TypeOK
<1>1. /\ ui' = ui /\ pm'.status = pm.status
      /\ pm'.startFinishCallback = pm.startFinishCallback
      /\ pm'.stopFinishCallback = pm.stopFinishCallback
  BY <1>0 DEF onProxyServiceConnected, onProxyServiceDisconnected, Manager
<1>2. QED BY <1>1 DEF Switch

LEMMA SwitchOthers ==
    ASSUME Switch, \/ Service \/ FdSent \/ FdFails \/ Tun2Socks \/ Exits
                   \/ Revoked \/ ServiceDestroyed \/ ProxyDies \/ MainDies
    PROVE  Switch'
<1>1. CASE MainDies
  BY <1>1 DEF MainDies, NoActivity, Switch
<1>2. CASE ~MainDies
  <2>1. ui' = ui /\ pm' = pm
    BY <1>2 DEF Service, onMessageStartProxyRequest, onMessageStopProxyRequest, FdSent, FdFails,
                Tun2Socks, Tun2SocksListens, Tun2SocksGetsFd, Exits, TlClientExits,
                Tun2SocksExits, Revoked, ServiceDestroyed, ProxyDies
  <2>2. QED BY <2>1 DEF Switch
<1>3. QED BY <1>1, <1>2
-----------------------------------------------------------------------------
(* Where the operation is: the steps of the main process *)

Rest == Placed /\ Running /\ FirstProcess

LEMMA RestStart ==
    ASSUME TypeOK, Rest, start, UNCHANGED <<svc, job, tun, toProxy, toMain, orphans, mishaps>>
    PROVE  Rest'
<1>s. \A s \in Services : Ours(s)' <=> Ours(s)
  BY DEF Ours
<1>n. (Nobody' <=> Nobody) /\ (NothingQueued' <=> NothingQueued) /\ (JobIsOurs' <=> JobIsOurs)
  BY DEF Nobody, NothingQueued, JobIsOurs, Ours, FromMain
<1>1. CASE pm.status # "IDLE"
  <2>1. pm' = pm /\ current' = current
    BY <1>1, StartFields
  <2>2. Placed'
    BY <1>s, <1>n, <2>1
       DEF Rest, Placed, WhenIdle, WhenStarting, WhenRunning, WhenStopping, OneService, Connecting,
           FromMain
  <2>3. Running' /\ FirstProcess'
    BY <2>1 DEF Rest, Running, Serves, AllNoticed, FirstProcess, Ours, FromMain
  <2>4. QED BY <2>2, <2>3 DEF Rest
<1>2. CASE pm.status = "IDLE"
  <2>1. pm'.status = "STARTING" /\ pm'.bound /\ ~pm'.connected
    BY <1>2, StartFields
  <2>2. toMain = <<>> /\ NothingQueued /\ Nobody
    BY <1>2 DEF Rest, Placed, WhenIdle
  <2>3. WhenIdle' /\ WhenRunning' /\ WhenStopping'
    BY <2>1 DEF WhenIdle, WhenRunning, WhenStopping
  <2>4. WhenStarting'
    BY <1>n, <2>1, <2>2 DEF WhenStarting, NothingQueued
  <2>5. OneService'
    BY <1>s, <2>1, <2>2 DEF Rest, Placed, OneService, NothingQueued, Nobody, FromMain
  <2>6. Running'
    BY <2>1, <2>2 DEF Rest, Running, Serves, AllNoticed, Ours
  <2>7. FirstProcess'
    BY DEF Rest, FirstProcess, FromMain, Ours
  <2>8. QED BY <2>3, <2>4, <2>5, <2>6, <2>7 DEF Rest, Placed
<1>3. QED BY <1>1, <1>2

LEMMA RestStop ==
    ASSUME TypeOK, Rest, NEW m \in Manager, NEW cb \in Callbacks, stop(m, cb),
           m.status = pm.status, m.bound = pm.bound, m.connected = pm.connected,
           m.messenger = pm.messenger,
           UNCHANGED <<current, svc, job, tun, toMain, orphans, mishaps>>
    PROVE  Rest'
<1>s. \A s \in Services : Ours(s)' <=> Ours(s)
  BY DEF Ours
<1>n. (Nobody' <=> Nobody) /\ (JobIsOurs' <=> JobIsOurs)
  BY DEF Nobody, JobIsOurs, Ours
<1>1. CASE m.status # "RUNNING"
  <2>1. /\ pm'.status = pm.status /\ pm'.bound = pm.bound /\ pm'.connected = pm.connected
        /\ pm'.messenger = pm.messenger /\ toProxy' = toProxy
    BY <1>1, StopFields
  <2>2. (NothingQueued' <=> NothingQueued) /\ (Connecting' <=> Connecting)
    BY <2>1 DEF NothingQueued, FromMain, Connecting
  <2>3. Placed'
    BY <1>s, <1>n, <2>1, <2>2
       DEF Rest, Placed, WhenIdle, WhenStarting, WhenRunning, WhenStopping, OneService, FromMain
  <2>4. Running' /\ FirstProcess'
    BY <2>1 DEF Rest, Running, Serves, AllNoticed, FirstProcess, Ours, FromMain
  <2>5. QED BY <2>3, <2>4 DEF Rest
<1>2. CASE m.status = "RUNNING"
  <2> DEFINE r == [what |-> "STOP", service |-> m.messenger, from |-> "main"]
  <2>1. /\ pm'.status = "STOPPING" /\ pm'.bound = pm.bound /\ pm'.connected = pm.connected
        /\ pm'.messenger = pm.messenger
    BY <1>2, StopFields
  <2>2. pm.bound /\ ~Connecting /\ toMain = <<>> /\ NothingQueued /\ ~JobIsOurs
    BY <1>2 DEF Rest, Placed, WhenRunning
  <2>3. ~Connecting'
    BY <2>1, <2>2 DEF Connecting
  <2>4. ASSUME NEW k \in DOMAIN toProxy', FromMain(k)'
        PROVE  /\ toProxy'[k].what = "STOP" /\ k = Len(toProxy')
               /\ m.messenger # NoService /\ toProxy'[k].service = m.messenger
    <3>1. m.messenger # NoService /\ toProxy' = Append(toProxy, r)
      BY <1>2, <2>2, <2>4, StopFields DEF NothingQueued, FromMain
    <3>2. r \in Request
      BY <3>1 DEF Manager, Request
    <3>3. CASE k \in DOMAIN toProxy
      BY <2>2, <2>4, <3>1, <3>2, <3>3, MoreRequests DEF NothingQueued, FromMain
    <3>4. CASE k = Len(toProxy) + 1
      BY <3>1, <3>2, <3>4, MoreRequests
    <3>5. QED BY <3>1, <3>2, <3>3, <3>4, MoreRequests
  <2>5. ASSUME NEW k \in DOMAIN toProxy'
        PROVE  FromMain(k)' \/ (k \in DOMAIN toProxy /\ toProxy'[k] = toProxy[k])
    <3>1. CASE m.messenger = NoService
      BY <1>2, <3>1, StopFields
    <3>2. CASE m.messenger # NoService
      <4>1. toProxy' = Append(toProxy, r) /\ r \in Request /\ r.from = "main"
        BY <1>2, <3>2, StopFields DEF Manager, Request
      <4>2. QED BY <4>1, MoreRequests DEF FromMain
    <3>3. QED BY <3>1, <3>2
  <2>6. WhenIdle' /\ WhenStarting' /\ WhenRunning'
    BY <2>1 DEF WhenIdle, WhenStarting, WhenRunning
  <2>7. WhenStopping'
    BY <1>n, <2>1, <2>2, <2>3, <2>4 DEF WhenStopping
  <2>8. ASSUME NEW s \in Services, Ours(s)'
        PROVE  /\ pm'.messenger \in {s, NoService} /\ \A t \in Services : Ours(t)' => t = s
               /\ \A k \in DOMAIN toProxy' : FromMain(k)' /\ toProxy'[k].service = s
    <3>1. Ours(s) /\ pm.messenger \in {s, NoService} /\ \A t \in Services : Ours(t) => t = s
      BY <1>s, <2>8 DEF Rest, Placed, OneService
    <3>2. \A k \in DOMAIN toProxy : FromMain(k)
      BY <3>1 DEF Rest, Placed, OneService
    <3>3. \A k \in DOMAIN toProxy' : FromMain(k)'
      BY <2>2, <2>5, <3>2 DEF NothingQueued
    <3>4. QED BY <1>s, <2>1, <2>4, <3>1, <3>3
  <2>9. OneService'
    <3>1. /\ pm'.connected /\ current' # NoService => current' = pm'.messenger
          /\ job' # NoJob => job'.service \in Services
      BY <2>1 DEF Rest, Placed, OneService
    <3>2. QED BY <2>1, <2>4, <2>8, <3>1 DEF OneService
  <2>10. Running'
    BY <2>1, <2>2 DEF Rest, Running, Serves, AllNoticed, Ours
  <2>11. FirstProcess'
    <3>1. SUFFICES ASSUME "main died" \notin mishaps PROVE \A k \in DOMAIN toProxy' : FromMain(k)'
      BY DEF Rest, FirstProcess, Ours
    <3>2. \A k \in DOMAIN toProxy : FromMain(k)
      BY <3>1 DEF Rest, FirstProcess
    <3>3. QED BY <2>2, <2>5, <3>2 DEF NothingQueued
  <2>12. QED BY <2>6, <2>7, <2>9, <2>10, <2>11 DEF Rest, Placed
<1>3. QED BY <1>1, <1>2

LEMMA RestUser ==
    ASSUME TypeOK, Rest, User \/ Dialog \/ Recreate PROVE Rest'
<1>0. pm \in Manager /\ "stale" \in Callbacks /\ "current" \in Callbacks
  BY DEF TypeOK, Callbacks
<1>u. ASSUME UNCHANGED <<pm, current, svc, job, tun, toProxy, toMain, orphans, mishaps>> PROVE Rest'
  <2>1. Placed'
    BY <1>u DEF Rest, Placed, WhenIdle, WhenStarting, WhenRunning, WhenStopping, OneService,
                Nobody, NothingQueued, JobIsOurs, Connecting, Ours, FromMain
  <2>2. Running' /\ FirstProcess'
    BY <1>u DEF Rest, Running, Serves, AllNoticed, FirstProcess, Ours, FromMain
  <2>3. QED BY <2>1, <2>2 DEF Rest
<1>1. ASSUME NEW ask \in BOOLEAN, startProxy(ask) PROVE Rest'
  BY <1>u, <1>1, RestStart DEF startProxy
<1>2. ASSUME NEW granted \in BOOLEAN, onPrepareVpnServiceResult(granted) PROVE Rest'
  BY <1>u, <1>2, RestStart DEF onPrepareVpnServiceResult
<1>3. CASE stopProxy
  BY <1>0, <1>3, RestStop DEF stopProxy
<1>4. CASE onDestroy
  BY <1>0, <1>4, ForgetFields, RestStop DEF onDestroy
<1>5. CASE onCreate
  BY <1>u, <1>5 DEF onCreate
<1>6. CASE Recreate
  BY <1>0, <1>6, ForgetFields, RestStop DEF Recreate
<1>7. CASE Unpressed
  BY <1>u, <1>7 DEF Unpressed
<1>8. QED BY <1>1, <1>2, <1>3, <1>4, <1>5, <1>6, <1>7 DEF User, Dialog

\* Only a manager that waits for it sees a connection, and asks the instance to start.
LEMMA RestConnected ==
    ASSUME TypeOK, Rest, onProxyServiceConnected PROVE Rest'
<1> DEFINE r == [what |-> "START", service |-> current, from |-> "main"]
<1>s. \A s \in Services : Ours(s)' <=> Ours(s)
  BY DEF onProxyServiceConnected, Ours
<1>n. (Nobody' <=> Nobody) /\ (JobIsOurs' <=> JobIsOurs)
  BY DEF onProxyServiceConnected, Nobody, JobIsOurs, Ours
<1>1. /\ pm'.status = pm.status /\ pm'.bound = pm.bound /\ pm'.connected
      /\ pm'.messenger = current
  BY DEF onProxyServiceConnected, TypeOK, Manager
<1>2. Connecting
  BY DEF onProxyServiceConnected, Connecting
<1>3. pm.status = "STARTING"
  BY <1>2, ManagerFields
     DEF Rest, Placed, WhenIdle, WhenRunning, WhenStopping, Connecting
<1>4. toMain = <<>> /\ NothingQueued /\ Nobody /\ pm.bound
  BY <1>2, <1>3 DEF Rest, Placed, WhenStarting
<1>5. current \in Services /\ toProxy' = Append(toProxy, r) /\ current' = current
  BY DEF onProxyServiceConnected, TypeOK
<1>6. r \in Request
  BY <1>5 DEF Request
<1>7. ASSUME NEW k \in DOMAIN toProxy', FromMain(k)'
      PROVE  toProxy'[k] = r /\ k = Len(toProxy')
  <2>1. CASE k \in DOMAIN toProxy
    BY <1>4, <1>5, <1>6, <1>7, <2>1, MoreRequests DEF NothingQueued, FromMain
  <2>2. CASE k = Len(toProxy) + 1
    BY <1>5, <1>6, <2>2, MoreRequests
  <2>3. QED BY <1>5, <1>6, <2>1, <2>2, MoreRequests
<1>8. toMain' = <<>> /\ Nobody'
  BY <1>n, <1>4 DEF onProxyServiceConnected
<1>9. WhenIdle' /\ WhenRunning' /\ WhenStopping'
  BY <1>1, <1>3 DEF WhenIdle, WhenRunning, WhenStopping
<1>10. WhenStarting'
  BY <1>1, <1>4, <1>7, <1>8 DEF WhenStarting, Connecting
<1>11. OneService'
  <2>1. job' # NoJob => job'.service \in Services
    BY DEF Rest, Placed, OneService, onProxyServiceConnected
  <2>2. QED BY <1>1, <1>5, <1>7, <1>8, <2>1 DEF OneService, Nobody
<1>12. Running'
  <2>1. job' = job /\ svc' = svc /\ mishaps' = mishaps /\ UNCHANGED tun
    BY DEF onProxyServiceConnected
  <2>2. QED BY <1>1, <1>3, <1>8, <2>1 DEF Rest, Running, Serves, AllNoticed
<1>13. FirstProcess'
  <2>1. job' = job /\ svc' = svc /\ mishaps' = mishaps /\ orphans' = orphans /\ UNCHANGED tun
    BY DEF onProxyServiceConnected
  <2>2. SUFFICES ASSUME "main died" \notin mishaps PROVE \A k \in DOMAIN toProxy' : FromMain(k)'
    BY <2>1 DEF Rest, FirstProcess, Ours
  <2>3. \A k \in DOMAIN toProxy : FromMain(k)
    BY <2>2 DEF Rest, FirstProcess
  <2>4. QED BY <1>5, <1>6, <2>3, MoreRequests DEF FromMain
<1>14. QED BY <1>9, <1>10, <1>11, <1>12, <1>13 DEF Rest, Placed

LEMMA RestDisconnected ==
    ASSUME TypeOK, Rest, onProxyServiceDisconnected PROVE Rest'
<1>s. \A s \in Services : Ours(s)' <=> Ours(s)
  BY DEF onProxyServiceDisconnected, Ours
<1>n. (Nobody' <=> Nobody) /\ (JobIsOurs' <=> JobIsOurs) /\ (NothingQueued' <=> NothingQueued)
  BY DEF onProxyServiceDisconnected, Nobody, JobIsOurs, Ours, NothingQueued, FromMain
<1>1. /\ pm'.status = pm.status /\ pm'.bound = pm.bound /\ ~pm'.connected
      /\ pm'.messenger = NoService /\ pm.bound
  BY DEF onProxyServiceDisconnected, TypeOK, Manager
<1>2. current = NoService
  BY DEF onProxyServiceDisconnected, Rest, Placed, OneService
<1>3. UNCHANGED <<current, svc, job, tun, toProxy, toMain, orphans, mishaps>>
  BY DEF onProxyServiceDisconnected
<1>4. ~Connecting'
  BY <1>2, <1>3 DEF Connecting
<1>5. pm.status # "IDLE"
  BY <1>1 DEF Rest, Placed, WhenIdle
<1>6. WhenIdle' /\ WhenRunning' /\ WhenStopping' /\ WhenStarting'
  BY <1>n, <1>1, <1>3, <1>4, <1>5
     DEF Rest, Placed, WhenIdle, WhenRunning, WhenStopping, WhenStarting, FromMain
<1>7. OneService'
  BY <1>s, <1>1, <1>3 DEF Rest, Placed, OneService, FromMain
<1>8. Running' /\ FirstProcess'
  BY <1>1, <1>3 DEF Rest, Running, Serves, AllNoticed, FirstProcess, Ours, FromMain
<1>9. QED BY <1>6, <1>7, <1>8 DEF Rest, Placed

LEMMA RestAnswers ==
    ASSUME TypeOK, Rest, Answers PROVE Rest'
<1>s. (\A s \in Services : Ours(s)' <=> Ours(s)) /\ svc' = svc /\ job' = job /\ toProxy' = toProxy
      /\ orphans' = orphans /\ mishaps' = mishaps /\ UNCHANGED tun
  BY DEF Answers, onMessageStartProxyResponse, onMessageStopProxyResponse, Ours
<1>n. (Nobody' <=> Nobody) /\ (JobIsOurs' <=> JobIsOurs) /\ (NothingQueued' <=> NothingQueued)
  BY <1>s DEF Nobody, JobIsOurs, Ours, NothingQueued, FromMain
<1>f. FirstProcess'
  BY <1>s DEF Rest, FirstProcess, FromMain, Ours
<1>t. toMain # <<>> /\ toMain' = Tail(toMain) /\ Placed
  BY DEF Rest, Answers, onMessageStartProxyResponse, onMessageStopProxyResponse
<1>e. toMain' = <<>>
  BY <1>t, AnswerIsAwaited
<1>1. CASE onMessageStartProxyResponse
  <2>1. pm.status = "STARTING" /\ toMain = <<"START">>
    BY <1>1, <1>t, AnswerIsAwaited DEF onMessageStartProxyResponse
  <2>2. /\ pm'.status = "RUNNING" /\ pm'.bound = pm.bound /\ pm'.connected = pm.connected
        /\ pm'.messenger = pm.messenger /\ current' = current
    BY <1>1 DEF onMessageStartProxyResponse, TypeOK, Manager
  <2>3. pm.bound /\ ~Connecting /\ NothingQueued /\ ~JobIsOurs
    BY <1>t, <2>1 DEF Placed, WhenStarting, NothingQueued
  <2>4. ~Connecting'
    BY <2>2, <2>3 DEF Connecting
  <2>5. WhenIdle' /\ WhenRunning' /\ WhenStopping' /\ WhenStarting'
    BY <1>n, <1>e, <2>2, <2>3, <2>4 DEF WhenIdle, WhenRunning, WhenStopping, WhenStarting
  <2>6. OneService'
    BY <1>s, <2>2 DEF Rest, Placed, OneService, FromMain
  <2>7. Running'
    BY <1>s, <2>1, <2>2 DEF Rest, Running, Serves, AllNoticed, Ours
  <2>8. QED BY <1>f, <2>5, <2>6, <2>7 DEF Rest, Placed
<1>2. CASE onMessageStopProxyResponse
  <2>1. pm.status = "STOPPING" /\ toMain = <<"STOP">>
    BY <1>2, <1>t, AnswerIsAwaited DEF onMessageStopProxyResponse
  <2>2. /\ pm'.status = "IDLE" /\ ~pm'.bound /\ ~pm'.connected
        /\ pm'.messenger = pm.messenger /\ current' = NoService
    BY <1>2 DEF onMessageStopProxyResponse, TypeOK, Manager
  <2>3. Nobody /\ NothingQueued
    BY <1>t, <2>1 DEF Placed, WhenStopping, NothingQueued
  <2>4. WhenIdle' /\ WhenRunning' /\ WhenStopping' /\ WhenStarting'
    BY <1>n, <1>e, <2>2, <2>3 DEF WhenIdle, WhenRunning, WhenStopping, WhenStarting
  <2>5. OneService'
    BY <1>s, <1>n, <2>2, <2>3 DEF Rest, Placed, OneService, Nobody, NothingQueued
  <2>6. Running'
    BY <1>s, <1>e, <2>2 DEF Rest, Running, Serves, AllNoticed
  <2>7. QED BY <1>f, <2>4, <2>5, <2>6 DEF Rest, Placed
<1>3. QED BY <1>1, <1>2 DEF Answers

-----------------------------------------------------------------------------
(* Where the operation is: the steps of the service *)

\* A request of this main process is the last one, and no other is left when it is handled.
LEMMA AfterFirst ==
    ASSUME TypeOK, OneService, toProxy # <<>>, toProxy' = Tail(toProxy)
    PROVE  /\ \A k \in DOMAIN toProxy' :
                 /\ k + 1 \in DOMAIN toProxy /\ toProxy'[k] = toProxy[k + 1]
                 /\ FromMain(k)' => FromMain(k + 1) /\ k = Len(toProxy')
           /\ FromMain(1) => DOMAIN toProxy' = {}
           /\ 1 \in DOMAIN toProxy /\ Head(toProxy) = toProxy[1]
<1>1. /\ toProxy' \in Seq(Request) /\ Len(toProxy') = Len(toProxy) - 1 /\ Len(toProxy) >= 1
      /\ 1 \in DOMAIN toProxy /\ Head(toProxy) = toProxy[1]
      /\ \A k \in DOMAIN toProxy' : k + 1 \in DOMAIN toProxy /\ toProxy'[k] = toProxy[k + 1]
  BY FirstRequest
<1>2. Len(toProxy) \in Nat /\ DOMAIN toProxy' = 1..Len(toProxy')
  BY <1>1 DEF TypeOK
<1>3. ASSUME NEW k \in DOMAIN toProxy', FromMain(k)'
      PROVE  FromMain(k + 1) /\ k = Len(toProxy')
  <2>1. FromMain(k + 1) /\ k + 1 \in DOMAIN toProxy
    BY <1>1, <1>3 DEF FromMain
  <2>2. k + 1 = Len(toProxy) /\ k \in Int
    BY <1>2, <2>1 DEF OneService
  <2>3. QED BY <1>1, <1>2, <2>1, <2>2
<1>4. ASSUME FromMain(1) PROVE DOMAIN toProxy' = {}
  <2>1. Len(toProxy) = 1
    BY <1>1, <1>4 DEF OneService
  <2>2. QED BY <1>1, <1>2, <2>1
<1>5. QED BY <1>1, <1>3, <1>4

\* The first request tells how far the operation is.
LEMMA RequestIsAwaited ==
    ASSUME TypeOK, Placed, NEW k \in DOMAIN toProxy, FromMain(k)
    PROVE  /\ toMain = <<>> /\ ~Connecting
           /\ pm.status = IF toProxy[k].what = "START" THEN "STARTING" ELSE "STOPPING"
           /\ toProxy[k].what = "START" => Nobody
           /\ \A s \in Services : Ours(s) => s = toProxy[k].service
           /\ pm.messenger \in {toProxy[k].service, NoService}
<1>1. pm.status \in {"STARTING", "STOPPING"}
  BY ManagerFields DEF Placed, WhenIdle, WhenRunning, NothingQueued
<1>2. CASE pm.status = "STARTING"
  BY <1>2 DEF Placed, WhenStarting, OneService, NothingQueued
<1>3. CASE pm.status = "STOPPING"
  BY <1>3 DEF Placed, WhenStopping, OneService
<1>4. QED BY <1>1, <1>2, <1>3

\* Before a request that an earlier main process has left, nothing answers to this one.
LEMMA LeftRequest ==
    ASSUME Rest, NEW k \in DOMAIN toProxy, ~FromMain(k)
    PROVE  /\ Nobody /\ "main died" \in mishaps
           /\ AllNoticed => pm.status # "RUNNING" /\ toMain # <<"START">>
<1>1. Nobody
  BY DEF Rest, Placed, OneService, Nobody
<1>2. "main died" \in mishaps
  BY DEF Rest, FirstProcess
<1>3. AllNoticed => pm.status # "RUNNING" /\ toMain # <<"START">>
  BY <1>1 DEF Rest, Running, Serves, AllNoticed, Nobody
<1>4. QED BY <1>1, <1>2, <1>3

LEMMA RestStartRequest ==
    ASSUME TypeOK, Rest, NEW r \in {"vpn", "tl", "tun", "ok"}, onMessageStartProxyRequest(r)
    PROVE  Rest'
<1> DEFINE m == Head(toProxy)
           s == m.service
<1>1. /\ toProxy # <<>> /\ m.what = "START" /\ toProxy' = Tail(toProxy)
      /\ pm' = pm /\ current' = current /\ toMain' = toMain
      /\ vpn' = IF r = "vpn" THEN vpn ELSE s
      /\ orphans' = (orphans \/ Overwrites(svc[s], r))
  BY StartRequest
<1>2. OneService
  BY DEF Rest, Placed
<1>3. /\ m = toProxy[1] /\ 1 \in DOMAIN toProxy
      /\ s \in Services /\ m.from \in {"main", "dead"}
  BY <1>1, <1>2, AfterFirst, RequestFields
<1>4. PICK p \in Programs \cup {NoProgram} :
         /\ svc'[s] = Started(svc[s], m.from, r, p)
         /\ \A t \in Services : t # s => svc'[t] = svc[t]
         /\ \A q \in Programs : tun2socks'[q] # "none" =>
                tun2socks[q] # "none" \/ (r = "ok" /\ q = p)
  BY StartRequest
<1>5. /\ svc'[s].client = m.from
      /\ r = "ok" => svc'[s].fd /\ svc'[s].tl /\ svc'[s].tun = p
  <2> DEFINE i == svc[s]
  <2>1. svc'[s] = [client |-> m.from,
                   fd |-> r # "vpn" \/ i.fd,
                   tl |-> r \in {"tun", "ok"} \/ i.tl,
                   tun |-> IF r = "ok" THEN p ELSE i.tun]
    BY <1>4 DEF Started
  <2>2. /\ svc'[s].client = m.from
        /\ svc'[s].fd = (r # "vpn" \/ i.fd)
        /\ svc'[s].tl = (r \in {"tun", "ok"} \/ i.tl)
        /\ r = "ok" => svc'[s].tun = p
    <3> HIDE DEF m, s, i
    <3>1. QED BY <2>1
  <2>3. QED BY <2>2
<1>6. /\ job' = NoJob \/ (r = "ok" /\ job' = [service |-> s, tries |-> 0])
      /\ mishaps \subseteq mishaps' /\ (AllNoticed' => AllNoticed)
  <2>1. job' = NoJob \/ (r = "ok" /\ job' = [service |-> s, tries |-> 0])
    BY StartRequest
  <2>2. mishaps' = mishaps \/ mishaps' = mishaps \cup {"start failed"}
    BY StartRequest DEF Happens
  <2>3. QED BY <2>1, <2>2 DEF AllNoticed
<1>7. job' # NoJob => job'.service = s /\ r = "ok"
  BY <1>6
<1>8. job' # NoJob => svc'[job'.service].fd /\ svc'[job'.service].tl /\ vpn' = job'.service
  BY <1>1, <1>5, <1>7
<1>q. \A k \in DOMAIN toProxy' :
         /\ k + 1 \in DOMAIN toProxy /\ toProxy'[k] = toProxy[k + 1]
         /\ FromMain(k)' => FromMain(k + 1) /\ k = Len(toProxy')
  BY <1>1, <1>2, AfterFirst
<1>c. Connecting' <=> Connecting
  BY <1>1 DEF Connecting
<1> HIDE DEF m, s
<1>9. CASE FromMain(1)
  <2>1. /\ toMain = <<>> /\ ~Connecting /\ pm.status = "STARTING" /\ Nobody
        /\ pm.messenger \in {s, NoService}
    BY <1>1, <1>3, <1>9, RequestIsAwaited DEF Rest, s
  <2>2. DOMAIN toProxy' = {}
    BY <1>1, <1>2, <1>9, AfterFirst
  <2>3. \A t \in Services : Ours(t)' <=> t = s
    BY <1>3, <1>4, <1>5, <1>9, <2>1 DEF Ours, Nobody, FromMain
  <2>4. pm.bound
    BY <2>1 DEF Rest, Placed, WhenStarting
  <2>5. WhenIdle' /\ WhenRunning' /\ WhenStopping'
    BY <1>1, <2>1 DEF WhenIdle, WhenRunning, WhenStopping
  <2>6. WhenStarting'
    BY <1>1, <1>c, <2>1, <2>2, <2>4 DEF WhenStarting
  <2>7. OneService'
    <3>1. pm'.connected /\ current' # NoService => current' = pm'.messenger
      BY <1>1, <1>2 DEF OneService
    <3>2. QED BY <1>1, <1>3, <1>7, <2>1, <2>2, <2>3, <3>1 DEF OneService
  <2>8. Running'
    <3>1. toMain # <<"START">>
      BY <2>1, OneAnswer
    <3>2. QED BY <1>1, <1>8, <2>1, <3>1 DEF Running
  <2>9. FirstProcess'
    <3>1. SUFFICES ASSUME "main died" \notin mishaps
          PROVE  /\ ~orphans' /\ \A t \in Services : Ours(t)' \/ svc'[t] = FreshInstance
                 /\ \A q \in Programs : tun2socks'[q] # "none" =>
                        \E t \in Services : Ours(t)' /\ svc'[t].tun = q
                 /\ vpn' # NoService => Ours(vpn)'
                 /\ job' # NoJob => Ours(job.service)'
      BY <1>6, <2>2 DEF FirstProcess, Ours
    <3>2. /\ ~orphans /\ \A t \in Services : svc[t] = FreshInstance
          /\ \A q \in Programs : tun2socks[q] = "none"
          /\ vpn = NoService
      BY <2>1, <3>1 DEF Rest, FirstProcess, Nobody, TypeOK
    <3>3. ~Overwrites(svc[s], r)
      BY <1>3, <3>2 DEF Overwrites, FreshInstance
    <3>4. ~orphans'
      BY <1>1, <3>2, <3>3
    <3>5. \A q \in Programs : tun2socks'[q] # "none" => svc'[s].tun = q
      BY <1>4, <1>5, <3>2
    <3>6. vpn' # NoService => vpn' = s
      BY <1>1, <3>2
    <3>7. svc'[s].client = "main"
      BY <1>3, <2>3 DEF Ours
    <3>8. QED BY <1>3, <1>4, <1>7, <2>3, <3>2, <3>4, <3>5, <3>6, <3>7 DEF Ours
  <2>10. QED BY <2>5, <2>6, <2>7, <2>8, <2>9 DEF Rest, Placed
<1>10. CASE ~FromMain(1)
  <2>1. /\ Nobody /\ "main died" \in mishaps
        /\ AllNoticed => pm.status # "RUNNING" /\ toMain # <<"START">>
    BY <1>3, <1>10, LeftRequest
  <2>2. Nobody'
    BY <1>3, <1>4, <1>5, <1>10, <2>1 DEF Ours, Nobody, FromMain
  <2>3. ~JobIsOurs'
    BY <1>3, <1>7, <2>2 DEF JobIsOurs, Nobody, Ours
  <2>4. NothingQueued => NothingQueued'
    BY <1>q DEF NothingQueued
  <2>5. WhenIdle' /\ WhenRunning'
    BY <1>1, <1>c, <2>2, <2>3, <2>4 DEF Rest, Placed, WhenIdle, WhenRunning
  <2>6. WhenStarting'
    BY <1>1, <1>c, <1>q, <2>2, <2>3, <2>4 DEF Rest, Placed, WhenStarting
  <2>7. WhenStopping'
    BY <1>1, <1>c, <1>q, <2>2, <2>3 DEF Rest, Placed, WhenStopping
  <2>8. OneService'
    BY <1>1, <1>2, <1>3, <1>7, <1>q, <2>2 DEF OneService, Nobody
  <2>9. Running' /\ FirstProcess'
    BY <1>1, <1>6, <1>8, <2>1 DEF Running, Serves, AllNoticed, FirstProcess
  <2>10. QED BY <2>5, <2>6, <2>7, <2>8, <2>9 DEF Rest, Placed
<1>11. QED BY <1>9, <1>10

LEMMA RestStopRequest ==
    ASSUME TypeOK, Rest, onMessageStopProxyRequest PROVE Rest'
<1> DEFINE s == Head(toProxy).service
           c == IF svc[s].client = "main" THEN "none" ELSE svc[s].client
<1>1. /\ toProxy # <<>> /\ Head(toProxy).what = "STOP" /\ toProxy' = Tail(toProxy)
      /\ svc' = [svc EXCEPT ![s] = [FreshInstance EXCEPT !.client = c]]
      /\ pm' = pm /\ current' \in {current, NoService} /\ toMain' = Answered(svc[s], "STOP")
      /\ job = NoJob /\ job' = job /\ orphans' = orphans /\ mishaps' = mishaps
      /\ tun2socks' = [p \in Programs |-> IF p = svc[s].tun THEN "none" ELSE tun2socks[p]]
      /\ vpn' = VpnWith(vpn # NoService /\ vpn # s /\ svc[vpn].fd, tun2socks')
  BY DEF onMessageStopProxyRequest
<1>2. OneService
  BY DEF Rest, Placed
<1>3. Head(toProxy) = toProxy[1] /\ 1 \in DOMAIN toProxy /\ s \in Services
  BY <1>1, <1>2, AfterFirst, RequestFields
<1>4. /\ svc'[s] = [FreshInstance EXCEPT !.client = c]
      /\ \A t \in Services : t # s => svc'[t] = svc[t]
  BY <1>1, <1>3 DEF TypeOK
<1>5. svc'[s].client # "main"
  BY <1>4 DEF FreshInstance
<1>6. \A t \in Services : Ours(t)' => t # s /\ Ours(t)
  BY <1>4, <1>5 DEF Ours
<1>7. ~JobIsOurs'
  BY <1>1 DEF JobIsOurs
<1>q. \A k \in DOMAIN toProxy' :
         /\ k + 1 \in DOMAIN toProxy /\ toProxy'[k] = toProxy[k + 1]
         /\ FromMain(k)' => FromMain(k + 1) /\ k = Len(toProxy')
  BY <1>1, <1>2, AfterFirst
<1>c. Connecting' => Connecting
  BY <1>1 DEF Connecting
<1>m. pm'.connected /\ current' # NoService => current' = pm'.messenger
  BY <1>1, <1>2 DEF OneService
<1>a. toMain' = IF Ours(s) THEN Append(toMain, "STOP") ELSE toMain
  BY <1>1 DEF Answered, Ours
<1> HIDE DEF s, c
<1>8. CASE FromMain(1)
  <2>1. /\ toMain = <<>> /\ ~Connecting /\ pm.status = "STOPPING"
        /\ \A t \in Services : Ours(t) => t = s
    BY <1>1, <1>3, <1>8, RequestIsAwaited DEF Rest, s
  <2>2. DOMAIN toProxy' = {}
    BY <1>1, <1>2, <1>8, AfterFirst
  <2>3. Nobody'
    BY <1>6, <2>1 DEF Nobody
  <2>4. toMain' = <<>> \/ toMain' = <<"STOP">>
    BY <1>a, <2>1, OneAnswer
  <2>5. toMain' # <<"START">>
    <3>1. "STOP" # "START"
      OBVIOUS
    <3>2. QED BY <2>4, <3>1, OneAnswer
  <2>6. pm.bound
    BY <2>1 DEF Rest, Placed, WhenStopping
  <2>7. WhenIdle' /\ WhenRunning' /\ WhenStarting'
    BY <1>1, <2>1 DEF WhenIdle, WhenRunning, WhenStarting
  <2>8. WhenStopping'
    BY <1>1, <1>7, <1>c, <2>1, <2>2, <2>3, <2>4, <2>6 DEF WhenStopping
  <2>9. OneService'
    BY <1>1, <1>m, <2>2, <2>3 DEF OneService, Nobody
  <2>10. Running'
    BY <1>1, <2>1, <2>5 DEF Running, Serves, AllNoticed
  <2>11. FirstProcess'
    <3>1. SUFFICES ASSUME "main died" \notin mishaps
          PROVE  /\ \A t \in Services : Ours(t)' \/ svc'[t] = FreshInstance
                 /\ \A p \in Programs : tun2socks'[p] = "none"
                 /\ vpn' = NoService
      BY <1>1, <2>2 DEF Rest, FirstProcess, Ours
    <3>p. \A p \in Programs : tun2socks'[p] = "none"
      <4>1. \A p \in Programs : tun2socks[p] # "none" => p = svc[s].tun
        BY <2>1, <3>1 DEF Rest, FirstProcess
      <4>2. QED BY <1>1, <4>1
    <3>v. vpn' = NoService
      <4>1. vpn # NoService => vpn = s
        BY <2>1, <3>1 DEF Rest, FirstProcess, TypeOK
      <4>2. QED BY <1>1, <3>p, <4>1 DEF VpnWith, Holds
    <3>2. \A t \in Services : Ours(t) \/ svc[t] = FreshInstance
      BY <3>1 DEF Rest, FirstProcess
    <3>3. c = "none"
      BY <1>3, <3>2 DEF c, Ours, FreshInstance
    <3>4. svc'[s] = FreshInstance
      BY <1>4, <3>3 DEF FreshInstance
    <3>5. QED BY <1>4, <2>1, <3>2, <3>4, <3>p, <3>v
  <2>12. QED BY <2>7, <2>8, <2>9, <2>10, <2>11 DEF Rest, Placed
<1>9. CASE ~FromMain(1)
  <2>1. /\ Nobody /\ "main died" \in mishaps
        /\ AllNoticed => pm.status # "RUNNING" /\ toMain # <<"START">>
    BY <1>3, <1>9, LeftRequest
  <2>2. toMain' = toMain /\ Nobody'
    BY <1>3, <1>6, <1>a, <2>1 DEF Nobody
  <2>3. NothingQueued => NothingQueued'
    BY <1>q DEF NothingQueued
  <2>4. WhenIdle' /\ WhenRunning'
    BY <1>1, <1>7, <1>c, <2>2, <2>3 DEF Rest, Placed, WhenIdle, WhenRunning
  <2>5. WhenStarting'
    BY <1>1, <1>7, <1>c, <1>q, <2>2, <2>3 DEF Rest, Placed, WhenStarting
  <2>6. WhenStopping'
    BY <1>1, <1>7, <1>c, <1>q, <2>2 DEF Rest, Placed, WhenStopping
  <2>7. OneService'
    BY <1>1, <1>2, <1>m, <1>q, <2>2 DEF OneService, Nobody
  <2>8. Running' /\ FirstProcess'
    BY <1>1, <2>1, <2>2 DEF Running, Serves, AllNoticed, FirstProcess
  <2>9. QED BY <2>4, <2>5, <2>6, <2>7, <2>8 DEF Rest, Placed
<1>10. QED BY <1>8, <1>9

\* A start that succeeds was asked for by this process just if it is answered.
LEMMA RestFdSent ==
    ASSUME TypeOK, Rest, FdSent PROVE Rest'
<1>1. /\ job # NoJob /\ job' = NoJob /\ toMain' = Answered(svc[job.service], "START")
      /\ UNCHANGED <<ui, pm, current, svc, path, vpn, toProxy, orphans>>
      /\ Reachable /\ mishaps \subseteq mishaps'
  BY DEF FdSent, Happens
<1>2. PICK s \in Services : s = job.service
  BY <1>1 DEF Rest, Placed, OneService
<1>3. /\ path \in Programs /\ tun2socks[path] # "none"
      /\ \A p \in Programs : tun2socks'[p] = "none" <=> tun2socks[p] = "none"
  <2>1. path \in Programs /\ tun2socks[path] \in {"listening", "handed", "outdated"}
    BY <1>1 DEF Reachable, TypeOK
  <2>2. \/ tun2socks' = tun2socks
        \/ \E x \in {"handed", "outdated"} : tun2socks' = [tun2socks EXCEPT ![path] = x]
    BY DEF FdSent
  <2>3. QED BY <2>1, <2>2 DEF TypeOK
\* Unless it is lost, the descriptor of the interface is handed to the first who listens.
<1>h. AllNoticed' =>
         /\ AllNoticed /\ mishaps' = mishaps
         /\ vpn = s => tun2socks' = [tun2socks EXCEPT ![path] = "handed"]
  <2>1. \/ mishaps' = mishaps
        \/ "descriptor lost" \in mishaps'
    BY DEF FdSent, Happens
  <2>2. AllNoticed' => mishaps' = mishaps /\ AllNoticed
    BY <2>1 DEF AllNoticed, Unnoticed
  <2>3. AllNoticed' /\ vpn = s => tun2socks' = [tun2socks EXCEPT ![path] = "handed"]
    BY <1>2 DEF FdSent, Happens, AllNoticed, Unnoticed
  <2>4. QED BY <2>2, <2>3
<1>s. \A t \in Services : Ours(t)' <=> Ours(t)
  BY <1>1 DEF Ours
<1>n. /\ Nobody' <=> Nobody
      /\ NothingQueued' <=> NothingQueued
      /\ Connecting' <=> Connecting
      /\ ~JobIsOurs'
  BY <1>1, <1>s DEF Nobody, NothingQueued, Connecting, JobIsOurs, FromMain
<1>5. OneService'
  BY <1>1, <1>s DEF Rest, Placed, OneService, FromMain
<1>6. FirstProcess'
  <2>1. SUFFICES ASSUME "main died" \notin mishaps PROVE FirstProcess'
    BY <1>1 DEF FirstProcess
  <2>2. \A p \in Programs : tun2socks'[p] # "none" => \E t \in Services : Ours(t) /\ svc[t].tun = p
    BY <1>3, <2>1 DEF Rest, FirstProcess
  <2>3. QED BY <1>1, <2>1, <2>2 DEF Rest, FirstProcess, FromMain, Ours
<1>p. AllNoticed => svc[s].fd /\ svc[s].tl /\ vpn = s
  BY <1>1, <1>2 DEF Rest, Running
<1>a. toMain' = IF Ours(s) THEN Append(toMain, "START") ELSE toMain
  BY <1>1, <1>2 DEF Answered, Ours
<1>7. CASE Ours(s)
  <2>1. JobIsOurs
    BY <1>1, <1>2, <1>7 DEF JobIsOurs
  <2>2. ~Nobody
    BY <1>2, <1>7 DEF Nobody
  <2>3. pm.status = "STARTING"
    BY <2>1, <2>2, ManagerFields DEF Rest, Placed, WhenIdle, WhenRunning, WhenStopping
  <2>4. pm.bound /\ ~Connecting /\ NothingQueued /\ toMain = <<>>
    BY <2>1, <2>2, <2>3 DEF Rest, Placed, WhenStarting, NothingQueued
  <2>5. toMain' = <<"START">>
    BY <1>7, <1>a, <2>4, OneAnswer
  <2>6. WhenIdle' /\ WhenRunning' /\ WhenStopping'
    BY <1>1, <2>3 DEF WhenIdle, WhenRunning, WhenStopping
  <2>7. WhenStarting'
    BY <1>1, <1>n, <2>4, <2>5 DEF WhenStarting, NothingQueued
  <2>8. Running'
    <3>1. SUFFICES ASSUME AllNoticed' PROVE Serves(s)'
      BY <1>1, <1>2 DEF Running
    <3>2. svc[s].fd /\ svc[s].tl /\ vpn = s /\ mishaps' = mishaps
          /\ tun2socks' = [tun2socks EXCEPT ![path] = "handed"]
      BY <1>h, <1>p, <3>1
    <3>3. Holds(tun2socks'[path])
      BY <1>3, <3>2 DEF Holds, TypeOK
    <3>4. ASSUME "main died" \notin mishaps PROVE path = svc[s].tun
      <4>1. PICK t \in Services : Ours(t) /\ svc[t].tun = path
        BY <1>3, <3>4 DEF Rest, FirstProcess
      <4>2. t = s
        BY <1>2, <1>7, <4>1 DEF Rest, Placed, OneService
      <4>3. QED BY <4>1, <4>2
    <3>5. Ours(s)'
      BY <1>2, <1>7, <1>s
    <3>6. QED BY <1>1, <1>3, <3>2, <3>3, <3>4, <3>5 DEF Serves
  <2>9. QED BY <1>5, <1>6, <2>6, <2>7, <2>8 DEF Rest, Placed
<1>8. CASE ~Ours(s)
  <2>1. toMain' = toMain
    BY <1>8, <1>a
  <2>2. WhenIdle' /\ WhenRunning' /\ WhenStopping' /\ WhenStarting'
    BY <1>1, <1>n, <2>1
       DEF Rest, Placed, WhenIdle, WhenRunning, WhenStopping, WhenStarting, FromMain
  <2>3. Running'
    <3>1. SUFFICES ASSUME AllNoticed, pm.status = "RUNNING" \/ toMain = <<"START">> PROVE FALSE
      BY <1>1, <1>h, <2>1 DEF Running
    <3>2. PICK t \in Services : Serves(t)
      BY <3>1 DEF Rest, Running
    <3>3. QED BY <1>8, <1>p, <3>1, <3>2 DEF Serves
  <2>4. QED BY <1>5, <1>6, <2>2, <2>3 DEF Rest, Placed
<1>9. QED BY <1>7, <1>8

LEMMA RestFdFails ==
    ASSUME TypeOK, Rest, FdFails PROVE Rest'
<1>1. /\ job # NoJob
      /\ UNCHANGED <<ui, pm, current, svc, tun, toProxy, toMain, orphans>>
      /\ job' = NoJob \/ job'.service = job.service
      /\ mishaps \subseteq mishaps' /\ (AllNoticed' => AllNoticed)
  <2>1. job' = NoJob \/ job' = [job EXCEPT !.tries = job.tries + 1]
    BY DEF FdFails
  <2>2. mishaps' = mishaps \/ mishaps' = mishaps \cup {"start failed"}
    BY DEF FdFails, Happens
  <2>3. QED BY <2>1, <2>2 DEF FdFails, TypeOK, AllNoticed
<1>s. \A t \in Services : Ours(t)' <=> Ours(t)
  BY <1>1 DEF Ours
<1>n. /\ Nobody' <=> Nobody
      /\ NothingQueued' <=> NothingQueued
      /\ Connecting' <=> Connecting
      /\ JobIsOurs' => JobIsOurs
  BY <1>1, <1>s DEF Nobody, NothingQueued, Connecting, JobIsOurs, FromMain, Ours
<1>2. WhenIdle' /\ WhenRunning' /\ WhenStopping' /\ WhenStarting'
  BY <1>1, <1>n DEF Rest, Placed, WhenIdle, WhenRunning, WhenStopping, WhenStarting, FromMain
<1>3. OneService'
  BY <1>1, <1>s DEF Rest, Placed, OneService, FromMain
<1>4. Running' /\ FirstProcess'
  BY <1>1 DEF Rest, Running, Serves, AllNoticed, FirstProcess, Ours, FromMain
<1>5. QED BY <1>2, <1>3, <1>4 DEF Rest, Placed

-----------------------------------------------------------------------------
(* Where the operation is: the programs, and Android *)

\* A step of a program changes what runs, not whom an instance answers to.
LEMMA SameOwner ==
    ASSUME TypeOK, Rest, \A t \in Services : Ours(t)' <=> Ours(t),
           UNCHANGED <<pm, current, job, toProxy, toMain>>
    PROVE  Placed'
<1>1. job # NoJob => job.service \in Services
  BY DEF Rest, Placed, OneService
<1>2. /\ Nobody' <=> Nobody
      /\ NothingQueued' <=> NothingQueued
      /\ Connecting' <=> Connecting
      /\ JobIsOurs' <=> JobIsOurs
  BY <1>1 DEF Nobody, NothingQueued, Connecting, JobIsOurs, FromMain, Ours
<1>3. WhenIdle' /\ WhenRunning' /\ WhenStopping' /\ WhenStarting'
  BY <1>2 DEF Rest, Placed, WhenIdle, WhenRunning, WhenStopping, WhenStarting, FromMain
<1>4. OneService'
  BY DEF Rest, Placed, OneService, FromMain
<1>5. QED BY <1>3, <1>4 DEF Placed

\* What starts or gets its descriptor is where it was, and what held one still does.
LEMMA RestTun2Socks ==
    ASSUME TypeOK, Rest, NEW p \in Programs, Tun2SocksListens(p) \/ Tun2SocksGetsFd(p)
    PROVE  Rest'
<1>1. /\ UNCHANGED <<ui, pm, current, svc, job, vpn, toProxy, toMain, orphans, mishaps>>
      /\ tun2socks[p] \in {"starting", "handed", "outdated"}
      /\ \E x \in Tun2SocksStates : /\ tun2socks' = [tun2socks EXCEPT ![p] = x]
                                    /\ Holds(tun2socks[p]) => Holds(x)
  BY DEF Tun2SocksListens, Tun2SocksGetsFd, Tun2SocksStates, Holds
<1>2. \A q \in Programs : /\ Holds(tun2socks[q]) => Holds(tun2socks'[q])
                          /\ tun2socks'[q] # "none" => tun2socks[q] # "none"
  BY <1>1 DEF TypeOK
<1>3. \A t \in Services : (Ours(t)' <=> Ours(t)) /\ (Serves(t) => Serves(t)')
  BY <1>1, <1>2 DEF Ours, Serves
<1>4. Placed'
  BY <1>1, <1>3, SameOwner
<1>5. Running'
  BY <1>1, <1>3 DEF Rest, Running, AllNoticed
<1>6. FirstProcess'
  BY <1>1, <1>2, <1>3 DEF Rest, FirstProcess, FromMain, Ours
<1>7. QED BY <1>4, <1>5, <1>6 DEF Rest

\* What nobody is told of can only stop something.
LEMMA RestExits ==
    ASSUME TypeOK, Rest, Exits \/ Revoked PROVE Rest'
<1>1. /\ UNCHANGED <<ui, pm, current, job, toProxy, toMain, orphans>>
      /\ mishaps \subseteq mishaps' /\ ~AllNoticed' /\ vpn' \in {vpn, NoService}
      /\ \A p \in Programs : tun2socks'[p] # "none" => tun2socks[p] # "none"
  <2>1. ASSUME NEW t \in Services, TlClientExits(t)
        PROVE  /\ UNCHANGED <<ui, pm, current, job, tun, toProxy, toMain, orphans>>
               /\ "died" \in mishaps' /\ mishaps \subseteq mishaps'
    BY <2>1 DEF TlClientExits, Happens
  <2>2. ASSUME NEW p \in Programs, Tun2SocksExits(p)
        PROVE  /\ UNCHANGED <<ui, pm, current, job, toProxy, toMain, orphans>>
               /\ "died" \in mishaps' /\ mishaps \subseteq mishaps'
               /\ vpn' \in {vpn, NoService}
               /\ \A q \in Programs : tun2socks'[q] # "none" => tun2socks[q] # "none"
    BY <2>2, VpnWithType DEF Tun2SocksExits, Happens, TypeOK
  <2>3. ASSUME Revoked
        PROVE  /\ UNCHANGED <<ui, pm, current, job, toProxy, toMain, orphans>>
               /\ "revoked" \in mishaps' /\ mishaps \subseteq mishaps'
               /\ vpn' \in {vpn, NoService}
               /\ \A q \in Programs : tun2socks'[q] # "none" => tun2socks[q] # "none"
    BY <2>3, WithoutDeviceType DEF Revoked, Happens
  <2>4. QED BY <2>1, <2>2, <2>3 DEF Exits, AllNoticed, Unnoticed
<1>2. \A t \in Services : /\ Ours(t)' <=> Ours(t)
                          /\ svc'[t].tun = svc[t].tun
                          /\ ~Ours(t) /\ svc[t] = FreshInstance => svc'[t] = FreshInstance
  <2>1. ASSUME NEW s \in Services, TlClientExits(s), NEW t \in Services
        PROVE  /\ svc'[t].client = svc[t].client /\ svc'[t].tun = svc[t].tun
               /\ svc[t] = FreshInstance => svc'[t] = FreshInstance
    <3>1. svc' = [svc EXCEPT ![s] = [svc[s] EXCEPT !.tl = FALSE]] /\ svc[s].tl
      BY <2>1 DEF TlClientExits
    <3>2. svc[s] \in Instance /\ svc[s] # FreshInstance
      BY <3>1, InstanceFields DEF FreshInstance
    <3>3. CASE t = s
      <4>1. svc'[s] = [svc[s] EXCEPT !.tl = FALSE]
        BY <3>1 DEF TypeOK
      <4>2. QED BY <3>2, <3>3, <4>1 DEF Instance
    <3>4. CASE t # s
      BY <3>1, <3>4 DEF TypeOK
    <3>5. QED BY <3>3, <3>4
  <2>2. ASSUME Revoked \/ \E p \in Programs : Tun2SocksExits(p) PROVE svc' = svc
    BY <2>2 DEF Revoked, Tun2SocksExits
  <2>3. QED BY <2>1, <2>2 DEF Exits, Ours
<1>3. Placed'
  BY <1>1, <1>2, SameOwner
<1>4. Running'
  BY <1>1 DEF Running
<1>5. FirstProcess'
  <2>1. SUFFICES ASSUME "main died" \notin mishaps PROVE FirstProcess'
    BY <1>1 DEF FirstProcess
  <2>2. /\ ~orphans' /\ \A k \in DOMAIN toProxy' : FromMain(k)'
        /\ \A s \in Services : Ours(s)' \/ svc'[s] = FreshInstance
    BY <1>1, <1>2, <2>1 DEF Rest, FirstProcess, FromMain
  <2>3. \A p \in Programs : tun2socks'[p] # "none" =>
            \E s \in Services : Ours(s)' /\ svc'[s].tun = p
    BY <1>1, <1>2, <2>1 DEF Rest, FirstProcess
  <2>4. vpn' # NoService => Ours(vpn)'
    BY <1>1, <1>2, <2>1 DEF Rest, FirstProcess, TypeOK
  <2>5. job' # NoJob => Ours(job.service)'
    BY <1>1, <1>2, <2>1 DEF Rest, FirstProcess, Placed, OneService
  <2>6. QED BY <1>1, <2>2, <2>3, <2>4, <2>5 DEF FirstProcess, Ours
<1>6. QED BY <1>3, <1>4, <1>5 DEF Rest

LEMMA RestDestroyed ==
    ASSUME TypeOK, Rest, ServiceDestroyed PROVE Rest'
<1>1. /\ current' = NoService /\ UNCHANGED <<ui, pm, svc, job, tun, toProxy, toMain, orphans>>
      /\ mishaps \subseteq mishaps' /\ (AllNoticed' => AllNoticed)
  <2>1. mishaps' = mishaps \cup {"service gone"}
    BY DEF ServiceDestroyed, Happens
  <2>2. QED BY <2>1 DEF ServiceDestroyed, AllNoticed
<1>s. \A t \in Services : Ours(t)' <=> Ours(t)
  BY <1>1 DEF Ours
<1>n. /\ Nobody' <=> Nobody
      /\ NothingQueued' <=> NothingQueued
      /\ ~Connecting'
      /\ JobIsOurs' <=> JobIsOurs
  BY <1>1, <1>s DEF Nobody, NothingQueued, Connecting, JobIsOurs, FromMain, Ours
<1>2. WhenIdle' /\ WhenRunning' /\ WhenStopping' /\ WhenStarting'
  BY <1>1, <1>n DEF Rest, Placed, WhenIdle, WhenRunning, WhenStopping, WhenStarting, FromMain
<1>3. OneService'
  BY <1>1, <1>s DEF Rest, Placed, OneService, FromMain
<1>4. Running' /\ FirstProcess'
  BY <1>1 DEF Rest, Running, Serves, AllNoticed, FirstProcess, Ours, FromMain
<1>5. QED BY <1>2, <1>3, <1>4 DEF Rest, Placed

LEMMA RestProxyDies ==
    ASSUME TypeOK, Rest, ProxyDies PROVE Rest'
<1>1. /\ svc' = [s \in Services |-> FreshInstance] /\ current' = NoService /\ job' = NoJob
      /\ toProxy' = <<>> /\ ~orphans' /\ UNCHANGED <<ui, pm, toMain>>
      /\ ~AllNoticed' /\ vpn' = NoService /\ \A p \in Programs : tun2socks'[p] = "none"
  BY DEF ProxyDies, Happens, AllNoticed, Unnoticed
<1>2. /\ Nobody' /\ \A s \in Services : ~Ours(s)' /\ svc'[s] = FreshInstance
  BY <1>1 DEF Nobody, Ours, FreshInstance
<1>3. DOMAIN toProxy' = {}
  BY <1>1, NoMessages
<1>n. NothingQueued' /\ ~Connecting' /\ ~JobIsOurs'
  BY <1>1, <1>3 DEF NothingQueued, Connecting, JobIsOurs
<1>4. WhenIdle' /\ WhenRunning' /\ WhenStopping' /\ WhenStarting'
  BY <1>1, <1>2, <1>3, <1>n
     DEF Rest, Placed, WhenIdle, WhenRunning, WhenStopping, WhenStarting
<1>5. OneService'
  BY <1>1, <1>2, <1>3 DEF OneService
<1>6. Running' /\ FirstProcess'
  BY <1>1, <1>2, <1>3 DEF Running, Serves, AllNoticed, FirstProcess
<1>7. QED BY <1>4, <1>5, <1>6 DEF Rest, Placed

LEMMA RestMainDies ==
    ASSUME TypeOK, Rest, MainDies PROVE Rest'
<1>1. /\ pm' = FreshManager /\ toMain' = <<>>
      /\ svc' = [s \in Services |-> [svc[s] EXCEPT !.client = IF @ = "main" THEN "dead" ELSE @]]
      /\ UNCHANGED <<current, job, tun, orphans>>
      /\ "main died" \in mishaps' /\ mishaps \subseteq mishaps'
  BY DEF MainDies, Happens
<1>2. pm'.status = "IDLE" /\ ~pm'.bound /\ ~pm'.connected
  BY <1>1 DEF FreshManager
<1>3. ASSUME NEW s \in Services
      PROVE  ~Ours(s)' /\ svc'[s].fd = svc[s].fd /\ svc'[s].tl = svc[s].tl
  <2>1. svc[s] \in Instance
    BY InstanceFields
  <2>2. svc'[s] = [svc[s] EXCEPT !.client = IF @ = "main" THEN "dead" ELSE @]
    BY <1>1
  <2>3. QED BY <2>1, <2>2 DEF Instance, Ours
<1>4. Nobody'
  BY <1>3 DEF Nobody
<1>5. NothingQueued' /\ \A k \in DOMAIN toProxy' : ~FromMain(k)'
  BY LeftRequests DEF NothingQueued, FromMain
<1>6. WhenIdle' /\ WhenRunning' /\ WhenStopping' /\ WhenStarting'
  BY <1>1, <1>2, <1>4, <1>5 DEF WhenIdle, WhenRunning, WhenStopping, WhenStarting
<1>7. job' # NoJob => job'.service \in Services
  BY <1>1 DEF Rest, Placed, OneService
<1>8. OneService'
  BY <1>2, <1>3, <1>5, <1>7 DEF OneService
<1>9. Running'
  <2>1. toMain' # <<"START">>
    BY <1>1, OneAnswer
  <2>2. ASSUME AllNoticed', job' # NoJob
        PROVE  svc'[job'.service].fd /\ svc'[job'.service].tl /\ vpn' = job'.service
    <3>1. svc[job.service].fd /\ svc[job.service].tl /\ vpn = job.service
      BY <1>1, <2>2 DEF Rest, Running, Serves, AllNoticed
    <3>2. job' = job /\ job.service \in Services
      BY <1>1, <1>7, <2>2
    <3>3. QED BY <1>1, <1>3, <3>1, <3>2
  <2>3. QED BY <1>2, <2>1, <2>2 DEF Running
<1>10. FirstProcess'
  BY <1>1 DEF FirstProcess
<1>11. QED BY <1>6, <1>8, <1>9, <1>10 DEF Rest, Placed

-----------------------------------------------------------------------------
(* The invariant *)

LEMMA RestInit == Init => Rest
<1> SUFFICES ASSUME Init PROVE Rest
  OBVIOUS
<1>1. /\ pm.status = "IDLE" /\ ~pm.bound /\ ~pm.connected /\ current = NoService /\ job = NoJob
      /\ toMain = <<>> /\ toProxy = <<>> /\ ~orphans
      /\ \A s \in Services : svc[s] = FreshInstance
      /\ \A p \in Programs : tun2socks[p] = "none"
      /\ vpn = NoService
  BY DEF Init, FreshManager
<1>2. Nobody /\ \A s \in Services : ~Ours(s)
  BY <1>1 DEF Nobody, Ours, FreshInstance
<1>3. DOMAIN toProxy = {} /\ NothingQueued
  BY <1>1, NoMessages DEF NothingQueued
<1>4. WhenIdle /\ WhenStarting /\ WhenRunning /\ WhenStopping
  BY <1>1, <1>2, <1>3 DEF WhenIdle, WhenStarting, WhenRunning, WhenStopping
<1>5. OneService
  BY <1>1, <1>2, <1>3 DEF OneService
<1>6. toMain # <<"START">>
  BY <1>1, OneAnswer
<1>7. Running /\ FirstProcess
  BY <1>1, <1>3, <1>6 DEF Running, FirstProcess
<1>8. QED BY <1>4, <1>5, <1>7 DEF Rest, Placed

LEMMA ControlInit == Init => ControlInv
<1>1. Init => Switch
  BY DEF Init, NoActivity, Switch
<1>2. QED BY <1>1, TypeInit, RestInit DEF ControlInv, Rest

LEMMA ControlNext == ControlInv /\ [Next]_vars => ControlInv'
<1> SUFFICES ASSUME ControlInv, [Next]_vars PROVE ControlInv'
  OBVIOUS
<1>0. TypeOK /\ Rest /\ Switch /\ Placed
  BY DEF ControlInv, Rest
<1>q. ASSUME TypeOK', Rest', Switch' PROVE ControlInv'
  BY <1>q DEF ControlInv, Rest
<1>1. CASE User \/ Dialog \/ Recreate
  BY <1>0, <1>1, <1>q, TypeUser, RestUser, SwitchUser
<1>2. CASE Answers
  BY <1>0, <1>2, <1>q, TypeManager, RestAnswers, SwitchAnswers
<1>3. CASE onProxyServiceConnected \/ onProxyServiceDisconnected
  BY <1>0, <1>3, <1>q, TypeManager, RestConnected, RestDisconnected, SwitchConnection
<1>4. CASE Service \/ FdSent \/ FdFails
  <2>1. TypeOK' /\ Switch'
    BY <1>0, <1>4, TypeService, SwitchOthers
  <2>2. Rest'
    BY <1>0, <1>4, RestStartRequest, RestStopRequest, RestFdSent, RestFdFails DEF Service
  <2>3. QED BY <1>q, <2>1, <2>2
<1>5. CASE Tun2Socks \/ Exits \/ Revoked \/ ServiceDestroyed \/ ProxyDies \/ MainDies
  <2>1. TypeOK' /\ Switch'
    BY <1>0, <1>5, TypeAndroid, SwitchOthers
  <2>2. Rest'
    BY <1>0, <1>5, RestTun2Socks, RestExits, RestDestroyed, RestProxyDies,
       RestMainDies DEF Tun2Socks
  <2>3. QED BY <1>q, <2>1, <2>2
<1>6. CASE UNCHANGED vars
  <2>1. TypeOK' /\ Switch'
    BY <1>0, <1>6 DEF vars, TypeOK, Switch
  <2>2. Placed'
    BY <1>0, <1>6
       DEF vars, Placed, WhenIdle, WhenStarting, WhenRunning, WhenStopping, OneService, Nobody,
           NothingQueued, JobIsOurs, Connecting, Ours, FromMain
  <2>3. Running' /\ FirstProcess'
    BY <1>0, <1>6 DEF vars, Rest, Running, Serves, AllNoticed, FirstProcess, Ours, FromMain
  <2>4. QED BY <1>q, <2>1, <2>2, <2>3 DEF Rest
<1>7. QED BY <1>1, <1>2, <1>3, <1>4, <1>5, <1>6 DEF Next, Android

\* Whatever goes wrong, the operation the manager waits for is in the place that its status
\* says, and what has been started is known.
THEOREM ControlHolds == Spec => []ControlInv
<1>1. QED BY ControlInit, ControlNext, PTL DEF Spec

-----------------------------------------------------------------------------
(* What follows *)

\* The number of members of a set that has at most one.
LEMMA AtMostOne ==
    ASSUME NEW S, NEW n, \A k \in S : k = n
    PROVE  /\ Cardinality(S) \in {0, 1}
           /\ S = {} => Cardinality(S) = 0
<1>1. CASE S = {}
  BY <1>1, FS_EmptySet
<1>2. CASE S # {}
  <2>1. S = {n}
    BY <1>2
  <2>2. QED BY <1>2, <2>1, FS_Singleton
<1>3. QED BY <1>1, <1>2

LEMMA OneOperationFollows == ControlInv => OneOperation
<1> SUFFICES ASSUME ControlInv PROVE OneOperation
  OBVIOUS
<1>0. TypeOK /\ WhenIdle /\ WhenStarting /\ WhenRunning /\ WhenStopping /\ OneService
  BY DEF ControlInv, Placed
<1>1. ASSUME NEW what
      PROVE  /\ Cardinality(Sent(what)) \in {0, 1}
             /\ Sent(what) = {} => Cardinality(Sent(what)) = 0
  <2>1. \A k \in Sent(what) : k = Len(toProxy)
    BY <1>0 DEF Sent, OneService, FromMain
  <2>2. QED BY <2>1, AtMostOne
<1>2. toMain = <<>> \/ toMain = <<"START">> \/ toMain = <<"STOP">>
  BY <1>0, ManagerFields DEF WhenIdle, WhenStarting, WhenRunning, WhenStopping
<1>3. ASSUME NEW what
      PROVE  /\ Cardinality(Received(what)) \in {0, 1}
             /\ toMain = <<>> => Cardinality(Received(what)) = 0
             /\ \A other : toMain = <<other>> /\ other # what => Cardinality(Received(what)) = 0
  <2>1. \A k \in Received(what) : k = 1
    BY <1>2 DEF Received
  <2>2. /\ Cardinality(Received(what)) \in {0, 1}
        /\ Received(what) = {} => Cardinality(Received(what)) = 0
    BY <2>1, AtMostOne
  <2>3. toMain = <<>> => Received(what) = {}
    BY DEF Received
  <2>4. ASSUME NEW other, toMain = <<other>>, other # what PROVE Received(what) = {}
    <3>1. DOMAIN toMain = {1} /\ toMain[1] = other
      BY <2>4
    <3>2. QED BY <2>4, <3>1 DEF Received
  <2>5. QED BY <2>2, <2>3, <2>4
<1> DEFINE c == Flag(Connecting)
           j == Flag(JobIsOurs)
<1>4. /\ StartsUnderWay = c + Cardinality(Sent("START")) + j + Cardinality(Received("START"))
      /\ StopsUnderWay = Cardinality(Sent("STOP")) + Cardinality(Received("STOP"))
  BY DEF StartsUnderWay, StopsUnderWay, Connecting, JobIsOurs, Ours
<1>5. /\ c \in {0, 1} /\ j \in {0, 1} /\ (~Connecting => c = 0) /\ (~JobIsOurs => j = 0)
  BY DEF Flag
<1>6. NothingQueued => Sent("START") = {} /\ Sent("STOP") = {}
  BY DEF NothingQueued, FromMain, Sent
<1>7. Nobody => ~JobIsOurs
  BY <1>0 DEF Nobody, JobIsOurs, OneService
<1> HIDE DEF c, j
<1>b. pm.status # "IDLE" => pm.bound
  BY <1>0, ManagerFields DEF WhenStarting, WhenRunning, WhenStopping
<1>8. CASE pm.status = "IDLE"
  <2>1. toMain = <<>> /\ NothingQueued /\ ~JobIsOurs /\ ~Connecting
    BY <1>0, <1>7, <1>8 DEF WhenIdle, Connecting
  <2>2. StartsUnderWay = 0 /\ StopsUnderWay = 0
    BY <1>1, <1>3, <1>4, <1>5, <1>6, <2>1
  <2>3. QED BY <1>8, <2>2 DEF OneOperation
<1>9. CASE pm.status = "RUNNING"
  <2>1. toMain = <<>> /\ NothingQueued /\ ~JobIsOurs /\ ~Connecting
    BY <1>0, <1>9 DEF WhenRunning
  <2>2. StartsUnderWay = 0 /\ StopsUnderWay = 0
    BY <1>1, <1>3, <1>4, <1>5, <1>6, <2>1
  <2>3. QED BY <1>9, <1>b, <2>2 DEF OneOperation
<1>10. CASE pm.status = "STARTING"
  <2>1. Sent("STOP") = {}
    BY <1>0, <1>10 DEF WhenStarting, Sent, FromMain
  <2>2. Cardinality(Received("STOP")) = 0
    <3>1. toMain = <<>> \/ toMain = <<"START">>
      BY <1>0, <1>10 DEF WhenStarting
    <3>2. QED BY <1>3, <3>1
  <2>3. StopsUnderWay = 0
    BY <1>1, <1>4, <2>1, <2>2
  <2>4. CASE Connecting
    <3>1. toMain = <<>> /\ NothingQueued /\ ~JobIsOurs
      BY <1>0, <1>7, <1>10, <2>4 DEF WhenStarting
    <3>2. StartsUnderWay <= 1
      BY <1>1, <1>3, <1>4, <1>5, <1>6, <3>1
    <3>3. QED BY <1>10, <1>b, <2>3, <3>2 DEF OneOperation
  <2>5. CASE ~Connecting /\ Sent("START") # {}
    <3>1. toMain = <<>> /\ ~JobIsOurs
      BY <1>0, <1>7, <1>10, <2>5 DEF WhenStarting, Sent, FromMain
    <3>2. StartsUnderWay <= 1
      BY <1>1, <1>3, <1>4, <1>5, <2>5, <3>1
    <3>3. QED BY <1>10, <1>b, <2>3, <3>2 DEF OneOperation
  <2>6. CASE ~Connecting /\ Sent("START") = {}
    <3>1. toMain = <<>> \/ ~JobIsOurs
      BY <1>0, <1>10 DEF WhenStarting
    <3>2. StartsUnderWay <= 1
      BY <1>1, <1>3, <1>4, <1>5, <2>6, <3>1
    <3>3. QED BY <1>10, <1>b, <2>3, <3>2 DEF OneOperation
  <2>7. QED BY <2>4, <2>5, <2>6
<1>11. CASE pm.status = "STOPPING"
  <2>1. Sent("START") = {} /\ ~Connecting /\ ~JobIsOurs
    BY <1>0, <1>11 DEF WhenStopping, Sent, FromMain
  <2>2. Cardinality(Received("START")) = 0
    <3>1. toMain = <<>> \/ toMain = <<"STOP">>
      BY <1>0, <1>11 DEF WhenStopping
    <3>2. QED BY <1>3, <3>1
  <2>3. StartsUnderWay = 0
    BY <1>1, <1>4, <1>5, <2>1, <2>2
  <2>4. Sent("STOP") = {} \/ toMain = <<>>
    BY <1>0, <1>11 DEF WhenStopping, Sent, FromMain
  <2>5. StopsUnderWay <= 1
    BY <1>1, <1>3, <1>4, <2>4
  <2>6. QED BY <1>11, <1>b, <2>3, <2>5 DEF OneOperation
<1>12. QED BY <1>0, <1>8, <1>9, <1>10, <1>11, ManagerFields

\* An operation is in one place at a time, and every answer is the one the manager waits for.
THEOREM AlwaysOneOperation == Spec => []OneOperation
BY ControlHolds, OneOperationFollows, PTL

\* When the app says IDLE the VPN is down and no program is left, while the first main
\* process lives.
THEOREM IdleAlwaysMeansStopped == Spec => []IdleMeansStopped
<1>1. ControlInv => IdleMeansStopped
  <2> SUFFICES ASSUME ControlInv, pm.status = "IDLE", "main died" \notin mishaps
               PROVE  /\ job = NoJob /\ toProxy = <<>> /\ toMain = <<>>
                      /\ vpn = NoService
                      /\ \A s \in Services : ~svc[s].fd /\ ~svc[s].tl
                      /\ \A p \in Programs : tun2socks[p] = "none"
    BY DEF IdleMeansStopped
  <2>1. toMain = <<>> /\ NothingQueued /\ Nobody
    BY DEF ControlInv, Placed, WhenIdle
  <2>2. \A s \in Services : svc[s] = FreshInstance
    BY <2>1 DEF ControlInv, FirstProcess, Nobody
  <2>3. job = NoJob
    BY <2>1 DEF ControlInv, FirstProcess, Placed, OneService, Nobody
  <2>4. toProxy = <<>>
    <3>1. \A k \in DOMAIN toProxy : FALSE
      BY <2>1 DEF ControlInv, FirstProcess, NothingQueued
    <3>2. SUFFICES ASSUME toProxy # <<>> PROVE FALSE
      OBVIOUS
    <3>3. TypeOK
      BY DEF ControlInv
    <3>4. 1 \in DOMAIN toProxy
      BY <3>2, <3>3, FirstRequest
    <3>5. QED BY <3>1, <3>4
  <2>5. vpn = NoService /\ \A p \in Programs : tun2socks[p] = "none"
    <3>1. vpn \in Services \cup {NoService}
      BY DEF ControlInv, TypeOK
    <3>2. QED BY <2>1, <3>1 DEF ControlInv, FirstProcess, Nobody
  <2>6. \A s \in Services : ~svc[s].fd /\ ~svc[s].tl
    <3>1. ~FreshInstance.fd /\ ~FreshInstance.tl
      BY DEF FreshInstance
    <3>2. QED BY <2>2, <3>1
  <2>7. QED BY <2>1, <2>3, <2>4, <2>5, <2>6
<1>2. QED BY <1>1, ControlHolds, PTL

\* Every program that the service starts can be stopped, while the first main process lives.
THEOREM NothingEverOrphaned == Spec => []NothingOrphaned
<1>1. ControlInv => NothingOrphaned
  BY DEF ControlInv, FirstProcess, NothingOrphaned
<1>2. QED BY <1>1, ControlHolds, PTL

\* The switch of an activity that was created while the proxy was off tells the truth
\* whenever it can be pressed.
THEOREM SwitchAlwaysTellsTruth == Spec => []SwitchTellsTruth
<1>1. ControlInv => SwitchTellsTruth
  BY ManagerFields DEF ControlInv, Switch, SwitchTellsTruth
<1>2. QED BY <1>1, ControlHolds, PTL

\* While the app says RUNNING the interface is up and both programs run, whichever tun2socks got
\* the descriptor, unless something happened that nobody is told of.
THEOREM RunningAlwaysMeansProxied == Spec => []RunningMeansProxied
<1>1. ControlInv => RunningMeansProxied
  BY DEF ControlInv, Running, Serves, Placed, OneService, Ours, RunningMeansProxied
<1>2. QED BY <1>1, ControlHolds, PTL
-----------------------------------------------------------------------------
(* PerAppProxy *)

\* The settings were sent, and what was asked for is under way or done.
Up == JobIsOurs \/ toMain = <<"START">> \/ pm.status = "RUNNING"

Queued(k) == FromMain(k) /\ toProxy[k].what = "START"

Read == Up \/ \E k \in DOMAIN toProxy : Queued(k)

\* Where a commit is posted, and that there is an activity only in a process.
Fragments ==
    /\ ~list.pending => list.there = list.edit
    /\ ~ui.settings => ~list.edit
    /\ ~ui.live => list = NoList
    /\ ~alive => ~ui.live /\ pm.status = "IDLE"

\* The list a clean activity still shows goes before the settings are read.
GoesFirst ==
    ui.live /\ ui.clean /\ list.there /\ pm.status # "IDLE" =>
        list.pending /\ list.ahead /\ ~Read

\* The settings are what was sent.
Sends ==
    ~meddled => \A k \in DOMAIN toProxy : Queued(k) =>
        contents[k].perApp = perAppProxyEnabled /\ contents[k].apps = proxyApps

\* They are what the tunnel was made for.
Fits ==
    ~NothingChosen => \A app \in (Apps \ gone) \cup {self} : InTunnel(app) <=> Chosen(app)

Takes == AllNoticed /\ ~meddled /\ Up => Fits

\* What is not there was removed.
Removed ==
    /\ proxyApps \ installed \subseteq gone /\ list.apps \ installed \subseteq gone
    /\ \A k \in DOMAIN contents : contents[k].apps \ installed \subseteq contents[k].removed

PerAppInv == PerAppTypeOK /\ Fragments /\ GoesFirst /\ Sends /\ Takes /\ Removed

\* Every step is one of ProxyControl, or none of its business.
LEMMA PerAppSteps == PerAppNext => [Next]_vars
<1> SUFFICES ASSUME PerAppNext PROVE [Next]_vars
  OBVIOUS
<1>1. CASE \E b \in BOOLEAN : StartProxy(b) \/ PrepareVpnServiceResult(b)
  BY <1>1 DEF StartProxy, PrepareVpnServiceResult, Next, User, Dialog
<1>2. CASE StopProxy \/ ActivityEnds \/ ActivityBegins
  BY <1>2 DEF StopProxy, ActivityEnds, ActivityBegins, Next, User, Android
<1>3. CASE ProxyServiceConnected \/ StopProxyRequest \/ ServiceProcessDies \/ MainProcessDies
  BY <1>3 DEF ProxyServiceConnected, StopProxyRequest, ServiceProcessDies, MainProcessDies, Next, Service, Android
<1>4. CASE \E r \in {"vpn", "tl", "tun", "ok"} : StartProxyRequest(r)
  BY <1>4 DEF StartProxyRequest, Next, Service
<1>5. CASE Elsewhere
  BY <1>5 DEF Elsewhere, Next, User, Android
<1>6. CASE \E app \in Apps : Touch(app) \/ Install(app) \/ Uninstall(app)
  BY <1>6 DEF Touch, Install, Uninstall
<1>7. CASE \E enabled \in BOOLEAN, chosen \in SUBSET Apps : CreateSettingsManager(enabled, chosen)
  BY <1>7 DEF CreateSettingsManager
<1>8. CASE onPerAppProxySwitchChecked \/ onEditPerAppProxySwitchChecked \/ CommitRuns
  BY <1>8 DEF onPerAppProxySwitchChecked, onEditPerAppProxySwitchChecked, CommitRuns
<1>9. QED
  BY <1>1, <1>2, <1>3, <1>4, <1>5, <1>6, <1>7, <1>8 DEF PerAppNext

LEMMA ControlAlways == PerAppSpec => []ControlInv
<1>1. PerAppInit => ControlInv
  BY ControlInit DEF PerAppInit
<1>2. ControlInv /\ [PerAppNext]_perAppVars => ControlInv'
  <2>1. UNCHANGED perAppVars => UNCHANGED vars
    BY DEF perAppVars
  <2>2. QED BY <2>1, PerAppSteps, ControlNext
<1>3. QED BY <1>1, <1>2, PTL DEF PerAppSpec

\* While the app says IDLE nothing is under way.
LEMMA IdleNotRead ==
    ASSUME ControlInv, pm.status = "IDLE" PROVE ~Read
<1>1. toMain = <<>> /\ NothingQueued /\ Nobody
  BY DEF ControlInv, Placed, WhenIdle
<1>2. toMain # <<"START">>
  BY <1>1, OneAnswer
<1>3. ~JobIsOurs
  BY <1>1 DEF ControlInv, Placed, OneService, JobIsOurs, Nobody
<1>4. QED BY <1>1, <1>2, <1>3 DEF Read, Up, Queued, NothingQueued

\* A clean activity whose settings can be changed shows an idle proxy.
LEMMA CleanSettings ==
    ASSUME ControlInv, ui.live, ui.clean
    PROVE  /\ ui.settings => pm.status = "IDLE"
           /\ ui.dialog => pm.status = "IDLE" /\ ~ui.settings
           /\ ui.enabled /\ ~ui.checked => pm.status = "IDLE"
<1>1. TypeOK /\ Switch
  BY DEF ControlInv
<1>2. QED BY <1>1, ManagerFields DEF Switch

-----------------------------------------------------------------------------
(* Only what is read comes to be under way *)

LEMMA StopSendsNoStart ==
    ASSUME TypeOK, NEW m \in Manager, NEW cb \in Callbacks, stop(m, cb), m.status = pm.status
    PROVE  /\ pm'.status = "RUNNING" => pm.status = "RUNNING"
           /\ pm'.status # "IDLE" => pm.status # "IDLE"
           /\ pm.status = "IDLE" => pm'.status = "IDLE"
           /\ \A k \in DOMAIN toProxy' : Queued(k)' => k \in DOMAIN toProxy /\ Queued(k)
<1>1. CASE toProxy' = toProxy
  BY <1>1, StopFields DEF Queued, FromMain
<1>2. CASE toProxy' # toProxy
  <2> DEFINE r == [what |-> "STOP", service |-> m.messenger, from |-> "main"]
  <2>1. m.status = "RUNNING" /\ m.messenger # NoService /\ toProxy' = Append(toProxy, r)
    BY <1>2, StopFields
  <2>2. r \in Request
    BY <2>1 DEF Manager, Request
  <2>3. r.what # "START"
    OBVIOUS
  <2> HIDE DEF r
  <2>4. ASSUME NEW k \in DOMAIN toProxy', Queued(k)' PROVE k \in DOMAIN toProxy /\ Queued(k)
    <3>1. k \in DOMAIN toProxy \/ k = Len(toProxy) + 1
      BY <2>1, <2>2, MoreRequests
    <3>2. k # Len(toProxy) + 1
      BY <2>1, <2>2, <2>3, <2>4, MoreRequests DEF Queued
    <3>3. QED BY <2>1, <2>2, <2>4, <3>1, <3>2, MoreRequests DEF Queued, FromMain
  <2>5. pm'.status = "STOPPING" /\ pm.status = "RUNNING"
    BY <2>1, StopFields
  <2>6. QED BY <2>4, <2>5
<1>3. QED BY <1>1, <1>2

\* A step that neither reads the settings nor handles a request adds nothing to what is under way,
\* and starts an operation only by start().
Quiet == /\ Up' => Up
         /\ \A k \in DOMAIN toProxy' : Queued(k)' => k \in DOMAIN toProxy /\ Queued(k)
         /\ mishaps \subseteq mishaps'

LEMMA QuietRead == Quiet => (Read' => Read)
BY DEF Quiet, Read

LEMMA StatusQuiet ==
    ASSUME UNCHANGED <<svc, job, toMain, mishaps>>, pm'.status = "RUNNING" => pm.status = "RUNNING"
    PROVE  Up' => Up
BY DEF Up, JobIsOurs, Ours

LEMMA UserQuiet ==
    ASSUME ControlInv, User \/ Dialog \/ Recreate PROVE Quiet
<1>0. TypeOK /\ pm \in Manager /\ "stale" \in Callbacks /\ "current" \in Callbacks
  BY DEF ControlInv, TypeOK, Callbacks
<1>1. UNCHANGED <<svc, job, toMain, mishaps>>
  BY DEF User, Dialog, Recreate, startProxy, stopProxy, Unpressed, onDestroy, onCreate, onPrepareVpnServiceResult
<1>2. ASSUME start \/ UNCHANGED pm, UNCHANGED toProxy PROVE Quiet
  <2>1. pm'.status = "RUNNING" => pm.status = "RUNNING"
    BY <1>0, <1>2, StartFields
  <2>2. QED BY <1>1, <1>2, <2>1, StatusQuiet DEF Quiet, Queued, FromMain
<1>3. ASSUME NEW m \in Manager, NEW cb \in Callbacks, stop(m, cb), m.status = pm.status PROVE Quiet
  BY <1>0, <1>1, <1>3, StopSendsNoStart, StatusQuiet DEF Quiet
<1>4. CASE stopProxy
  BY <1>0, <1>3, <1>4 DEF stopProxy
<1>5. CASE onDestroy \/ Recreate
  BY <1>0, <1>3, <1>5, ForgetFields DEF onDestroy, Recreate
<1>6. CASE Unpressed \/ onCreate \/ Dialog \/ \E ask \in BOOLEAN : startProxy(ask)
  BY <1>2, <1>6 DEF Unpressed, onCreate, Dialog, startProxy, onPrepareVpnServiceResult
<1>7. QED BY <1>4, <1>5, <1>6 DEF User

LEMMA AnswersQuiet ==
    ASSUME ControlInv, Answers \/ onProxyServiceDisconnected PROVE Quiet
<1>0. TypeOK /\ Placed
  BY DEF ControlInv
<1>1. UNCHANGED <<svc, job, toProxy, mishaps>>
  BY DEF Answers, onMessageStartProxyResponse, onMessageStopProxyResponse, onProxyServiceDisconnected
<1>2. JobIsOurs' => JobIsOurs
  BY <1>1 DEF JobIsOurs, Ours
<1>3. CASE onMessageStartProxyResponse
  <2>1. toMain = <<"START">>
    BY <1>0, <1>3, AnswerIsAwaited DEF onMessageStartProxyResponse
  <2>2. QED BY <1>1, <2>1 DEF Quiet, Up, Queued, FromMain
<1>4. CASE onMessageStopProxyResponse
  <2>1. toMain' = <<>>
    BY <1>0, <1>4, AnswerIsAwaited DEF onMessageStopProxyResponse
  <2>2. toMain' # <<"START">>
    BY <2>1, OneAnswer
  <2>3. pm'.status # "RUNNING"
    BY <1>0, <1>4 DEF onMessageStopProxyResponse, TypeOK, Manager
  <2>4. QED BY <1>1, <1>2, <2>2, <2>3 DEF Quiet, Up, Queued, FromMain
<1>5. CASE onProxyServiceDisconnected
  <2>1. pm'.status = pm.status /\ toMain' = toMain
    BY <1>0, <1>5 DEF onProxyServiceDisconnected, TypeOK, Manager
  <2>2. QED BY <1>1, <1>2, <2>1 DEF Quiet, Up, Queued, FromMain
<1>6. QED BY <1>3, <1>4, <1>5 DEF Answers

LEMMA ServiceQuiet ==
    ASSUME ControlInv, FdSent \/ FdFails PROVE Quiet
<1>0. TypeOK /\ OneService
  BY DEF ControlInv, Placed
<1>1. UNCHANGED <<pm, svc, toProxy>> /\ mishaps \subseteq mishaps' /\ job # NoJob
  BY DEF FdSent, FdFails, Happens
<1>2. CASE FdSent
  <2>1. job' = NoJob /\ (Ours(job.service) \/ toMain' = toMain)
    BY <1>2 DEF FdSent, Answered, Ours
  <2>2. QED BY <1>1, <2>1 DEF Quiet, Up, JobIsOurs, Queued, FromMain
<1>3. CASE FdFails
  <2>1. job' = NoJob \/ job' = [job EXCEPT !.tries = job.tries + 1]
    BY <1>3 DEF FdFails
  <2>2. (job' = NoJob \/ job'.service = job.service) /\ toMain' = toMain
    BY <1>0, <1>3, <2>1 DEF FdFails, TypeOK
  <2>3. QED BY <1>1, <2>2 DEF Quiet, Up, JobIsOurs, Ours, Queued, FromMain
<1>4. QED BY <1>2, <1>3

LEMMA AndroidQuiet ==
    ASSUME ControlInv, Tun2Socks \/ Exits \/ Revoked \/ ServiceDestroyed \/ ProxyDies \/ MainDies
    PROVE  Quiet
<1>0. TypeOK /\ OneService
  BY DEF ControlInv, Placed
<1>1. CASE ProxyDies
  <2>1. job' = NoJob /\ toProxy' = <<>> /\ UNCHANGED <<pm, toMain>> /\ mishaps \subseteq mishaps'
    BY <1>1 DEF ProxyDies, Happens
  <2>2. QED BY <2>1, NoMessages DEF Quiet, Up, JobIsOurs
<1>2. CASE MainDies
  <2>1. /\ pm' = FreshManager /\ toMain' = <<>> /\ job' = job
        /\ svc' = [s \in Services |-> [svc[s] EXCEPT !.client = IF @ = "main" THEN "dead" ELSE @]]
        /\ mishaps \subseteq mishaps'
    BY <1>2 DEF MainDies, Happens
  <2>2. toMain' # <<"START">> /\ pm'.status # "RUNNING"
    BY <2>1, OneAnswer DEF FreshManager
  <2>3. ASSUME NEW s \in Services PROVE svc'[s].client # "main"
    <3>1. svc[s] \in Instance
      BY <1>0, InstanceFields
    <3>2. svc'[s] = [svc[s] EXCEPT !.client = IF @ = "main" THEN "dead" ELSE @]
      BY <2>1
    <3>3. QED BY <3>1, <3>2 DEF Instance
  <2>4. ~JobIsOurs'
    BY <1>0, <2>1, <2>3 DEF JobIsOurs, Ours, OneService
  <2>5. \A k \in DOMAIN toProxy' : ~Queued(k)'
    BY <1>0, <1>2, LeftRequests DEF Queued, FromMain
  <2>6. QED BY <2>1, <2>2, <2>4, <2>5 DEF Quiet, Up
<1>3. CASE Tun2Socks \/ Exits \/ Revoked \/ ServiceDestroyed
  <2>1. UNCHANGED <<pm, job, toProxy, toMain>> /\ mishaps \subseteq mishaps'
    BY <1>3 DEF Tun2Socks, Tun2SocksListens, Tun2SocksGetsFd, Exits, TlClientExits, Tun2SocksExits,
                Revoked, ServiceDestroyed, Happens
  <2>2. ASSUME NEW t \in Services PROVE svc'[t].client = svc[t].client
    <3>1. CASE svc' = svc
      BY <3>1
    <3>2. CASE \E s \in Services : TlClientExits(s)
      BY <1>0, <3>2, InstanceFields DEF TlClientExits, TypeOK
    <3>3. QED BY <1>3, <3>1, <3>2
                 DEF Tun2Socks, Tun2SocksListens, Tun2SocksGetsFd, Exits, Tun2SocksExits, Revoked, ServiceDestroyed
  <2>3. JobIsOurs' => JobIsOurs
    BY <1>0, <2>1, <2>2 DEF JobIsOurs, Ours, OneService
  <2>4. QED BY <2>1, <2>3 DEF Quiet, Up, Queued, FromMain
<1>4. QED BY <1>1, <1>2, <1>3

-----------------------------------------------------------------------------
(* What each kind of step keeps *)

\* The contents that belong to the requests queued for the looper of :proxy.
LEMMA ContentFields ==
    ASSUME TypeOK, PerAppTypeOK
    PROVE  /\ contents \in Seq(Content) /\ Len(contents) \in Nat
           /\ DOMAIN contents = 1..Len(contents) /\ DOMAIN toProxy = DOMAIN contents
           /\ \A k \in DOMAIN contents : contents[k] \in Content
<1>1. contents \in Seq(Content) /\ toProxy \in Seq(Request) /\ Len(contents) = Len(toProxy)
  BY DEF TypeOK, PerAppTypeOK
<1>2. QED BY <1>1

\* A step that adds nothing to what is under way, and at most a STOP.
Extends ==
    /\ \A k \in DOMAIN contents' :
           contents'[k] = NoContent \/ (k \in DOMAIN contents /\ contents'[k] = contents[k])
    /\ \A k \in DOMAIN toProxy' : k \in DOMAIN toProxy => contents'[k] = contents[k]

LEMMA SameExtends ==
    ASSUME TypeOK, PerAppTypeOK, UNCHANGED contents PROVE Extends
BY DEF Extends

LEMMA QuietKeeps ==
    ASSUME PerAppInv, Quiet, Extends, UNCHANGED <<apps, settings, tunnel, meddled>>,
           list'.apps \subseteq list.apps
    PROVE  Sends' /\ Takes' /\ Removed'
<1>0. UNCHANGED <<installed, gone, perAppProxyEnabled, proxyApps, tunnel, meddled>>
  BY DEF apps, settings
<1>1. Sends'
  BY <1>0 DEF PerAppInv, Sends, Quiet, Extends
<1>2. Takes'
  <2>1. Fits => Fits'
    BY <1>0 DEF Fits, InTunnel, Chosen, NothingChosen
  <2>2. AllNoticed' /\ Up' /\ ~meddled' => AllNoticed /\ Up /\ ~meddled
    BY <1>0 DEF Quiet, AllNoticed
  <2>3. QED BY <2>1, <2>2 DEF PerAppInv, Takes
<1>3. Removed'
  <2>1. NoContent.apps = {}
    BY DEF NoContent
  <2>2. QED BY <1>0, <2>1 DEF PerAppInv, Removed, Extends
<1>4. QED BY <1>1, <1>2, <1>3

\* While nothing is under way the settings can be anything.
LEMMA NothingRead == ASSUME ~Read PROVE Sends /\ Takes
BY DEF Read, Sends, Takes

LEMMA UnchangedRead == ASSUME UNCHANGED vars PROVE Read' <=> Read
BY DEF vars, Read, Up, JobIsOurs, Ours, Queued, FromMain

LEMMA ElsewhereKeeps ==
    ASSUME ControlInv, PerAppInv, Elsewhere PROVE PerAppInv'
<1>0. TypeOK /\ Placed
  BY DEF ControlInv
<1>1. UNCHANGED <<list, alive, apps, settings, tunnel, meddled, contents>>
  BY DEF Elsewhere, Same
<1>2. Quiet
  <2>1. CASE Unpressed
    BY <2>1, UserQuiet DEF User
  <2>2. CASE Answers \/ onProxyServiceDisconnected
    BY <2>2, AnswersQuiet
  <2>3. CASE FdSent \/ FdFails
    BY <2>3, ServiceQuiet
  <2>4. CASE Tun2Socks \/ Exits \/ Revoked \/ ServiceDestroyed
    BY <2>4, AndroidQuiet
  <2>5. QED BY <2>1, <2>2, <2>3, <2>4 DEF Elsewhere
<1>3. Sends' /\ Takes' /\ Removed'
  BY <1>0, <1>1, <1>2, SameExtends, QuietKeeps DEF PerAppInv
<1>4. /\ toProxy' = toProxy
      /\ pm'.status # "IDLE" => pm.status # "IDLE"
      /\ pm.status = "IDLE" => pm'.status = "IDLE"
      /\ ui'.live = ui.live /\ (ui.settings => ui'.settings) /\ (ui'.clean => ui.clean)
  <2>1. CASE Answers
    <3>1. pm.status # "IDLE"
      BY <1>0, <2>1, AnswerIsAwaited DEF Answers, onMessageStartProxyResponse, onMessageStopProxyResponse
    <3>2. toProxy' = toProxy
      BY <2>1 DEF Answers, onMessageStartProxyResponse, onMessageStopProxyResponse
    <3>3. ui'.live = ui.live /\ (ui.settings => ui'.settings) /\ (ui'.clean => ui.clean)
      BY <1>0, <2>1 DEF Answers, onMessageStartProxyResponse, onMessageStopProxyResponse, TypeOK, Activity
    <3>4. QED BY <3>1, <3>2, <3>3
  <2>2. CASE Unpressed
    BY <1>0, <2>2 DEF Unpressed, TypeOK, Activity
  <2>3. CASE onProxyServiceDisconnected
    BY <1>0, <2>3 DEF onProxyServiceDisconnected, TypeOK, Manager
  <2>4. CASE \/ FdSent \/ FdFails \/ Tun2Socks \/ Exits \/ Revoked \/ ServiceDestroyed
    BY <2>4 DEF FdSent, FdFails, Tun2Socks, Tun2SocksListens, Tun2SocksGetsFd, Exits, TlClientExits,
                Tun2SocksExits, Revoked, ServiceDestroyed
  <2>5. QED BY <2>1, <2>2, <2>3, <2>4 DEF Elsewhere
<1>5. Fragments'
  BY <1>0, <1>1, <1>4, ManagerFields DEF PerAppInv, Fragments
<1>6. GoesFirst'
  BY <1>1, <1>2, <1>4, QuietRead DEF PerAppInv, GoesFirst
<1>7. PerAppTypeOK'
  BY <1>1, <1>4 DEF PerAppInv, PerAppTypeOK, apps, settings
<1>8. QED BY <1>3, <1>5, <1>6, <1>7 DEF PerAppInv

\* A STOP is appended to both queues, or to none.
LEMMA StoppingExtends ==
    ASSUME TypeOK, PerAppTypeOK, NEW m \in Manager, NEW cb \in Callbacks, stop(m, cb), Stopping
    PROVE  Extends /\ contents' \in Seq(Content) /\ Len(contents') = Len(toProxy')
<1>1. /\ contents \in Seq(Content) /\ Len(contents) \in Nat /\ DOMAIN contents = 1..Len(contents)
      /\ DOMAIN toProxy = DOMAIN contents /\ toProxy \in Seq(Request) /\ Len(contents) = Len(toProxy)
  BY ContentFields DEF TypeOK, PerAppTypeOK
<1>2. CASE toProxy' = toProxy
  BY <1>1, <1>2 DEF Stopping, Extends
<1>3. CASE toProxy' # toProxy
  <2> DEFINE r == [what |-> "STOP", service |-> m.messenger, from |-> "main"]
  <2>1. m.messenger # NoService /\ toProxy' = Append(toProxy, r)
    BY <1>3, StopFields
  <2>2. r \in Request
    BY <2>1 DEF Manager, Request
  <2> HIDE DEF r
  <2>3. Len(toProxy') = Len(toProxy) + 1
    BY <1>1, <2>1, <2>2
  <2>4. contents' = Append(contents, NoContent) /\ NoContent \in Content
    BY <1>3 DEF Stopping, NoContent, Content
  <2>5. /\ contents' \in Seq(Content) /\ Len(contents') = Len(contents) + 1
        /\ DOMAIN contents' = 1..(Len(contents) + 1)
        /\ \A k \in 1..Len(contents) : contents'[k] = contents[k]
        /\ contents'[Len(contents) + 1] = NoContent
    BY <1>1, <2>4
  <2>6. \A k \in 1..(Len(contents) + 1) : k \in 1..Len(contents) \/ k = Len(contents) + 1
    BY <1>1
  <2>7. QED BY <1>1, <2>3, <2>5, <2>6 DEF Extends
<1>4. QED BY <1>2, <1>3

\* The lists of a step of the user.
LEMMA ListTypes ==
    ASSUME PerAppTypeOK
    PROVE  /\ setEnabledFalse(list) \in List /\ BeforeBind(list) \in List
           /\ BeforeBind(setEnabledFalse(list)) \in List /\ NoList \in List
           /\ list.edit \in BOOLEAN /\ list.there \in BOOLEAN /\ list.apps \subseteq Apps
           /\ list.pending \in BOOLEAN /\ list.ahead \in BOOLEAN
<1>1. list \in List
  BY DEF PerAppTypeOK
<1>2. ASSUME NEW l \in List PROVE BeforeBind(l) \in List
  BY <1>2 DEF BeforeBind, List
<1>3. setEnabledFalse(list) \in List
  BY <1>1 DEF setEnabledFalse, List
<1>4. QED BY <1>1, <1>2, <1>3 DEF List, NoList

LEMMA StartKeeps ==
    ASSUME ControlInv, PerAppInv,
           (\E ask \in BOOLEAN : StartProxy(ask)) \/ \E granted \in BOOLEAN : PrepareVpnServiceResult(granted)
    PROVE  PerAppInv'
<1>0. TypeOK /\ PerAppTypeOK /\ Fragments /\ ui \in Activity
  BY DEF ControlInv, PerAppInv, TypeOK
<1>1. UNCHANGED <<alive, apps, settings, tunnel, meddled, contents, toProxy>>
  BY DEF StartProxy, PrepareVpnServiceResult, Same, startProxy, onPrepareVpnServiceResult
<1>2. Quiet
  BY UserQuiet DEF User, Dialog, StartProxy, PrepareVpnServiceResult
<1>3. \/ start
      \/ UNCHANGED pm
  BY DEF StartProxy, PrepareVpnServiceResult, startProxy, onPrepareVpnServiceResult
<1>4. /\ ui.live /\ ui'.live /\ ui'.clean = ui.clean /\ alive
      /\ pm.status = "IDLE" /\ pm'.status # "IDLE" => pm'.status = "STARTING"
  <2>1. ui.live /\ ui'.live /\ ui'.clean = ui.clean
    BY <1>0 DEF StartProxy, PrepareVpnServiceResult, startProxy, onPrepareVpnServiceResult, Activity
  <2>2. QED BY <1>0, <1>3, <2>1, StartFields DEF Fragments
<1>5. ui.clean => pm.status = "IDLE" /\ ~Read'
  <2>1. ASSUME ui.clean PROVE pm.status = "IDLE"
    BY <1>4, <2>1, CleanSettings DEF StartProxy, PrepareVpnServiceResult, startProxy, onPrepareVpnServiceResult
  <2>2. QED BY <1>2, <2>1, IdleNotRead, QuietRead
<1>6. /\ list' \in List /\ list'.apps = list.apps /\ list'.there = list.there
      /\ ~list'.edit \/ list'.edit = list.edit
      /\ ~list'.pending => list'.there = list'.edit
      /\ ~ui'.settings => ~list'.edit
      /\ ui.clean /\ list'.there => list'.pending
      /\ ui.clean /\ pm'.status # "IDLE" => list'.ahead = list'.pending
  <2>1. CASE \E ask \in BOOLEAN : StartProxy(ask)
    <3> DEFINE l == setEnabledFalse(list)
    <3>1. /\ l \in List /\ l.apps = list.apps /\ l.there = list.there /\ ~l.edit
          /\ l.pending = (list.pending \/ list.edit)
      BY <1>0, ListTypes DEF setEnabledFalse, PerAppTypeOK, List
    <3>2. list' = BeforeBind(l) /\ list' \in List
      BY <1>0, <2>1, ListTypes DEF StartProxy
    <3> HIDE DEF l
    <3>3. list' = l \/ list' = [l EXCEPT !.ahead = l.pending]
      BY <3>2 DEF BeforeBind
    <3>4. /\ list'.apps = l.apps /\ list'.there = l.there /\ list'.edit = l.edit
          /\ list'.pending = l.pending
      BY <3>1, <3>3 DEF List
    <3>5. ASSUME ui.clean, pm'.status # "IDLE" PROVE list'.ahead = list'.pending
      <4>1. list' = [l EXCEPT !.ahead = l.pending]
        BY <1>4, <1>5, <3>2, <3>5 DEF BeforeBind
      <4>2. QED BY <3>1, <4>1 DEF List
    <3>6. ~l.pending => ~l.there
      BY <1>0, <3>1, ListTypes DEF Fragments
    <3>7. list'.there = list.there /\ list'.apps = list.apps /\ ~list'.edit
      BY <3>1, <3>4
    <3>8. ~list'.pending => ~list'.there
      BY <3>4, <3>6
    <3>9. list'.there \in BOOLEAN /\ list'.edit \in BOOLEAN
      BY <3>2 DEF List
    <3>10. QED BY <3>2, <3>5, <3>7, <3>8, <3>9
  <2>2. CASE \E granted \in BOOLEAN : PrepareVpnServiceResult(granted)
    <3>1. list \in List /\ list' = BeforeBind(list) /\ list' \in List
      BY <1>0, <2>2, ListTypes DEF PrepareVpnServiceResult, PerAppTypeOK
    <3>2. list' = list \/ list' = [list EXCEPT !.ahead = list.pending]
      BY <3>1 DEF BeforeBind
    <3>3. /\ list'.apps = list.apps /\ list'.there = list.there /\ list'.edit = list.edit
          /\ list'.pending = list.pending
      BY <3>1, <3>2 DEF List
    <3>4. ASSUME ui.clean, pm'.status # "IDLE" PROVE list'.ahead = list'.pending
      <4>1. list' = [list EXCEPT !.ahead = list.pending]
        BY <1>4, <1>5, <3>1, <3>4 DEF BeforeBind
      <4>2. QED BY <3>1, <4>1 DEF List
    <3>5. ui'.settings \/ ui'.settings = ui.settings
      BY <1>0, <2>2 DEF PrepareVpnServiceResult, onPrepareVpnServiceResult, Activity
    <3>6. ui.clean => ~ui.settings
      BY <1>4, <2>2, CleanSettings DEF PrepareVpnServiceResult, onPrepareVpnServiceResult
    <3>7. QED BY <1>0, <3>1, <3>3, <3>4, <3>5, <3>6 DEF Fragments
  <2>3. QED BY <2>1, <2>2
<1>7. Sends' /\ Takes' /\ Removed'
  BY <1>0, <1>1, <1>2, <1>6, SameExtends, QuietKeeps
<1>8. Fragments'
  BY <1>1, <1>4, <1>6 DEF Fragments
<1>9. GoesFirst'
  BY <1>4, <1>5, <1>6 DEF GoesFirst
<1>10. PerAppTypeOK'
  BY <1>0, <1>1, <1>6 DEF PerAppTypeOK, apps, settings
<1>11. QED BY <1>7, <1>8, <1>9, <1>10 DEF PerAppInv

LEMMA StopKeeps ==
    ASSUME ControlInv, PerAppInv, StopProxy \/ ActivityEnds \/ ActivityBegins
    PROVE  PerAppInv'
<1>0. TypeOK /\ PerAppTypeOK /\ Fragments /\ ui \in Activity /\ pm \in Manager
  BY DEF ControlInv, PerAppInv, TypeOK
<1>1. UNCHANGED <<alive, apps, settings, tunnel, meddled>> /\ alive
  BY <1>0 DEF StopProxy, ActivityEnds, ActivityBegins, Same, stopProxy, onDestroy, Recreate, Fragments
<1>2. Quiet
  BY UserQuiet DEF User, StopProxy, ActivityEnds, ActivityBegins
<1>3. /\ Extends /\ contents' \in Seq(Content) /\ Len(contents') = Len(toProxy')
      /\ pm'.status # "IDLE" => pm.status # "IDLE"
  <2>1. CASE StopProxy
    BY <1>0, <2>1, StoppingExtends, StopSendsNoStart DEF StopProxy, stopProxy, Callbacks
  <2>2. CASE ActivityEnds
    BY <1>0, <2>2, StoppingExtends, StopSendsNoStart, ForgetFields DEF ActivityEnds, onDestroy, Recreate, Callbacks
  <2>3. CASE ActivityBegins
    BY <1>0, <2>3, SameExtends DEF ActivityBegins, onCreate, Same, PerAppTypeOK
  <2>4. QED BY <2>1, <2>2, <2>3
<1>4. list' = NoList \/ (StopProxy /\ list' = list)
  BY <1>0 DEF StopProxy, ActivityEnds, ActivityBegins, onCreate, Fragments
<1>5. /\ NoList \in List
      /\ NoList.apps = {} /\ NoList.edit = FALSE /\ NoList.there = FALSE /\ NoList.pending = FALSE
  <2>1. NoList \in List
    BY <1>0, ListTypes
  <2>2. QED BY <2>1 DEF NoList
<1>6. Sends' /\ Takes' /\ Removed'
  BY <1>0, <1>1, <1>2, <1>3, <1>4, <1>5, QuietKeeps
<1>7. Fragments' /\ GoesFirst'
  <2>1. CASE list' = NoList
    BY <1>1, <1>5, <2>1 DEF Fragments, GoesFirst
  <2>2. CASE StopProxy /\ list' = list
    <3>1. ui'.live /\ ui.live /\ ui'.clean = ui.clean /\ ui'.settings = ui.settings
      BY <1>0, <2>2 DEF StopProxy, stopProxy, Activity
    <3>2. QED BY <1>0, <1>1, <1>2, <1>3, <2>2, <3>1, QuietRead DEF PerAppInv, Fragments, GoesFirst
  <2>3. QED BY <1>4, <2>1, <2>2
<1>8. PerAppTypeOK'
  BY <1>0, <1>1, <1>3, <1>4, <1>5 DEF PerAppTypeOK, apps, settings
<1>9. QED BY <1>6, <1>7, <1>8 DEF PerAppInv

\* The settings change: not under the hands of an activity that is clean, or nothing is under way.
LEMMA CreateKeeps ==
    ASSUME ControlInv, PerAppInv,
           \E enabled \in BOOLEAN, chosen \in SUBSET Apps : CreateSettingsManager(enabled, chosen)
    PROVE  PerAppInv'
<1>0. TypeOK /\ PerAppTypeOK /\ Fragments /\ Removed
  BY DEF ControlInv, PerAppInv
<1>1. PICK enabled \in BOOLEAN, chosen \in SUBSET Apps : CreateSettingsManager(enabled, chosen)
  OBVIOUS
<1>2. /\ ~alive /\ alive' = TRUE /\ UNCHANGED vars /\ UNCHANGED <<installed, list, contents, tunnel, meddled>>
      /\ perAppProxyEnabled' = enabled /\ proxyApps' = chosen \cap installed /\ gone' = {}
  BY <1>1 DEF CreateSettingsManager, Filter
<1>3. UNCHANGED <<ui, pm, toProxy>>
  BY <1>2 DEF vars
<1>4. ~ui.live /\ pm.status = "IDLE" /\ list = NoList
  BY <1>0, <1>2 DEF Fragments
<1>5. ~Read'
  BY <1>2, <1>4, IdleNotRead, UnchangedRead
<1>6. Sends' /\ Takes'
  BY <1>5 DEF Read, Sends, Takes
<1>7. NoList.apps = {}
  BY DEF NoList
<1>8. Removed'
  BY <1>0, <1>2, <1>4, <1>7 DEF Removed
<1>9. Fragments' /\ GoesFirst'
  BY <1>0, <1>2, <1>3, <1>4 DEF Fragments, GoesFirst
<1>10. PerAppTypeOK'
  BY <1>0, <1>1, <1>2, <1>3 DEF PerAppTypeOK
<1>11. QED BY <1>6, <1>8, <1>9, <1>10 DEF PerAppInv

\* The activity, its fragments and what is under way stay as they are.
LEMMA SettingsKeep ==
    ASSUME PerAppInv, UNCHANGED vars, UNCHANGED <<list, alive>> PROVE Fragments' /\ GoesFirst'
<1>1. UNCHANGED <<ui, pm>> /\ (Read' <=> Read)
  BY UnchangedRead DEF vars
<1>2. QED BY <1>1 DEF PerAppInv, Fragments, GoesFirst

LEMMA MeddleKeeps ==
    ASSUME ControlInv, PerAppInv, onPerAppProxySwitchChecked \/ \E app \in Apps : Touch(app)
    PROVE  PerAppInv'
<1>0. TypeOK /\ PerAppTypeOK /\ Fragments /\ Removed
  BY DEF ControlInv, PerAppInv
<1>1. UNCHANGED vars /\ UNCHANGED <<installed, gone, alive, list, contents, tunnel>> /\ Changed
  BY DEF onPerAppProxySwitchChecked, Touch, apps
<1>2. UNCHANGED <<ui, pm, toProxy>>
  BY <1>1 DEF vars
<1>3. ui.live /\ (ui.settings \/ list.there)
  BY <1>0 DEF onPerAppProxySwitchChecked, Touch, Fragments, NoList
<1>4. meddled' \/ ~Read
  <2>1. ASSUME ui.clean PROVE ~Read
    <3>1. CASE pm.status = "IDLE"
      BY <3>1, IdleNotRead
    <3>2. CASE pm.status # "IDLE"
      BY <1>3, <2>1, <3>2, CleanSettings DEF PerAppInv, GoesFirst
    <3>3. QED BY <3>1, <3>2
  <2>2. QED BY <1>1, <2>1 DEF Changed
<1>5. Sends' /\ Takes'
  <2>1. CASE meddled'
    BY <2>1 DEF Sends, Takes
  <2>2. CASE ~Read
    <3>1. ~Read'
      BY <1>1, <2>2, UnchangedRead
    <3>2. QED BY <3>1 DEF Read, Sends, Takes
  <2>3. QED BY <1>4, <2>1, <2>2
<1>6. /\ perAppProxyEnabled' \in BOOLEAN /\ proxyApps' \subseteq Apps
      /\ proxyApps' \subseteq proxyApps \cup list.apps
  BY <1>0 DEF onPerAppProxySwitchChecked, Touch, PerAppTypeOK
<1>7. Removed'
  BY <1>0, <1>1, <1>6 DEF Removed
<1>8. meddled' \in BOOLEAN
  BY <1>0, <1>1 DEF Changed, PerAppTypeOK
<1>9. PerAppTypeOK'
  BY <1>0, <1>1, <1>2, <1>6, <1>8 DEF PerAppTypeOK
<1>10. Fragments' /\ GoesFirst'
  BY <1>1, SettingsKeep
<1>11. QED BY <1>5, <1>7, <1>9, <1>10 DEF PerAppInv

LEMMA ListKeeps ==
    ASSUME ControlInv, PerAppInv, onEditPerAppProxySwitchChecked \/ CommitRuns
    PROVE  PerAppInv'
<1>0. TypeOK /\ PerAppTypeOK /\ Fragments /\ Removed /\ list \in List
  BY DEF ControlInv, PerAppInv, PerAppTypeOK
<1>1. UNCHANGED vars /\ UNCHANGED <<installed, gone, alive, perAppProxyEnabled, proxyApps, contents, tunnel, meddled>>
  BY DEF onEditPerAppProxySwitchChecked, CommitRuns, apps, settings
<1>2. UNCHANGED <<ui, pm, toProxy>> /\ (Read' <=> Read)
  BY <1>1, UnchangedRead DEF vars
<1>3. /\ NoList \in List
      /\ NoList.apps = {} /\ NoList.edit = FALSE /\ NoList.there = FALSE /\ NoList.pending = FALSE
  <2>1. NoList \in List
    BY <1>0, ListTypes
  <2>2. QED BY <2>1 DEF NoList
<1>4. /\ list' \in List /\ list'.apps \subseteq list.apps \cup installed
      /\ ~list'.pending => list'.there = list'.edit
      /\ ui.live
      /\ ~ui.settings => ~list'.edit
      /\ ui.clean /\ list'.there /\ pm.status # "IDLE" => FALSE
  <2>1. CASE onEditPerAppProxySwitchChecked
    <3>1. ui.live /\ ui.settings /\ list' = [list EXCEPT !.edit = ~@, !.pending = TRUE]
      BY <2>1 DEF onEditPerAppProxySwitchChecked
    <3>2. list' \in List /\ list'.apps = list.apps /\ list'.pending
      BY <1>0, <3>1 DEF List
    <3>3. ui.clean => pm.status = "IDLE"
      BY <3>1, CleanSettings
    <3>4. QED BY <3>1, <3>2, <3>3
  <2>2. CASE CommitRuns /\ ~list.edit
    <3>1. list.pending /\ list' = NoList
      BY <2>2 DEF CommitRuns
    <3>2. QED BY <1>0, <1>3, <3>1 DEF Fragments
  <2>3. CASE CommitRuns /\ list.edit
    <3>1. list.pending /\ list' = [NoList EXCEPT !.edit = TRUE, !.there = TRUE, !.apps = installed]
      BY <2>3 DEF CommitRuns
    <3>2. installed \subseteq Apps
      BY <1>0 DEF PerAppTypeOK
    <3>3. /\ list' \in List /\ list'.apps = installed /\ list'.edit = TRUE /\ list'.there = TRUE
      BY <3>1, <3>2 DEF NoList, List
    <3>4. ui.live /\ ui.settings
      BY <1>0, <1>3, <2>3 DEF Fragments
    <3>5. ui.clean => pm.status = "IDLE"
      BY <3>4, CleanSettings
    <3>6. QED BY <3>3, <3>4, <3>5
  <2>4. QED BY <2>1, <2>2, <2>3
<1>5. Sends' /\ Takes'
  <2>1. Up' <=> Up
    BY <1>1 DEF vars, Up, JobIsOurs, Ours
  <2>2. Fits' <=> Fits
    BY <1>1 DEF Fits, InTunnel, Chosen, NothingChosen
  <2>3. Takes'
    BY <1>1, <2>1, <2>2 DEF PerAppInv, Takes, AllNoticed, vars
  <2>4. Sends'
    BY <1>1, <1>2 DEF PerAppInv, Sends, Queued, FromMain
  <2>5. QED BY <2>3, <2>4
<1>6. Removed'
  BY <1>0, <1>1, <1>4 DEF Removed
<1>7. Fragments' /\ GoesFirst'
  BY <1>0, <1>1, <1>2, <1>4 DEF Fragments, GoesFirst
<1>8. PerAppTypeOK'
  BY <1>0, <1>1, <1>2, <1>4 DEF PerAppTypeOK
<1>9. QED BY <1>5, <1>6, <1>7, <1>8 DEF PerAppInv

LEMMA AppsKeep ==
    ASSUME ControlInv, PerAppInv, NEW app \in Apps, Install(app) \/ Uninstall(app)
    PROVE  PerAppInv'
<1>0. TypeOK /\ PerAppTypeOK /\ Removed /\ Sends /\ Takes /\ tunnel \in Scopes
  BY DEF ControlInv, PerAppInv, PerAppTypeOK
<1>1. UNCHANGED vars /\ UNCHANGED <<list, alive, perAppProxyEnabled, proxyApps, meddled>>
  BY DEF Install, Uninstall, settings
<1>2. UNCHANGED <<ui, pm, toProxy, mishaps>> /\ (Up' <=> Up)
  BY <1>1 DEF vars, Up, JobIsOurs, Ours
<1>3. Fragments' /\ GoesFirst'
  BY <1>1, SettingsKeep
<1>4. CASE Install(app)
  <2>1. installed' = installed \cup {app} /\ UNCHANGED <<contents, tunnel, gone>>
    BY <1>4 DEF Install
  <2>2. Sends' /\ Removed'
    BY <1>0, <1>1, <1>2, <2>1 DEF Sends, Removed, Queued, FromMain
  <2>3. Fits' <=> Fits
    BY <1>1, <2>1 DEF Fits, InTunnel, Chosen, NothingChosen
  <2>4. Takes'
    BY <1>0, <1>1, <1>2, <2>3 DEF Takes, AllNoticed
  <2>5. PerAppTypeOK'
    BY <1>0, <1>1, <1>2, <2>1 DEF PerAppTypeOK
  <2>6. QED BY <1>3, <2>2, <2>4, <2>5 DEF PerAppInv
<1>5. CASE Uninstall(app)
  <2>1. /\ installed' = installed \ {app} /\ gone' = gone \cup {app}
        /\ tunnel' = [tunnel EXCEPT !.apps = @ \ {app}]
        /\ contents' = [k \in DOMAIN contents |-> [contents[k] EXCEPT !.removed = @ \cup {app}]]
    BY <1>5 DEF Uninstall
  <2>2. tunnel' \in Scopes /\ tunnel'.only = tunnel.only /\ tunnel'.apps = tunnel.apps \ {app}
    BY <1>0, <2>1 DEF Scopes
  <2>3. /\ contents \in Seq(Content) /\ Len(contents) \in Nat
        /\ DOMAIN contents = 1..Len(contents) /\ DOMAIN toProxy = DOMAIN contents
    BY <1>0, ContentFields
  <2>4. ASSUME NEW k \in 1..Len(contents)
        PROVE  /\ contents'[k] \in Content
               /\ contents'[k].perApp = contents[k].perApp /\ contents'[k].apps = contents[k].apps
               /\ contents'[k].removed = contents[k].removed \cup {app}
    <3>1. contents[k] \in Content
      BY <2>3
    <3>2. contents'[k] = [contents[k] EXCEPT !.removed = @ \cup {app}]
      BY <2>1, <2>3
    <3>3. QED BY <3>1, <3>2 DEF Content
  <2>5. contents' \in Seq(Content) /\ Len(contents') = Len(contents) /\ DOMAIN contents' = 1..Len(contents)
    <3>1. contents' = [k \in 1..Len(contents) |-> contents'[k]]
      BY <2>1, <2>3
    <3>2. QED BY <2>3, <2>4, <3>1
  <2>6. Sends'
    BY <1>0, <1>1, <1>2, <2>3, <2>4 DEF Sends, Queued, FromMain
  <2>7. Removed'
    BY <1>0, <1>1, <2>1, <2>3, <2>4, <2>5 DEF Removed
  <2>8. Fits => Fits'
    BY <1>1, <2>1, <2>2, AppsAssumption DEF Fits, InTunnel, Chosen, NothingChosen
  <2>9. Takes'
    BY <1>0, <1>1, <1>2, <2>8 DEF Takes, AllNoticed
  <2>10. PerAppTypeOK'
    BY <1>0, <1>1, <1>2, <2>1, <2>2, <2>5 DEF PerAppTypeOK
  <2>11. QED BY <1>3, <2>6, <2>7, <2>9, <2>10 DEF PerAppInv
<1>6. QED BY <1>4, <1>5

-----------------------------------------------------------------------------
(* The settings are read, and what was sent is handled *)

LEMMA ConnectedKeeps ==
    ASSUME ControlInv, PerAppInv, ProxyServiceConnected PROVE PerAppInv'
<1> DEFINE r == [what |-> "START", service |-> current, from |-> "main"]
           c == [perApp |-> perAppProxyEnabled, apps |-> proxyApps, removed |-> gone]
           n == Len(contents) + 1
<1>0. TypeOK /\ Placed /\ PerAppTypeOK /\ Fragments /\ Removed
  BY DEF ControlInv, PerAppInv
<1>1. /\ Connecting /\ toProxy' = Append(toProxy, r) /\ contents' = Append(contents, c)
      /\ ~(list.pending /\ list.ahead) /\ meddled' = FALSE
      /\ UNCHANGED <<ui, current, svc, job, toMain, mishaps>>
      /\ UNCHANGED <<installed, gone, alive, perAppProxyEnabled, proxyApps, list, tunnel>>
  BY DEF ProxyServiceConnected, onProxyServiceConnected, Connecting, apps, settings
<1>2. pm'.status = pm.status
  BY <1>0 DEF ProxyServiceConnected, onProxyServiceConnected, TypeOK, Manager
<1>3. pm.status = "STARTING" /\ toMain = <<>> /\ NothingQueued /\ Nobody
  BY <1>0, <1>1, ManagerFields DEF Placed, WhenIdle, WhenStarting, WhenRunning, WhenStopping, Connecting
<1>4. r \in Request /\ c \in Content
  <2>1. current \in Services
    BY <1>0, <1>1 DEF Connecting, TypeOK
  <2>2. QED BY <1>0, <2>1 DEF Request, Content, PerAppTypeOK
<1>5. c.perApp = perAppProxyEnabled /\ c.apps = proxyApps /\ c.removed = gone
  OBVIOUS
<1> HIDE DEF r, c
<1>6. /\ toProxy \in Seq(Request) /\ contents \in Seq(Content) /\ Len(contents) \in Nat
      /\ Len(toProxy) = Len(contents) /\ DOMAIN toProxy = 1..Len(contents)
  BY <1>0, ContentFields DEF TypeOK, PerAppTypeOK
<1>7. /\ contents' \in Seq(Content) /\ Len(contents') = n /\ Len(toProxy') = n
      /\ DOMAIN contents' = 1..n /\ DOMAIN toProxy' = 1..n
      /\ \A k \in 1..Len(contents) : contents'[k] = contents[k] /\ toProxy'[k] = toProxy[k]
      /\ contents'[n] = c
  BY <1>1, <1>4, <1>6
<1>8. \A k \in 1..n : k \in 1..Len(contents) \/ k = n
  BY <1>6
<1>9. Sends'
  <2>1. \A k \in 1..Len(contents) : ~FromMain(k)'
    BY <1>3, <1>6, <1>7 DEF FromMain, NothingQueued
  <2>2. QED BY <1>1, <1>5, <1>7, <1>8, <2>1 DEF Sends, Queued
<1>10. Takes'
  <2>1. ~Up'
    <3>1. ~JobIsOurs'
      BY <1>0, <1>1, <1>3 DEF JobIsOurs, Ours, Nobody, Placed, OneService
    <3>2. QED BY <1>1, <1>2, <1>3, <3>1, OneAnswer DEF Up
  <2>2. QED BY <2>1 DEF Takes
<1>11. Removed'
  BY <1>0, <1>1, <1>5, <1>6, <1>7, <1>8 DEF Removed, PerAppTypeOK
<1>12. Fragments' /\ GoesFirst'
  BY <1>0, <1>1, <1>2, <1>3 DEF PerAppInv, Fragments, GoesFirst
<1>13. PerAppTypeOK'
  BY <1>0, <1>1, <1>7 DEF PerAppTypeOK
<1>14. QED BY <1>9, <1>10, <1>11, <1>12, <1>13 DEF PerAppInv

\* A request is taken from both queues.
LEMMA HandledKeeps ==
    ASSUME ControlInv, PerAppInv, toProxy # <<>>, toProxy' = Tail(toProxy), contents' = Tail(contents),
           UNCHANGED <<ui, pm, list, installed, gone, alive, perAppProxyEnabled, proxyApps, meddled>>,
           tunnel' \in Scopes, Up' => Read
    PROVE  PerAppTypeOK' /\ Fragments' /\ GoesFirst' /\ Sends' /\ Removed'
<1>0. TypeOK /\ OneService /\ PerAppTypeOK /\ Removed /\ Sends
  BY DEF ControlInv, PerAppInv, Placed
<1>1. /\ toProxy \in Seq(Request) /\ contents \in Seq(Content) /\ Len(contents) \in Nat
      /\ Len(toProxy) = Len(contents) /\ DOMAIN toProxy = 1..Len(contents)
      /\ DOMAIN contents = 1..Len(contents)
  BY <1>0, ContentFields DEF TypeOK, PerAppTypeOK
<1>2. contents # <<>> /\ Len(contents) >= 1
  BY <1>1, FirstRequest
<1>3. /\ contents' \in Seq(Content) /\ Len(contents') = Len(contents) - 1
      /\ DOMAIN contents' = 1..(Len(contents) - 1)
      /\ \A k \in 1..(Len(contents) - 1) : contents'[k] = contents[k + 1] /\ k + 1 \in 1..Len(contents)
  BY <1>1, <1>2
<1>4. Len(toProxy') = Len(contents') /\ DOMAIN toProxy' = 1..(Len(contents) - 1)
  BY <1>0, <1>1, <1>3, FirstRequest
<1>5. \A k \in DOMAIN toProxy' : Queued(k)' => Queued(k + 1)
  BY <1>0, AfterFirst DEF Queued, FromMain
<1>6. Sends'
  BY <1>0, <1>1, <1>3, <1>4, <1>5 DEF Sends
<1>7. Removed'
  BY <1>0, <1>1, <1>3 DEF Removed
<1>8. Read' => Read
  BY <1>1, <1>3, <1>4, <1>5 DEF Read
<1>9. Fragments' /\ GoesFirst'
  BY <1>8 DEF PerAppInv, Fragments, GoesFirst
<1>10. PerAppTypeOK'
  BY <1>0, <1>3, <1>4 DEF PerAppTypeOK
<1>11. QED BY <1>6, <1>7, <1>9, <1>10

LEMMA StopRequestKeeps ==
    ASSUME ControlInv, PerAppInv, StopProxyRequest PROVE PerAppInv'
<1>0. TypeOK /\ Placed /\ PerAppTypeOK /\ Rest
  BY DEF ControlInv, PerAppInv, Rest
<1>1. /\ toProxy # <<>> /\ toProxy' = Tail(toProxy) /\ contents' = Tail(contents) /\ job = NoJob
      /\ toMain' = Answered(svc[Head(toProxy).service], "STOP")
      /\ UNCHANGED <<ui, pm, job, mishaps>>
      /\ UNCHANGED <<list, installed, gone, alive, perAppProxyEnabled, proxyApps, meddled, tunnel>>
  BY DEF StopProxyRequest, onMessageStopProxyRequest, apps, settings
<1>2. 1 \in DOMAIN toProxy /\ Head(toProxy) = toProxy[1] /\ toProxy[1].service \in Services
  BY <1>0, <1>1, FirstRequest, RequestFields
<1>3. Up' => Up
  <2>1. toMain' = <<"START">> => toMain = <<"START">>
    <3>1. CASE FromMain(1)
      <4>1. toMain = <<>>
        BY <1>0, <1>2, <3>1, RequestIsAwaited
      <4>2. toMain' = <<>> \/ toMain' = <<"STOP">>
        BY <1>1, <4>1 DEF Answered
      <4>3. QED BY <4>2, OneAnswer
    <3>2. CASE ~FromMain(1)
      BY <1>0, <1>1, <1>2, <3>2, LeftRequest DEF Answered, Nobody, Ours
    <3>3. QED BY <3>1, <3>2
  <2>2. QED BY <1>1, <2>1 DEF Up, JobIsOurs
<1>4. PerAppTypeOK' /\ Fragments' /\ GoesFirst' /\ Sends' /\ Removed'
  BY <1>0, <1>1, <1>3, HandledKeeps DEF PerAppTypeOK, Read
<1>5. Takes'
  <2>1. Fits' <=> Fits
    BY <1>1 DEF Fits, InTunnel, Chosen, NothingChosen
  <2>2. QED BY <1>1, <1>3, <2>1 DEF PerAppInv, Takes, AllNoticed
<1>6. QED BY <1>4, <1>5 DEF PerAppInv

\* The interface that startVpnService() asks for is that of the settings, if they are still the
\* ones that were sent.
LEMMA ScopeFits ==
    ASSUME PerAppTypeOK, NEW c \in Content, c.perApp = perAppProxyEnabled, c.apps = proxyApps,
           UNCHANGED <<perAppProxyEnabled, proxyApps, gone>>, tunnel' = Scope(c)
    PROVE  Fits'
BY AppsAssumption DEF Fits, InTunnel, Chosen, NothingChosen, Scope, PerAppTypeOK

LEMMA ScopeType == ASSUME NEW c \in Content PROVE Scope(c) \in Scopes
BY DEF Scope, Scopes, Content

LEMMA StartRequestKeeps ==
    ASSUME ControlInv, PerAppInv, NEW r \in {"vpn", "tl", "tun", "ok"}, StartProxyRequest(r)
    PROVE  PerAppInv'
<1>0. TypeOK /\ Placed /\ OneService /\ PerAppTypeOK /\ Rest
  BY DEF ControlInv, PerAppInv, Rest, Placed
<1>1. /\ toProxy # <<>> /\ Head(toProxy).what = "START" /\ Head(toProxy).service \in Services
      /\ toProxy' = Tail(toProxy) /\ UNCHANGED <<ui, pm, toMain>> /\ mishaps \subseteq mishaps'
      /\ \/ r = "ok" /\ job'.service = Head(toProxy).service
         \/ r # "ok" /\ job' = NoJob
  <2>1. onMessageStartProxyRequest(r)
    BY DEF StartProxyRequest
  <2>2. /\ toProxy # <<>> /\ Head(toProxy).what = "START" /\ Head(toProxy).service \in Services
        /\ toProxy' = Tail(toProxy) /\ UNCHANGED <<ui, pm, toMain>>
        /\ \/ r = "ok" /\ job' = [service |-> Head(toProxy).service, tries |-> 0] /\ UNCHANGED mishaps
           \/ r # "ok" /\ job' = NoJob /\ Happens("start failed")
    BY <1>0, <2>1, StartRequest
  <2>3. mishaps \subseteq mishaps'
    BY <2>2 DEF Happens
  <2>4. r = "ok" => job'.service = Head(toProxy).service
    BY <2>2
  <2>5. QED BY <2>2, <2>3, <2>4
<1>2. /\ contents' = Tail(contents)
      /\ UNCHANGED <<list, installed, gone, alive, perAppProxyEnabled, proxyApps, meddled>>
      /\ tunnel' = IF r = "vpn" THEN tunnel ELSE Scope(Head(contents))
  BY DEF StartProxyRequest, apps, settings
<1>3. 1 \in DOMAIN toProxy /\ Head(toProxy) = toProxy[1]
  BY <1>0, <1>1, FirstRequest
<1>4. Head(contents) = contents[1] /\ contents[1] \in Content
  <2>1. contents \in Seq(Content) /\ Len(contents) \in Nat /\ 1 \in DOMAIN contents
    BY <1>0, <1>3, ContentFields
  <2>2. QED BY <2>1
<1>5. tunnel' \in Scopes
  BY <1>0, <1>2, <1>4, ScopeType DEF PerAppTypeOK
<1>6. CASE FromMain(1)
  <2>1. Queued(1) /\ pm.status = "STARTING" /\ toMain = <<>>
    BY <1>0, <1>1, <1>3, <1>6, RequestIsAwaited DEF Queued
  <2>2. Up' => Read
    BY <1>3, <2>1 DEF Read
  <2>3. Takes'
    <3>1. Up' => r = "ok"
      BY <1>1, <2>1, OneAnswer DEF Up, JobIsOurs
    <3>2. ASSUME ~meddled, r = "ok" PROVE Fits'
      <4>1. contents[1].perApp = perAppProxyEnabled /\ contents[1].apps = proxyApps
        BY <1>3, <2>1, <3>2 DEF PerAppInv, Sends
      <4>2. QED BY <1>0, <1>2, <1>4, <3>2, <4>1, ScopeFits
    <3>3. QED BY <1>2, <3>1, <3>2 DEF Takes
  <2>4. QED BY <1>1, <1>2, <1>5, <2>2, <2>3, HandledKeeps DEF PerAppInv
<1>7. CASE ~FromMain(1)
  <2>1. Nobody /\ (AllNoticed => pm.status # "RUNNING" /\ toMain # <<"START">>)
    BY <1>0, <1>3, <1>7, LeftRequest
  <2>2. ~JobIsOurs'
    <3>1. CASE r # "ok"
      BY <1>1, <3>1 DEF JobIsOurs
    <3>2. CASE r = "ok"
      <4>1. PICK s \in Services : s = Head(toProxy).service
        BY <1>1
      <4>2. Head(toProxy).from = "dead"
        BY <1>0, <1>3, <1>7, RequestFields DEF FromMain
      <4>3. PICK p \in Programs \cup {NoProgram} : svc'[s] = Started(svc[s], Head(toProxy).from, r, p)
        BY <1>0, <4>1, StartRequest DEF StartProxyRequest
      <4>4. svc'[s].client = "dead"
        BY <4>2, <4>3 DEF Started
      <4>5. job'.service = s
        BY <1>1, <3>2, <4>1
      <4>6. QED BY <4>4, <4>5 DEF JobIsOurs, Ours
    <3>3. QED BY <3>1, <3>2
  <2>3. Up' => Read
    BY <1>1, <2>2 DEF Up, Read
  <2>4. Takes'
    BY <1>1, <2>1, <2>2 DEF Takes, Up, AllNoticed
  <2>5. QED BY <1>1, <1>2, <1>5, <2>3, <2>4, HandledKeeps DEF PerAppInv
<1>8. QED BY <1>6, <1>7

-----------------------------------------------------------------------------
(* A process dies *)

LEMMA ProxyDeathKeeps ==
    ASSUME ControlInv, PerAppInv, ServiceProcessDies PROVE PerAppInv'
<1>0. TypeOK /\ PerAppTypeOK
  BY DEF ControlInv, PerAppInv
<1>1. /\ UNCHANGED <<ui, pm>> /\ toProxy' = <<>> /\ contents' = <<>>
      /\ UNCHANGED <<apps, alive, settings, list, tunnel, meddled>>
  BY DEF ServiceProcessDies, ProxyDies
<1>2. Quiet
  BY AndroidQuiet DEF ServiceProcessDies
<1>3. DOMAIN contents' = {} /\ DOMAIN toProxy' = {}
  BY <1>1
<1>4. Sends' /\ Takes' /\ Removed'
  BY <1>1, <1>2, <1>3, QuietKeeps DEF Extends
<1>5. Fragments' /\ GoesFirst'
  BY <1>1, <1>2, QuietRead DEF PerAppInv, Fragments, GoesFirst
<1>6. PerAppTypeOK'
  BY <1>0, <1>1 DEF PerAppTypeOK, apps, settings
<1>7. QED BY <1>4, <1>5, <1>6 DEF PerAppInv

LEMMA MainDeathKeeps ==
    ASSUME ControlInv, PerAppInv, MainProcessDies PROVE PerAppInv'
<1>0. TypeOK /\ PerAppTypeOK /\ Removed /\ MainDies
  BY DEF ControlInv, PerAppInv, MainProcessDies
<1>1. /\ ui' = NoActivity /\ pm' = FreshManager /\ alive' = FALSE
      /\ perAppProxyEnabled' = FALSE /\ proxyApps' = {} /\ list' = NoList
      /\ UNCHANGED <<installed, gone, contents, tunnel, meddled>>
  BY DEF MainProcessDies, MainDies, apps
<1>2. NoList \in List /\ NoList.apps = {} /\ NoList.edit = FALSE /\ NoList.there = FALSE
  <2>1. NoList \in List
    BY <1>0, ListTypes
  <2>2. QED BY <2>1 DEF NoList
<1>3. ControlInv'
  BY <1>0, ControlNext DEF Next, Android
<1>4. pm'.status = "IDLE" /\ ~ui'.live
  BY <1>1 DEF FreshManager, NoActivity
<1>5. ~Read'
  <2>1. /\ toMain' = <<>> /\ job' = job /\ (\A s \in Services : ~Ours(s)')
        /\ NothingQueued' /\ (job' # NoJob' => job'.service \in Services)
    BY <1>0, <1>3, <1>4 DEF ControlInv, Placed, WhenIdle, OneService, Nobody, MainDies
  <2>2. QED BY <1>4, <2>1, OneAnswer DEF Read, Up, JobIsOurs, Queued, NothingQueued
<1>6. Sends' /\ Takes'
  BY <1>5 DEF Read, Sends, Takes
<1>7. Removed'
  BY <1>0, <1>1, <1>2 DEF Removed
<1>8. Fragments' /\ GoesFirst'
  BY <1>1, <1>2, <1>4 DEF Fragments, GoesFirst
<1>9. PerAppTypeOK'
  <2>1. Len(toProxy') = Len(toProxy)
    <3>1. toProxy \in Seq(Request) /\ toProxy' \in Seq(Request) /\ DOMAIN toProxy' = DOMAIN toProxy
      BY <1>0, LeftRequests DEF TypeOK
    <3>2. 1..Len(toProxy') = 1..Len(toProxy) /\ Len(toProxy') \in Nat /\ Len(toProxy) \in Nat
      BY <3>1
    <3>3. QED BY <3>2
  <2>2. QED BY <1>0, <1>1, <1>2, <2>1 DEF PerAppTypeOK
<1>10. QED BY <1>6, <1>7, <1>8, <1>9 DEF PerAppInv

-----------------------------------------------------------------------------
(* The theorems *)

LEMMA PerAppInitial == PerAppInit => PerAppInv
<1> SUFFICES ASSUME PerAppInit PROVE PerAppInv
  OBVIOUS
<1>1. /\ ui = NoActivity /\ pm = FreshManager /\ toProxy = <<>> /\ contents = <<>>
      /\ installed = Apps /\ alive = FALSE /\ perAppProxyEnabled = FALSE /\ proxyApps = {}
      /\ list = NoList /\ tunnel = [only |-> FALSE, apps |-> {}] /\ gone = {} /\ meddled = FALSE
  BY DEF PerAppInit, Init
<1>2. pm.status = "IDLE" /\ ~ui.live
  BY <1>1 DEF FreshManager, NoActivity
<1>3. ~Read
  BY <1>2, ControlInit, IdleNotRead DEF PerAppInit
<1>4. NoList \in List /\ NoList.apps = {} /\ NoList.edit = FALSE /\ NoList.there = FALSE
  BY DEF NoList, List
<1>5. PerAppTypeOK
  <2>1. <<>> \in Seq(Content)
    OBVIOUS
  <2>2. tunnel \in Scopes
    BY <1>1 DEF Scopes
  <2>3. QED BY <1>1, <1>4, <2>1, <2>2 DEF PerAppTypeOK
<1>6. Fragments /\ GoesFirst
  BY <1>1, <1>2, <1>4 DEF Fragments, GoesFirst
<1>r. Removed
  <2>1. DOMAIN contents = {}
    BY <1>1
  <2>2. QED BY <1>1, <1>4, <2>1 DEF Removed
<1>7. QED BY <1>3, <1>5, <1>6, <1>r, NothingRead DEF PerAppInv

LEMMA PerAppStep == ControlInv /\ PerAppInv /\ PerAppNext => PerAppInv'
<1> SUFFICES ASSUME ControlInv, PerAppInv, PerAppNext PROVE PerAppInv'
  OBVIOUS
<1>1. CASE \E enabled \in BOOLEAN, chosen \in SUBSET Apps : CreateSettingsManager(enabled, chosen)
  BY <1>1, CreateKeeps
<1>2. CASE onPerAppProxySwitchChecked \/ \E app \in Apps : Touch(app)
  BY <1>2, MeddleKeeps
<1>3. CASE onEditPerAppProxySwitchChecked \/ CommitRuns
  BY <1>3, ListKeeps
<1>4. CASE \E app \in Apps : Install(app) \/ Uninstall(app)
  BY <1>4, AppsKeep
<1>5. CASE \E b \in BOOLEAN : StartProxy(b) \/ PrepareVpnServiceResult(b)
  BY <1>5, StartKeeps
<1>6. CASE StopProxy \/ ActivityEnds \/ ActivityBegins
  BY <1>6, StopKeeps
<1>7. CASE ProxyServiceConnected
  BY <1>7, ConnectedKeeps
<1>8. CASE (\E r \in {"vpn", "tl", "tun", "ok"} : StartProxyRequest(r)) \/ StopProxyRequest
  BY <1>8, StartRequestKeeps, StopRequestKeeps
<1>9. CASE ServiceProcessDies \/ MainProcessDies
  BY <1>9, ProxyDeathKeeps, MainDeathKeeps
<1>10. CASE Elsewhere
  BY <1>10, ElsewhereKeeps
<1>11. QED
  BY <1>1, <1>2, <1>3, <1>4, <1>5, <1>6, <1>7, <1>8, <1>9, <1>10 DEF PerAppNext

LEMMA PerAppStutter == PerAppInv /\ UNCHANGED perAppVars => PerAppInv'
<1> SUFFICES ASSUME PerAppInv, UNCHANGED perAppVars PROVE PerAppInv'
  OBVIOUS
<1>1. /\ UNCHANGED <<ui, pm, svc, job, toProxy, toMain, mishaps>> /\ UNCHANGED vars
      /\ UNCHANGED <<installed, alive, perAppProxyEnabled, proxyApps, list, contents, tunnel, gone, meddled>>
  BY DEF perAppVars, vars, settings
<1>2. Read' <=> Read
  BY <1>1, UnchangedRead
<1>3. PerAppTypeOK' /\ Fragments' /\ GoesFirst' /\ Removed'
  BY <1>1, <1>2 DEF PerAppInv, PerAppTypeOK, Fragments, GoesFirst, Removed
<1>4. Sends'
  BY <1>1 DEF PerAppInv, Sends, Queued, FromMain
<1>5. Takes'
  BY <1>1 DEF PerAppInv, Takes, AllNoticed, Up, JobIsOurs, Ours, Fits, InTunnel, Chosen, NothingChosen
<1>6. QED BY <1>3, <1>4, <1>5 DEF PerAppInv

\* PerAppInv is an invariant, on top of that of ProxyControl.
THEOREM PerAppHolds == PerAppSpec => []PerAppInv
<1>1. PerAppInit => PerAppInv
  BY PerAppInitial
<1>2. ControlInv /\ PerAppInv /\ [PerAppNext]_perAppVars => PerAppInv'
  BY PerAppStep, PerAppStutter
<1>3. QED BY <1>1, <1>2, ControlAlways, PTL DEF PerAppSpec

\* While the app says RUNNING the tunnel that startVpnService() made takes the apps that are
\* chosen and no others, over every order of editing, commits, starts, late connections and
\* deaths of either process.
THEOREM AlwaysCapturesTheChosen == PerAppSpec => []CapturesTheChosen
<1>1. ControlInv /\ PerAppInv => CapturesTheChosen
  <2> SUFFICES ASSUME ControlInv, PerAppInv, pm.status = "RUNNING", AllNoticed, ~meddled, ~NothingChosen,
                      NEW app \in (installed \ gone) \cup {self}
               PROVE  Captures(app) <=> Chosen(app)
    BY DEF CapturesTheChosen
  <2>1. vpn # NoService
    BY ServicesAssumption DEF ControlInv, Running, Serves
  <2>2. app \in (Apps \ gone) \cup {self}
    BY DEF PerAppInv, PerAppTypeOK
  <2>3. InTunnel(app) <=> Chosen(app)
    BY <2>2 DEF PerAppInv, Takes, Up, Fits
  <2>4. QED BY <2>1, <2>3 DEF Captures
<1>2. QED BY <1>1, PerAppHolds, ControlAlways, PTL

\* A start that the service will refuse for apps that are not there asks for apps that were removed
\* after its sender had made its list: no choice that SettingsManager has read can be refused again
\* and again.
THEOREM AlwaysRefusedOnlyIfRemoved == PerAppSpec => []RefusedOnlyIfRemoved
<1>1. PerAppInv => RefusedOnlyIfRemoved
  BY DEF PerAppInv, Removed, RefusedOnlyIfRemoved
<1>2. QED BY <1>1, PerAppHolds, PTL
=============================================================================
