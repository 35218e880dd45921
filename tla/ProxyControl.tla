---------------------------- MODULE ProxyControl ----------------------------
(***************************************************************************)
(* How the app turns the proxy on and off: MainActivity and its presenter, *)
(* ProxyManager in the main process, TwilightLineVpnService in the :proxy  *)
(* process, and the two programs the service runs, tlclient and tun2socks. *)
(*                                                                         *)
(* Each process has one thread that matters, its main looper.  They talk   *)
(* by Messenger: a request or an answer is queued and handled later.  The  *)
(* service sends the VPN's descriptor to tun2socks over a local socket, in *)
(* a loop that blocks the looper of :proxy; that loop is the only handler  *)
(* that takes more than one step here.  The name of the socket is the same *)
(* for every tun2socks, so it may be an earlier one that gets it.          *)
(*                                                                         *)
(* Android is nondeterministic: it destroys and recreates activities and   *)
(* services and kills processes whenever it likes.  Faults says which of   *)
(* the things that can go wrong a run considers.                           *)
(***************************************************************************)
EXTENDS Integers, Sequences, FiniteSets

CONSTANTS
    Services,       \* slots for instances of TwilightLineVpnService
    NoService,      \* not one of them
    Programs,       \* slots for tun2socks processes; bound: a start needs a free one
    NoProgram,      \* not one of them
    FdTries,        \* attempts to send the descriptor (10 in the code)
    QueueBound,     \* bound: the main process dies only while :proxy has fewer requests
    Faults          \* what may go wrong

ASSUME ServicesAssumption == NoService \notin Services /\ NoProgram \notin Programs

ASSUME BoundsAssumption == FdTries \in Nat \ {0} /\ QueueBound \in Nat

ASSUME FaultsAssumption ==
    Faults \subseteq
      {"vpn",         \* startVpnService() returns false
       "null",        \* establish() returns null: the app is not prepared any more
       "tl", "tun",   \* the asset or the program cannot be copied or executed
       "slow",        \* tun2socks cannot be reached within FdTries attempts
       "exit",        \* tlclient or tun2socks exits by itself
       "destroy",     \* the system destroys the service (its task is removed, ...)
       "revoke",      \* the user or another VPN takes the interface away
       "proxy dies", "main dies",
       "recreate"}    \* the system recreates the activity (locale, night mode, ...)

VARIABLES
    ui,             \* the activity on the screen, and its switches
    pm,             \* ProxyManager, and the system's end of its ServiceConnection
    current,        \* the instance the system counts as the running service
    svc,            \* [Services -> the fields of the instance, and what they refer to]
    job,            \* the service whose start handler is sending the descriptor
    tun2socks,      \* [Programs -> how far the process has got]
    path,           \* the process that bound the socket's file last
    vpn,            \* the instance whose interface is up
    toProxy,        \* requests queued for the looper of :proxy
    toMain,         \* answers queued for the looper of the main process
    orphans,        \* a handle of a running program was overwritten
    mishaps         \* history: what has gone wrong, see Mishaps

tun == <<tun2socks, path, vpn>>
vars == <<ui, pm, current, svc, job, tun, toProxy, toMain, orphans, mishaps>>

\* What the manager is not told of: a program or :proxy died, the interface was taken away,
\* or the descriptor went to a process that was no longer waiting for one.
Unnoticed == {"died", "revoked", "descriptor lost"}
Mishaps == {"start failed", "service gone", "main died"} \cup Unnoticed
Happens(m) == mishaps' = mishaps \cup {m}
AllNoticed == mishaps \cap Unnoticed = {}

\* clean (history): the activity was created while the proxy was off and no
\* permission dialog of an earlier activity was open, and its switch was only pressed.
Activity == [live : BOOLEAN, enabled : BOOLEAN, checked : BOOLEAN, settings : BOOLEAN,
             dialog : BOOLEAN, clean : BOOLEAN]

NoActivity == [live |-> FALSE, enabled |-> FALSE, checked |-> FALSE, settings |-> FALSE,
               dialog |-> FALSE, clean |-> FALSE]

\* A callback holds the activity that passed it, which may be destroyed by then.
Callbacks == {"none", "current", "stale"}

Manager == [status : {"IDLE", "STARTING", "RUNNING", "STOPPING"},
            startFinishCallback : Callbacks, stopFinishCallback : Callbacks,
            messenger : Services \cup {NoService},
            bound : BOOLEAN, connected : BOOLEAN]

FreshManager == [status |-> "IDLE", startFinishCallback |-> "none",
                 stopFinishCallback |-> "none", messenger |-> NoService,
                 bound |-> FALSE, connected |-> FALSE]

\* client: clientMessenger, which outlives the main process it belongs to ("dead").
\* tl: the tlclient it started runs.  tun: tun2SocksProcess, which may have ended.
Instance == [client : {"none", "main", "dead"}, fd : BOOLEAN, tl : BOOLEAN,
             tun : Programs \cup {NoProgram}]

FreshInstance == [client |-> "none", fd |-> FALSE, tl |-> FALSE, tun |-> NoProgram]

\* "handed": the descriptor is in its socket, not yet taken.  "outdated": the same,
\* but the interface it belongs to is no more.
Tun2SocksStates == {"none", "starting", "listening", "handed", "outdated", "running"}

Holds(state) == state \in {"handed", "running"}

NoJob == [service |-> NoService, tries |-> 0]

Request == [what : {"START", "STOP"}, service : Services, from : {"main", "dead"}]

-----------------------------------------------------------------------------
(* ProxyManager *)

\* A slot that nothing refers to any more stands for an instance not yet created.
Unused(s) == /\ s \notin {current, pm.messenger, job.service, vpn}
             /\ svc[s] = FreshInstance
             /\ \A k \in DOMAIN toProxy : toProxy[k].service # s

start_UnlessRunning ==
    \/ pm.status = "RUNNING" /\ UNCHANGED <<pm, current>>
    \/ /\ pm.status # "RUNNING"
       /\ pm' = [pm EXCEPT !.status = "STARTING", !.startFinishCallback = "current",
                           !.bound = TRUE, !.connected = FALSE]
       /\ \/ current # NoService /\ UNCHANGED current
          \/ current = NoService /\ \E s \in Services : Unused(s) /\ current' = s

\* ProxyManager.start(), for the activity on the screen.  startForegroundService()
\* creates the service if it does not run.
start ==
    \/ /\ pm.status # "IDLE"
       /\ UNCHANGED <<pm, current>>
    \/ /\ pm.status = "IDLE"
       /\ pm' = [pm EXCEPT !.status = "STARTING", !.startFinishCallback = "current",
                           !.bound = TRUE, !.connected = FALSE]
       /\ \/ current # NoService /\ UNCHANGED current
          \/ current = NoService /\ \E s \in Services : Unused(s) /\ current' = s

stop_UnlessIdle(m, cb) ==
    IF m.status = "IDLE" THEN pm' = m /\ UNCHANGED toProxy
    ELSE /\ pm' = [m EXCEPT !.status = "STOPPING", !.stopFinishCallback = cb]
         /\ toProxy' = IF m.messenger = NoService THEN toProxy
                       ELSE Append(toProxy, [what |-> "STOP", service |-> m.messenger,
                                             from |-> "main"])

\* ProxyManager.stop() of the manager m, for the callback cb.  A null or dead
\* messenger throws, which is caught and ignored.
stop(m, cb) ==
    \/ /\ m.status # "RUNNING"
       /\ pm' = m
       /\ UNCHANGED toProxy
    \/ /\ m.status = "RUNNING"
       /\ pm' = [m EXCEPT !.status = "STOPPING", !.stopFinishCallback = cb]
       /\ toProxy' = IF m.messenger = NoService THEN toProxy
                     ELSE Append(toProxy, [what |-> "STOP", service |-> m.messenger,
                                           from |-> "main"])

onProxyServiceConnected ==
    /\ pm.bound /\ ~pm.connected /\ current # NoService
    /\ pm' = [pm EXCEPT !.messenger = current, !.connected = TRUE]
    /\ toProxy' = Append(toProxy, [what |-> "START", service |-> current, from |-> "main"])
    /\ UNCHANGED <<ui, current, svc, job, tun, toMain, orphans, mishaps>>

onProxyServiceDisconnected ==
    /\ pm.bound /\ pm.connected /\ current # pm.messenger
    /\ pm' = [pm EXCEPT !.messenger = NoService, !.connected = FALSE]
    /\ UNCHANGED <<ui, current, svc, job, tun, toProxy, toMain, orphans, mishaps>>

onMessageStartProxyResponse_ClearsFirst ==
    /\ toMain # <<>> /\ Head(toMain) = "START"
    /\ toMain' = Tail(toMain)
    /\ pm' = [pm EXCEPT !.status = "RUNNING", !.startFinishCallback = "none"]
    /\ UNCHANGED <<ui, current, svc, job, tun, toProxy, orphans, mishaps>>

onMessageStartProxyResponse ==
    /\ toMain # <<>> /\ Head(toMain) = "START"
    /\ toMain' = Tail(toMain)
    /\ pm' = [pm EXCEPT !.status = "RUNNING", !.startFinishCallback = "none"]
    /\ ui' = IF pm.startFinishCallback = "current" THEN [ui EXCEPT !.enabled = TRUE] ELSE ui
    /\ UNCHANGED <<current, svc, job, tun, toProxy, orphans, mishaps>>

\* Unbinds and stops the service.
onMessageStopProxyResponse ==
    /\ toMain # <<>> /\ Head(toMain) = "STOP"
    /\ toMain' = Tail(toMain)
    /\ pm' = [pm EXCEPT !.status = "IDLE", !.stopFinishCallback = "none",
                        !.bound = FALSE, !.connected = FALSE]
    /\ current' = NoService
    /\ ui' = IF pm.stopFinishCallback = "current"
             THEN [ui EXCEPT !.enabled = TRUE, !.settings = TRUE] ELSE ui
    /\ UNCHANGED <<svc, job, tun, toProxy, orphans, mishaps>>

-----------------------------------------------------------------------------
(* MainActivity and MainActivityPresenter *)

\* The user turns the switch on.  VpnService.prepare() may want to ask first.
startProxy(ask) ==
    /\ ui.live /\ ui.enabled /\ ~ui.checked /\ ~ui.dialog
    /\ ui' = [ui EXCEPT !.checked = TRUE, !.enabled = FALSE, !.settings = FALSE,
                        !.dialog = ask]
    /\ IF ask THEN UNCHANGED <<pm, current>> ELSE start
    /\ UNCHANGED <<svc, job, tun, toProxy, toMain, orphans, mishaps>>

onPrepareVpnServiceResult_KeepsChecked(granted) ==
    /\ ui.live /\ ui.dialog
    /\ ui' = IF granted THEN [ui EXCEPT !.dialog = FALSE]
             ELSE [ui EXCEPT !.dialog = FALSE, !.enabled = TRUE, !.settings = TRUE]
    /\ IF granted THEN start ELSE UNCHANGED <<pm, current>>
    /\ UNCHANGED <<svc, job, tun, toProxy, toMain, orphans, mishaps>>

\* The permission dialog is answered.
onPrepareVpnServiceResult(granted) ==
    /\ ui.live /\ ui.dialog
    /\ ui' = IF granted THEN [ui EXCEPT !.dialog = FALSE]
             ELSE [ui EXCEPT !.dialog = FALSE, !.checked = FALSE, !.enabled = TRUE,
                             !.settings = TRUE]
    /\ IF granted THEN start ELSE UNCHANGED <<pm, current>>
    /\ UNCHANGED <<svc, job, tun, toProxy, toMain, orphans, mishaps>>

\* The user turns the switch off.
stopProxy ==
    /\ ui.live /\ ui.enabled /\ ui.checked /\ ~ui.dialog
    /\ ui' = [ui EXCEPT !.checked = FALSE, !.enabled = FALSE]
    /\ stop(pm, "current")
    /\ UNCHANGED <<current, svc, job, tun, toMain, orphans, mishaps>>

\* The switch changes without a press (keyboard, accessibility service): the listener returns.
Unpressed ==
    /\ ui.live /\ ui.enabled /\ ~ui.dialog
    /\ ui' = [ui EXCEPT !.checked = ~@, !.clean = FALSE]
    /\ UNCHANGED <<pm, current, svc, job, tun, toProxy, toMain, orphans, mishaps>>

\* The activity on the screen is destroyed: callbacks into it do nothing visible.
Stale(cb) == IF cb = "current" THEN "stale" ELSE cb

Forget(m) == [m EXCEPT !.startFinishCallback = Stale(@), !.stopFinishCallback = Stale(@)]

\* onCreate(): nothing is restored from the old activity or from the manager.
Created(status, dialog) ==
    [live |-> TRUE, enabled |-> TRUE, checked |-> FALSE, settings |-> TRUE,
     dialog |-> dialog, clean |-> status = "IDLE" /\ ~dialog]

\* The activity is finished (back, or its task is removed) and its result dropped.
onDestroy ==
    /\ ui.live
    /\ ui' = NoActivity
    /\ stop(Forget(pm), "stale")
    /\ UNCHANGED <<current, svc, job, tun, toMain, orphans, mishaps>>

onCreate ==
    /\ ~ui.live
    /\ ui' = Created(pm.status, FALSE)
    /\ UNCHANGED <<pm, current, svc, job, tun, toProxy, toMain, orphans, mishaps>>

\* A configuration change: onDestroy(), then onCreate() of the next activity, which
\* gets the answer of an open permission dialog.
Recreate ==
    /\ "recreate" \in Faults /\ ui.live
    /\ stop(Forget(pm), "stale")
    /\ ui' = Created(pm'.status, ui.dialog)
    /\ UNCHANGED <<current, svc, job, tun, toMain, orphans, mishaps>>

-----------------------------------------------------------------------------
(* TwilightLineVpnService, on the main looper of :proxy *)

\* The queue of answers after instance i has answered: clientMessenger.send() throws
\* if it is null or its process is gone, which is caught and ignored.
Answered(i, what) == IF i.client = "main" THEN Append(toMain, what) ELSE toMain

\* The interface is replaced or taken away: to read from the old descriptor is an error,
\* which ends a tun2socks (device_error_handler), at the latest when it gets that far.
WithoutDevice == [p \in Programs |-> CASE tun2socks[p] = "running" -> "none"
                                       [] tun2socks[p] = "handed" -> "outdated"
                                       [] OTHER -> tun2socks[p]]

\* The interface is up until every copy of its descriptor is closed: that of the instance
\* (fd) and those of the processes.
VpnWith(fd, processes) == IF fd \/ \E p \in Programs : Holds(processes[p]) THEN vpn ELSE NoService

FreeProgram(p) == tun2socks[p] = "none" /\ \A s \in Services : svc[s].tun # p

\* The instance after a start request with outcome r, up to the loop that sends the
\* descriptor to p.  A program that was running is no longer known to anyone.
Started(i, from, r, p) ==
    [client |-> from,
     fd |-> r # "vpn" \/ i.fd,
     tl |-> r \in {"tun", "ok"} \/ i.tl,
     tun |-> IF r = "ok" THEN p ELSE i.tun]

Overwrites(i, r) == \/ r \in {"tun", "ok"} /\ i.tl
                    \/ r = "ok" /\ i.tun # NoProgram /\ tun2socks[i.tun] # "none"

onMessageStartProxyRequest(r) ==
    LET m == Head(toProxy)
        s == m.service
        device == IF r = "vpn" THEN tun2socks ELSE WithoutDevice
    IN  /\ job = NoJob
        /\ toProxy # <<>> /\ m.what = "START"
        /\ r \in (Faults \cap {"vpn", "tl", "tun"}) \cup {"ok"}
        /\ toProxy' = Tail(toProxy)
        /\ vpn' = IF r = "vpn" THEN vpn ELSE s
        /\ orphans' = (orphans \/ Overwrites(svc[s], r))
        /\ \/ /\ r = "ok" /\ job' = [service |-> s, tries |-> 0] /\ UNCHANGED mishaps
              /\ \E p \in Programs : /\ FreeProgram(p)
                                     /\ svc' = [svc EXCEPT ![s] = Started(@, m.from, r, p)]
                                     /\ tun2socks' = [device EXCEPT ![p] = "starting"]
           \/ /\ r # "ok" /\ job' = NoJob /\ Happens("start failed")
              /\ svc' = [svc EXCEPT ![s] = Started(@, m.from, r, NoProgram)]
              /\ tun2socks' = device
        /\ UNCHANGED <<ui, pm, current, path, toMain>>

\* A process that listens, or has not yet closed its socket, can be connected to.
Reachable == path # NoProgram /\ tun2socks[path] \in {"listening", "handed", "outdated"}

\* An attempt of startTun2Socks() to hand over the descriptor succeeds, and with it
\* the start.  It takes the first connection only.
FdSent ==
    /\ job # NoJob /\ Reachable
    /\ \/ /\ tun2socks[path] = "listening" /\ UNCHANGED mishaps
          /\ tun2socks' = [tun2socks EXCEPT ![path] = IF vpn = job.service THEN "handed"
                                                      ELSE "outdated"]
       \/ /\ tun2socks[path] # "listening" /\ Happens("descriptor lost")
          /\ UNCHANGED tun2socks
    /\ toMain' = Answered(svc[job.service], "START")
    /\ job' = NoJob
    /\ UNCHANGED <<ui, pm, current, svc, path, vpn, toProxy, orphans>>

FdFails_Answers ==
    /\ job # NoJob
    /\ ~Reachable \/ "slow" \in Faults
    /\ \/ job.tries + 1 < FdTries /\ job' = [job EXCEPT !.tries = @ + 1] /\ UNCHANGED toMain
       \/ /\ job.tries + 1 >= FdTries /\ "slow" \in Faults
          /\ job' = NoJob /\ toMain' = Answered(svc[job.service], "START")
    /\ UNCHANGED <<ui, pm, current, svc, tun, toProxy, orphans, mishaps>>

\* An attempt fails.  After the last one the start fails, and nobody is told.
FdFails ==
    /\ job # NoJob
    /\ ~Reachable \/ "slow" \in Faults
    /\ \/ /\ job.tries + 1 < FdTries
          /\ job' = [job EXCEPT !.tries = @ + 1]
          /\ UNCHANGED mishaps
       \/ /\ job.tries + 1 >= FdTries /\ "slow" \in Faults
          /\ job' = NoJob /\ Happens("start failed")
    /\ UNCHANGED <<ui, pm, current, svc, tun, toProxy, toMain, orphans>>

onMessageStopProxyRequest_KeepsClient ==
    LET s == Head(toProxy).service IN
    /\ job = NoJob
    /\ toProxy # <<>> /\ Head(toProxy).what = "STOP"
    /\ toProxy' = Tail(toProxy)
    /\ toMain' = Answered(svc[s], "STOP")
    /\ svc' = [svc EXCEPT ![s] = [FreshInstance EXCEPT !.tl = svc[s].tl]]
    /\ tun2socks' = [p \in Programs |-> IF p = svc[s].tun THEN "none" ELSE tun2socks[p]]
    /\ vpn' = NoService
    /\ current' = IF current = s THEN NoService ELSE current
    /\ UNCHANGED <<ui, pm, job, path, orphans, mishaps>>

\* Includes the stopSelf() that follows.
onMessageStopProxyRequest ==
    LET s == Head(toProxy).service
        i == svc[s]
    IN  /\ job = NoJob
        /\ toProxy # <<>> /\ Head(toProxy).what = "STOP"
        /\ toProxy' = Tail(toProxy)
        /\ toMain' = Answered(i, "STOP")
        /\ svc' = [svc EXCEPT ![s] =
                     [FreshInstance EXCEPT !.client = IF i.client = "main" THEN "none"
                                                      ELSE i.client]]
        /\ tun2socks' = [p \in Programs |-> IF p = i.tun THEN "none" ELSE tun2socks[p]]
        /\ vpn' = VpnWith(vpn # NoService /\ vpn # s /\ svc[vpn].fd, tun2socks')
        /\ current' = IF current = s THEN NoService ELSE current
        /\ UNCHANGED <<ui, pm, job, path, orphans, mishaps>>

-----------------------------------------------------------------------------
(* tun2socks (android_wait_for_vpn_fd), the programs, and Android *)

\* It unlinks the socket's file and binds its own: nobody reaches an earlier one any more.
Tun2SocksListens(p) ==
    /\ tun2socks[p] = "starting"
    /\ tun2socks' = [tun2socks EXCEPT ![p] = "listening"]
    /\ path' = p
    /\ UNCHANGED <<ui, pm, current, svc, job, vpn, toProxy, toMain, orphans, mishaps>>

\* It accepts, closes its socket, and starts with the device, or ends if that is gone.
Tun2SocksGetsFd(p) ==
    /\ \/ /\ tun2socks[p] = "handed"
          /\ tun2socks' = [tun2socks EXCEPT ![p] = "running"]
       \/ /\ tun2socks[p] = "outdated"
          /\ tun2socks' = [tun2socks EXCEPT ![p] = "none"]
    /\ UNCHANGED <<ui, pm, current, svc, job, path, vpn, toProxy, toMain, orphans, mishaps>>

TlClientExits(s) ==
    /\ "exit" \in Faults /\ svc[s].tl
    /\ svc' = [svc EXCEPT ![s].tl = FALSE]
    /\ UNCHANGED <<ui, pm, current, job, tun, toProxy, toMain, orphans>>
    /\ Happens("died")

Tun2SocksExits(p) ==
    /\ "exit" \in Faults /\ tun2socks[p] # "none"
    /\ tun2socks' = [tun2socks EXCEPT ![p] = "none"]
    /\ vpn' = VpnWith(vpn # NoService /\ svc[vpn].fd, tun2socks')
    /\ UNCHANGED <<ui, pm, current, svc, job, path, toProxy, toMain, orphans>>
    /\ Happens("died")

\* The interface is taken away.  The stopSelf() of onRevoke() is ServiceDestroyed.
Revoked ==
    /\ "revoke" \in Faults /\ vpn # NoService
    /\ vpn' = NoService
    /\ tun2socks' = WithoutDevice
    /\ UNCHANGED <<ui, pm, current, svc, job, path, toProxy, toMain, orphans>>
    /\ Happens("revoked")

ServiceDestroyed ==
    /\ "destroy" \in Faults \/ "revoked" \in mishaps
    /\ current # NoService
    /\ current' = NoService
    /\ UNCHANGED <<ui, pm, svc, job, tun, toProxy, toMain, orphans>>
    /\ Happens("service gone")

\* With :proxy go its instances, the programs it started and what it was sent.  It
\* also dies by itself: a null descriptor is dereferenced in startTun2Socks().
ProxyDies ==
    /\ \/ "proxy dies" \in Faults
       \/ "null" \in Faults /\ job = NoJob /\ toProxy # <<>> /\ Head(toProxy).what = "START"
    /\ svc' = [s \in Services |-> FreshInstance]
    /\ tun2socks' = [p \in Programs |-> "none"] /\ vpn' = NoService
    /\ current' = NoService
    /\ job' = NoJob
    /\ toProxy' = <<>>
    /\ orphans' = FALSE
    /\ UNCHANGED <<ui, pm, path, toMain>>
    /\ Happens("died")

MainDies ==
    /\ "main dies" \in Faults /\ Len(toProxy) < QueueBound
    /\ ui' = NoActivity
    /\ pm' = FreshManager
    /\ toMain' = <<>>
    /\ toProxy' = [k \in DOMAIN toProxy |-> [toProxy[k] EXCEPT !.from = "dead"]]
    /\ svc' = [s \in Services |-> [svc[s] EXCEPT !.client = IF @ = "main" THEN "dead" ELSE @]]
    /\ UNCHANGED <<current, job, tun, orphans>>
    /\ Happens("main died")

-----------------------------------------------------------------------------
Init ==
    /\ ui = NoActivity
    /\ pm = FreshManager
    /\ current = NoService
    /\ svc = [s \in Services |-> FreshInstance]
    /\ job = NoJob
    /\ tun2socks = [p \in Programs |-> "none"] /\ path = NoProgram /\ vpn = NoService
    /\ toProxy = <<>>
    /\ toMain = <<>>
    /\ orphans = FALSE
    /\ mishaps = {}

User == (\E ask \in BOOLEAN : startProxy(ask)) \/ stopProxy \/ Unpressed \/ onDestroy \/ onCreate

Answers == onMessageStartProxyResponse \/ onMessageStopProxyResponse

Dialog == \E granted \in BOOLEAN : onPrepareVpnServiceResult(granted)

Service == \/ \E r \in {"vpn", "tl", "tun", "ok"} : onMessageStartProxyRequest(r)
           \/ onMessageStopProxyRequest

Tun2Socks == \E p \in Programs : Tun2SocksListens(p) \/ Tun2SocksGetsFd(p)

Exits == (\E s \in Services : TlClientExits(s)) \/ (\E p \in Programs : Tun2SocksExits(p))

Android == Recreate \/ Revoked \/ ServiceDestroyed \/ ProxyDies \/ MainDies

Next == \/ User \/ Dialog \/ Answers \/ Service \/ Tun2Socks \/ Exits \/ Android
        \/ onProxyServiceConnected \/ onProxyServiceDisconnected
        \/ FdSent \/ FdFails

Spec == Init /\ [][Next]_vars

\* Loopers handle what is queued, the system reports a connection, tun2socks gets as
\* far as listening, and somebody answers the dialog.  The user need not do anything.
Fairness == /\ WF_vars(Answers) /\ WF_vars(Service) /\ WF_vars(Dialog)
            /\ WF_vars(onProxyServiceConnected)
            /\ WF_vars(FdSent) /\ WF_vars(Tun2Socks)

FairSpec == Spec /\ Fairness

-----------------------------------------------------------------------------
(* Properties *)

\* Every field keeps the range its declaration and its uses give it.
TypeOK == /\ ui \in Activity
          /\ pm \in Manager
          /\ current \in Services \cup {NoService}
          /\ svc \in [Services -> Instance]
          /\ job \in [service : Services \cup {NoService}, tries : 0..FdTries - 1]
          /\ tun2socks \in [Programs -> Tun2SocksStates]
          /\ path \in Programs \cup {NoProgram} /\ vpn \in Services \cup {NoService}
          /\ toProxy \in Seq(Request)
          /\ toMain \in Seq({"START", "STOP"})
          /\ orphans \in BOOLEAN /\ mishaps \subseteq Mishaps

Sent(what) == {k \in DOMAIN toProxy : toProxy[k].what = what /\ toProxy[k].from = "main"}

Received(what) == {k \in DOMAIN toMain : toMain[k] = what}

\* Where an operation of this main process can be on its way.
Flag(p) == IF p THEN 1 ELSE 0

StartsUnderWay ==
    Flag(pm.bound /\ ~pm.connected /\ current # NoService) + Cardinality(Sent("START"))
      + Flag(job # NoJob /\ svc[job.service].client = "main") + Cardinality(Received("START"))

StopsUnderWay == Cardinality(Sent("STOP")) + Cardinality(Received("STOP"))

\* An operation is in one place at a time, and never in two: every answer is the one
\* the manager waits for, and unbindService() never meets a connection that is not
\* bound (which would throw).
OneOperation ==
    /\ StartsUnderWay <= IF pm.status = "STARTING" THEN 1 ELSE 0
    /\ StopsUnderWay <= IF pm.status = "STOPPING" THEN 1 ELSE 0
    /\ pm.status # "IDLE" => pm.bound

\* While the app says RUNNING, the interface is up, tlclient runs, a tun2socks has been
\* given the descriptor of that interface, and the service the manager would ask to stop
\* is the one that set it up; unless something happened that nobody is told of.  As
\* long as the main process lives that tun2socks is the one the service can stop.
RunningMeansProxied ==
    pm.status = "RUNNING" /\ AllNoticed =>
        \E s \in Services :
            /\ svc[s].client = "main" /\ svc[s].fd /\ svc[s].tl
            /\ vpn = s /\ pm.messenger \in {s, NoService}
            /\ \E p \in Programs : /\ Holds(tun2socks[p])
                                   /\ "main died" \notin mishaps => p = svc[s].tun

\* When the app says IDLE the VPN is down and no program it started is left, however
\* often and by whichever activity it was turned on and off, as long as the main process lives.
IdleMeansStopped ==
    pm.status = "IDLE" /\ "main died" \notin mishaps =>
        /\ job = NoJob /\ toProxy = <<>> /\ toMain = <<>> /\ vpn = NoService
        /\ \A s \in Services : ~svc[s].fd /\ ~svc[s].tl
        /\ \A p \in Programs : tun2socks[p] = "none"

\* No start overwrites the handle of a program that runs: every program the service
\* starts can be stopped, as long as the main process lives.
NothingOrphaned == "main died" \notin mishaps => ~orphans

\* The switch of an activity that was created while the proxy was off tells the truth
\* whenever it can be pressed, and its settings can be changed only while they are
\* not in use.
SwitchTellsTruth ==
    ui.live /\ ui.clean =>
        /\ ui.enabled => pm.status = (IF ui.checked THEN "RUNNING" ELSE "IDLE")
        /\ ui.settings => pm.status = "IDLE"

\* Such a switch is never disabled for good, however often activities come and go, until
\* something has gone wrong.
SwitchComesBack == (ui.live /\ ui.clean /\ ~ui.enabled) ~> (~ui.live \/ ui.enabled \/ mishaps # {})
=============================================================================
