---------------------------- MODULE PerAppProxy ----------------------------
(***************************************************************************)
(* What the VPN service makes of the per-app choice: ProxyControl, each    *)
(* step of it together with what it does to the settings, to the requests' *)
(* contents and to the apps whose packets go into the tunnel.              *)
(*                                                                         *)
(* The settings are read when the service is connected, in a later message *)
(* of the main looper than the one that started it; the list of apps goes  *)
(* away by a commit that is posted too.  The looper keeps their order.     *)
(*                                                                         *)
(* How rows are reused, and how the choice gets to the disk, is Settings;  *)
(* here a touch is one that the listener heeds, and a new main process may *)
(* find any choice on the disk.                                            *)
(***************************************************************************)
EXTENDS ProxyControl

CONSTANTS
    Apps,           \* the apps with the INTERNET permission, this one apart
    self            \* this app

ASSUME AppsAssumption == self \notin Apps

VARIABLES
    installed,
    alive,          \* the main process
    perAppProxyEnabled, proxyApps,  \* SettingsManager
    list,           \* EditPerAppProxyFragment, and the switch that shows it
    contents,       \* what the requests in toProxy carry, one for each
    tunnel,         \* whose packets the interface takes, see Scopes
    gone,           \* history: apps removed since the main process began
    meddled         \* history: the settings were changed since they were read, by an
                    \* activity that is not ui.clean

settings == <<perAppProxyEnabled, proxyApps>>
apps == <<installed, gone>>
perAppVars == <<vars, installed, alive, settings, list, contents, tunnel, gone, meddled>>

\* edit: the switch.  there: the list is shown, made for apps.  pending: a commit() is
\* posted, ahead: before bindService() was called for the operation under way.
List == [edit : BOOLEAN, there : BOOLEAN, apps : SUBSET Apps, pending : BOOLEAN, ahead : BOOLEAN]

NoList == [edit |-> FALSE, there |-> FALSE, apps |-> {}, pending |-> FALSE, ahead |-> FALSE]

\* What a START carries, and (history) the apps removed since its sender made its list.
Content == [perApp : BOOLEAN, apps : SUBSET Apps, removed : SUBSET Apps]

NoContent == [perApp |-> FALSE, apps |-> {}, removed |-> {}]

\* A builder has a list of allowed apps, or takes all but the disallowed.
Scopes == [only : BOOLEAN, apps : SUBSET (Apps \cup {self})]

-----------------------------------------------------------------------------
(* The settings *)

Filter_None(chosen) == chosen

\* An app that is not there any more is left out.
Filter(chosen) == chosen \cap installed

CreateSettingsManager(enabled, chosen) ==
    /\ ~alive /\ alive' = TRUE
    /\ perAppProxyEnabled' = enabled /\ proxyApps' = Filter(chosen)
    /\ gone' = {}
    /\ UNCHANGED <<vars, installed, list, contents, tunnel, meddled>>

\* The settings change under the hands of the activity on the screen.
Changed == meddled' = (meddled \/ ~ui.clean)

onPerAppProxySwitchChecked ==
    /\ ui.live /\ ui.settings
    /\ perAppProxyEnabled' = ~perAppProxyEnabled
    /\ Changed
    /\ UNCHANGED <<vars, apps, alive, proxyApps, list, contents, tunnel>>

onEditPerAppProxySwitchChecked ==
    /\ ui.live /\ ui.settings
    /\ list' = [list EXCEPT !.edit = ~@, !.pending = TRUE]
    /\ UNCHANGED <<vars, apps, alive, settings, contents, tunnel, meddled>>

\* All posted commits run.
CommitRuns ==
    /\ list.pending
    /\ list' = IF list.edit THEN [NoList EXCEPT !.edit = TRUE, !.there = TRUE, !.apps = installed]
               ELSE NoList
    /\ UNCHANGED <<vars, apps, alive, settings, contents, tunnel, meddled>>

\* The switch of a row is pressed: addProxyApp or removeProxyApp.
Touch(app) ==
    /\ list.there /\ app \in list.apps
    /\ proxyApps' = IF app \in proxyApps THEN proxyApps \ {app} ELSE proxyApps \cup {app}
    /\ Changed
    /\ UNCHANGED <<vars, apps, alive, perAppProxyEnabled, list, contents, tunnel>>

setEnabledFalse_KeepsList(l) == l

\* SettingsFragment.setEnabled(false) unchecks the switch, which posts a commit.
setEnabledFalse(l) == [l EXCEPT !.edit = FALSE, !.pending = @ \/ l.edit]

\* What was posted before bindService() runs before the connection is reported.
BeforeBind(l) == IF pm.status = "IDLE" /\ pm'.status = "STARTING"
                 THEN [l EXCEPT !.ahead = l.pending] ELSE l

-----------------------------------------------------------------------------
(* The steps of ProxyControl.  Those that send nothing and touch no list leave all as it is. *)

Same == UNCHANGED <<apps, alive, settings, contents, tunnel, meddled>>

StartProxy(ask) == startProxy(ask) /\ list' = BeforeBind(setEnabledFalse(list)) /\ Same

PrepareVpnServiceResult(granted) ==
    onPrepareVpnServiceResult(granted) /\ list' = BeforeBind(list) /\ Same

\* A STOP carries nothing.
Stopping == contents' = IF toProxy' = toProxy THEN contents ELSE Append(contents, NoContent)

StopProxy == stopProxy /\ Stopping /\ UNCHANGED <<apps, alive, settings, list, tunnel, meddled>>

\* The list goes with its activity.
ActivityEnds ==
    /\ onDestroy \/ Recreate
    /\ Stopping /\ list' = NoList
    /\ UNCHANGED <<apps, alive, settings, tunnel, meddled>>

ActivityBegins == onCreate /\ alive /\ UNCHANGED list /\ Same

\* The settings are read and sent.
ProxyServiceConnected ==
    /\ onProxyServiceConnected
    /\ ~(list.pending /\ list.ahead)
    /\ contents' = Append(contents, [perApp |-> perAppProxyEnabled, apps |-> proxyApps,
                                     removed |-> gone])
    /\ meddled' = FALSE
    /\ UNCHANGED <<apps, alive, settings, list, tunnel>>

\* addAllowedApplication() throws when there is no such app; "vpn" has to be in Faults.
Refused(c) == c.perApp /\ ~(c.apps \subseteq installed)

\* startVpnService().  With no list of either kind the builder takes every app.
Scope(c) == IF ~c.perApp THEN [only |-> FALSE, apps |-> {self}]
            ELSE [only |-> c.apps # {}, apps |-> c.apps]

StartProxyRequest(r) ==
    /\ onMessageStartProxyRequest(r)
    /\ Refused(Head(contents)) => r = "vpn"
    /\ contents' = Tail(contents)
    /\ tunnel' = IF r = "vpn" THEN tunnel ELSE Scope(Head(contents))
    /\ UNCHANGED <<apps, alive, settings, list, meddled>>

StopProxyRequest ==
    /\ onMessageStopProxyRequest
    /\ contents' = Tail(contents)
    /\ UNCHANGED <<apps, alive, settings, list, tunnel, meddled>>

ServiceProcessDies ==
    /\ ProxyDies
    /\ contents' = <<>>
    /\ UNCHANGED <<apps, alive, settings, list, tunnel, meddled>>

\* The service, what it was sent and the tunnel outlive it.
MainProcessDies ==
    /\ MainDies
    /\ alive /\ alive' = FALSE
    /\ perAppProxyEnabled' = FALSE /\ proxyApps' = {} /\ list' = NoList
    /\ UNCHANGED <<apps, contents, tunnel, meddled>>

Elsewhere ==
    /\ \/ Unpressed \/ Answers \/ onProxyServiceDisconnected \/ FdSent \/ FdFails
       \/ Tun2Socks \/ Exits \/ Revoked \/ ServiceDestroyed
    /\ UNCHANGED list /\ Same

-----------------------------------------------------------------------------
(* Android's apps *)

Install(app) ==
    /\ app \notin installed
    /\ installed' = installed \cup {app}
    /\ UNCHANGED <<vars, alive, settings, list, contents, tunnel, gone, meddled>>

\* The interface knows apps by the user id they had when it was established.
Uninstall(app) ==
    /\ app \in installed
    /\ installed' = installed \ {app} /\ gone' = gone \cup {app}
    /\ tunnel' = [tunnel EXCEPT !.apps = @ \ {app}]
    /\ contents' = [k \in DOMAIN contents |-> [contents[k] EXCEPT !.removed = @ \cup {app}]]
    /\ UNCHANGED <<vars, alive, settings, list, meddled>>

PerAppInit ==
    /\ Init
    /\ installed = Apps /\ alive = FALSE
    /\ perAppProxyEnabled = FALSE /\ proxyApps = {}
    /\ list = NoList /\ contents = <<>>
    /\ tunnel = [only |-> FALSE, apps |-> {}]
    /\ gone = {} /\ meddled = FALSE

PerAppNext ==
    \/ \E enabled \in BOOLEAN, chosen \in SUBSET Apps : CreateSettingsManager(enabled, chosen)
    \/ onPerAppProxySwitchChecked \/ onEditPerAppProxySwitchChecked \/ CommitRuns
    \/ \E app \in Apps : Touch(app) \/ Install(app) \/ Uninstall(app)
    \/ \E b \in BOOLEAN : StartProxy(b) \/ PrepareVpnServiceResult(b)
    \/ StopProxy \/ ActivityEnds \/ ActivityBegins
    \/ ProxyServiceConnected
    \/ \E r \in {"vpn", "tl", "tun", "ok"} : StartProxyRequest(r)
    \/ StopProxyRequest
    \/ ServiceProcessDies \/ MainProcessDies \/ Elsewhere

PerAppSpec == PerAppInit /\ [][PerAppNext]_perAppVars

-----------------------------------------------------------------------------
(* Properties *)

\* Every variable keeps its range, and each request has its contents.
PerAppTypeOK ==
    /\ installed \subseteq Apps /\ gone \subseteq Apps
    /\ {alive, perAppProxyEnabled, meddled} \subseteq BOOLEAN
    /\ proxyApps \subseteq Apps
    /\ list \in List /\ tunnel \in Scopes
    /\ contents \in Seq(Content) /\ Len(contents) = Len(toProxy)

InTunnel(app) == IF tunnel.only THEN app \in tunnel.apps ELSE app \notin tunnel.apps

Captures(app) == vpn # NoService /\ InTunnel(app)

Chosen(app) == IF perAppProxyEnabled THEN app \in proxyApps ELSE app # self

NothingChosen == perAppProxyEnabled /\ proxyApps = {}

\* A start that is going to be refused for apps that are not there asks for apps that were
\* removed after its sender had made its list: a process that is made anew heals it.
RefusedOnlyIfRemoved ==
    \A k \in DOMAIN contents :
        Refused(contents[k]) => contents[k].apps \ installed \subseteq contents[k].removed

\* While the app says RUNNING, the tunnel takes the apps that are chosen on the screen and no
\* others, whatever was set and touched before and while it was started, by whichever process
\* and however often, as long as the activities were clean and something was chosen.  An app
\* that was removed and installed again is not known to the interface any more.
CapturesTheChosen ==
    pm.status = "RUNNING" /\ AllNoticed /\ ~meddled /\ ~NothingChosen =>
        \A app \in (installed \ gone) \cup {self} : Captures(app) <=> Chosen(app)

\* The packets of this app, whose tlclient is the way out of the tunnel, never go into it.
NotInItsOwnTunnel == ~Captures(self)
=============================================================================
