------------------------------ MODULE Settings ------------------------------
(***************************************************************************)
(* Which apps go through the proxy: the settings in the memory of the main *)
(* process and on disk, and the recycled rows of the list that edits them. *)
(*                                                                         *)
(* Apps come and go, activities are destroyed and the main process dies at *)
(* any time.  When the proxy is turned on and off, the presenter disables  *)
(* and enables the settings; what is known of that here is only that it    *)
(* may do so whenever there is an activity.                                *)
(***************************************************************************)
EXTENDS FiniteSets

CONSTANTS
    Apps,           \* the apps with the INTERNET permission, this one apart
    Rows,           \* the views of a list
    NoApp

ASSUME SettingsAssumption == NoApp \notin Apps

VARIABLES
    installed,
    alive,          \* the main process
    perAppProxyEnabled, proxyApps,  \* SettingsManager
    preferences,    \* SharedPreferences: what was put there, in memory
    disk,           \*   and what has been written
    fragment,       \* SettingsFragment
    list,           \* EditPerAppProxyFragment: the apps it was made for
    rows,           \* its views
    wanted          \* history: the apps whose switch was pressed on and not off

manager == <<perAppProxyEnabled, proxyApps, preferences>>
editor == <<fragment, list, rows>>
vars == <<installed, alive, manager, disk, editor, wanted>>

Stored(enabled, apps) == [enabled |-> enabled, apps |-> apps]

\* edit: the switch that shows and hides the list.
\* pending: a commit() is posted, which makes the list what the switch says by then.
Fragment == [live : BOOLEAN, enabled : BOOLEAN, edit : BOOLEAN, pending : BOOLEAN]

NoFragment == [live |-> FALSE, enabled |-> FALSE, edit |-> FALSE, pending |-> FALSE]

List == [there : BOOLEAN, apps : SUBSET Apps]

NoList == [there |-> FALSE, apps |-> {}]

\* A view that waits to be reused (not shown) keeps its listener for the app it showed last.
\* slipped (history): its switch has changed without a press, which the listener ignores.
Row == [app : Apps \cup {NoApp}, checked : BOOLEAN, shown : BOOLEAN, slipped : BOOLEAN]

FreshRow == [app |-> NoApp, checked |-> FALSE, shown |-> FALSE, slipped |-> FALSE]

FreshRows == [r \in Rows |-> FreshRow]

-----------------------------------------------------------------------------
(* The main process *)

\* What is not there any more is left out.
Filter(apps) == apps \cap installed

CreateSettingsManager ==
    /\ ~alive
    /\ alive' = TRUE
    /\ preferences' = disk
    /\ perAppProxyEnabled' = disk.enabled /\ proxyApps' = Filter(disk.apps)
    /\ wanted' = proxyApps'
    /\ UNCHANGED <<installed, disk, editor>>

\* With it goes what has not been written, and the activity.
ProcessDies ==
    /\ alive
    /\ alive' = FALSE
    /\ proxyApps' = {} /\ perAppProxyEnabled' = FALSE /\ preferences' = disk
    /\ fragment' = NoFragment /\ list' = NoList /\ rows' = FreshRows
    /\ wanted' = {}
    /\ UNCHANGED <<installed, disk>>

\* apply() writes later.
WriteToDisk ==
    /\ alive /\ disk # preferences
    /\ disk' = preferences
    /\ UNCHANGED <<installed, alive, manager, editor, wanted>>

\* addProxyApp and removeProxyApp
SetProxyApp(app, isChecked) ==
    /\ proxyApps' = IF isChecked THEN proxyApps \cup {app} ELSE proxyApps \ {app}
    /\ preferences' = IF proxyApps' = proxyApps THEN preferences
                      ELSE Stored(preferences.enabled, proxyApps')
    /\ UNCHANGED perAppProxyEnabled

-----------------------------------------------------------------------------
(* SettingsFragment *)

\* The view of a new activity's fragment, whatever the proxy does.
onCreateView ==
    /\ alive /\ ~fragment.live
    /\ fragment' = [NoFragment EXCEPT !.live = TRUE, !.enabled = TRUE]
    /\ UNCHANGED <<installed, alive, manager, disk, list, rows, wanted>>

\* The activity is destroyed, and its fragments with it.
onDestroy ==
    /\ fragment.live
    /\ fragment' = NoFragment /\ list' = NoList /\ rows' = FreshRows
    /\ UNCHANGED <<installed, alive, manager, disk, wanted>>

\* To disable the settings hides the list, later.
setEnabled(enabled) ==
    /\ fragment.live
    /\ fragment' = IF enabled THEN [fragment EXCEPT !.enabled = TRUE]
                   ELSE [fragment EXCEPT !.enabled = FALSE, !.edit = FALSE,
                                         !.pending = @ \/ fragment.edit]
    /\ UNCHANGED <<installed, alive, manager, disk, list, rows, wanted>>

onPerAppProxySwitchChecked ==
    /\ fragment.live /\ fragment.enabled
    /\ perAppProxyEnabled' = ~perAppProxyEnabled
    /\ preferences' = Stored(~perAppProxyEnabled, preferences.apps)
    /\ UNCHANGED <<proxyApps, installed, alive, disk, editor, wanted>>

onEditPerAppProxySwitchChecked ==
    /\ fragment.live /\ fragment.enabled
    /\ fragment' = [fragment EXCEPT !.edit = ~@, !.pending = TRUE]
    /\ UNCHANGED <<installed, alive, manager, disk, list, rows, wanted>>

\* The posted commits run, all of them: the list that was there is removed, and one is
\* made anew if the switch is on.
CommitRuns ==
    /\ fragment.pending
    /\ fragment' = [fragment EXCEPT !.pending = FALSE]
    /\ list' = IF fragment.edit THEN [there |-> TRUE, apps |-> installed] ELSE NoList
    /\ rows' = FreshRows
    /\ UNCHANGED <<installed, alive, manager, disk, wanted>>

-----------------------------------------------------------------------------
(* The list of apps.  A row that is reused still has the listener of the app it showed *)
(* when its switch is set for the next one. *)

ListenerHeeds_Always(pressed) == TRUE

ListenerHeeds(pressed) == pressed

\* The switch of a row changes, by a finger or otherwise.
CheckedChanged(row, checked, pressed) ==
    IF rows[row].app # NoApp /\ checked # rows[row].checked /\ ListenerHeeds(pressed)
    THEN SetProxyApp(rows[row].app, checked)
    ELSE UNCHANGED manager

\* A row scrolls out of sight and waits to be reused.
Recycled(row) ==
    /\ rows[row].shown
    /\ rows' = [rows EXCEPT ![row].shown = FALSE]
    /\ UNCHANGED <<installed, alive, manager, disk, fragment, list, wanted>>

onBindViewHolder(row, app) ==
    LET checked == app \in proxyApps IN
    /\ list.there /\ app \in list.apps
    /\ ~rows[row].shown
    /\ \A r \in Rows : rows[r].shown => rows[r].app # app
    /\ CheckedChanged(row, checked, FALSE)
    /\ rows' = [rows EXCEPT ![row] = [app |-> app, checked |-> checked, shown |-> TRUE,
                                      slipped |-> FALSE]]
    /\ UNCHANGED <<installed, alive, disk, fragment, list, wanted>>

\* The user changes the switch of a row: with a finger, or without (keyboard,
\* accessibility service).
Toggle(row, pressed) ==
    LET app == rows[row].app
        checked == ~rows[row].checked
    IN
    /\ rows[row].shown
    /\ CheckedChanged(row, checked, pressed)
    /\ rows' = [rows EXCEPT ![row].checked = checked, ![row].slipped = ~pressed]
    /\ wanted' = IF ~pressed THEN wanted
                 ELSE IF checked THEN wanted \cup {app} ELSE wanted \ {app}
    /\ UNCHANGED <<installed, alive, disk, fragment, list>>

-----------------------------------------------------------------------------
(* Android *)

Install(app) ==
    /\ app \notin installed
    /\ installed' = installed \cup {app}
    /\ UNCHANGED <<alive, manager, disk, editor, wanted>>

Uninstall(app) ==
    /\ app \in installed
    /\ installed' = installed \ {app}
    /\ UNCHANGED <<alive, manager, disk, editor, wanted>>

Init ==
    /\ installed = Apps /\ alive = FALSE
    /\ perAppProxyEnabled = FALSE /\ proxyApps = {}
    /\ preferences = Stored(FALSE, {}) /\ disk = Stored(FALSE, {})
    /\ fragment = NoFragment /\ list = NoList /\ rows = FreshRows
    /\ wanted = {}

Next ==
    \/ CreateSettingsManager \/ ProcessDies \/ WriteToDisk
    \/ onCreateView \/ onDestroy \/ CommitRuns
    \/ \E enabled \in BOOLEAN : setEnabled(enabled)
    \/ onPerAppProxySwitchChecked \/ onEditPerAppProxySwitchChecked
    \/ \E row \in Rows : \/ Recycled(row)
                         \/ \E pressed \in BOOLEAN : Toggle(row, pressed)
                         \/ \E app \in Apps : onBindViewHolder(row, app)
    \/ \E app \in Apps : Install(app) \/ Uninstall(app)

Spec == Init /\ [][Next]_vars

-----------------------------------------------------------------------------
(* Properties *)

Settings == [enabled : BOOLEAN, apps : SUBSET Apps]

\* Every variable keeps its range, and no two rows that are shown are for the same app.
TypeOK ==
    /\ installed \subseteq Apps /\ alive \in BOOLEAN
    /\ proxyApps \subseteq Apps /\ perAppProxyEnabled \in BOOLEAN
    /\ {preferences, disk} \subseteq Settings
    /\ fragment \in Fragment /\ list \in List
    /\ rows \in [Rows -> Row]
    /\ \A r, s \in Rows : rows[r].shown /\ rows[s].shown /\ rows[r].app = rows[s].app => r = s
    /\ wanted \subseteq Apps

\* The apps that are chosen are those the user has pressed on and not off: a row that is
\* reused for another app never switches the one it showed before, nor does a list that is
\* about to go.  Each row that is shown tells the truth about its app, unless its switch
\* was changed without a press.
ChosenByTheUser ==
    /\ proxyApps = wanted
    /\ \A r \in Rows : rows[r].shown =>
           rows[r].slipped \/ rows[r].checked = (rows[r].app \in proxyApps)

\* What was put in the preferences is what is in memory, but for apps that had been removed
\* before the process began; so a restart brings back the choices that had been written.
KeptForNextTime ==
    alive => /\ preferences.enabled = perAppProxyEnabled
             /\ proxyApps \subseteq preferences.apps

\* The choice is the user's, now and the next time.
ChoiceIsKept == TypeOK /\ ChosenByTheUser /\ KeptForNextTime
=============================================================================
