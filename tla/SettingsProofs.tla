--------------------------- MODULE SettingsProofs ---------------------------
(***************************************************************************)
(* Proofs about Settings, for any sets of apps and rows.                   *)
(***************************************************************************)
EXTENDS Settings, TLAPS

\* A row that is shown is for an app.
Bound == \A r \in Rows : rows[r].shown => rows[r].app \in Apps

\* There is an activity only in a process.
Lives == ~alive => fragment = NoFragment /\ list = NoList /\ rows = FreshRows

\* The inductive invariant.
IInv == TypeOK /\ ChosenByTheUser /\ KeptForNextTime /\ Bound /\ Lives

-----------------------------------------------------------------------------
LEMMA StoredType ==
    ASSUME NEW e \in BOOLEAN, NEW apps \in SUBSET Apps
    PROVE  /\ Stored(e, apps) \in Settings
           /\ Stored(e, apps).enabled = e
           /\ Stored(e, apps).apps = apps
BY DEF Stored, Settings

LEMMA FreshType ==
    /\ FreshRows \in [Rows -> Row]
    /\ \A r \in Rows : ~FreshRows[r].shown
    /\ NoFragment \in Fragment /\ NoList \in List
BY DEF FreshRows, FreshRow, Row, NoFragment, Fragment, NoList, List

\* With new rows nothing is left to be said of the old ones.
LEMMA NewRows ==
    ASSUME rows' = FreshRows
    PROVE  /\ rows' \in [Rows -> Row] /\ Bound'
           /\ \A r, s \in Rows :
                 rows'[r].shown /\ rows'[s].shown /\ rows'[r].app = rows'[s].app => r = s
           /\ proxyApps' = wanted' => ChosenByTheUser'
BY FreshType DEF Bound, ChosenByTheUser

\* The preferences follow the set in memory.
LEMMA SetKeeps ==
    ASSUME NEW app \in Apps, NEW on \in BOOLEAN, SetProxyApp(app, on), TypeOK, KeptForNextTime,
           alive' = alive
    PROVE  /\ proxyApps' \subseteq Apps /\ preferences' \in Settings
           /\ proxyApps' = IF on THEN proxyApps \cup {app} ELSE proxyApps \ {app}
           /\ perAppProxyEnabled' = perAppProxyEnabled
           /\ KeptForNextTime'
<1>1. preferences.enabled \in BOOLEAN /\ preferences \in Settings
  BY DEF TypeOK, Settings
<1>2. /\ proxyApps' \subseteq Apps
      /\ proxyApps' = IF on THEN proxyApps \cup {app} ELSE proxyApps \ {app}
      /\ perAppProxyEnabled' = perAppProxyEnabled
  BY DEF SetProxyApp, TypeOK
<1>3. CASE proxyApps' = proxyApps
  <2>1. preferences' = preferences
    BY <1>3 DEF SetProxyApp
  <2>2. QED BY <1>1, <1>2, <1>3, <2>1 DEF KeptForNextTime
<1>4. CASE proxyApps' # proxyApps
  <2>1. preferences' = Stored(preferences.enabled, proxyApps')
    BY <1>4 DEF SetProxyApp
  <2>2. QED BY <1>1, <1>2, <2>1, StoredType DEF KeptForNextTime
<1>5. QED BY <1>3, <1>4

-----------------------------------------------------------------------------
LEMMA Initially == Init => IInv
<1> SUFFICES ASSUME Init PROVE IInv
  OBVIOUS
<1>1. Stored(FALSE, {}) \in Settings /\ Stored(FALSE, {}).enabled = FALSE /\ Stored(FALSE, {}).apps = {}
  BY StoredType
<1>2. TypeOK
  BY <1>1, FreshType DEF Init, TypeOK
<1>3. ChosenByTheUser /\ KeptForNextTime /\ Bound
  BY FreshType DEF Init, ChosenByTheUser, KeptForNextTime, Bound
<1>4. Lives
  BY DEF Init, Lives
<1>5. QED BY <1>2, <1>3, <1>4 DEF IInv

\* One step per action, and under it one per part of the invariant.
LEMMA Inductive == IInv /\ [Next]_vars => IInv'
<1> SUFFICES ASSUME IInv, [Next]_vars PROVE IInv'
  OBVIOUS
<1> USE DEF manager, editor
<1>t. TypeOK /\ Bound /\ Lives
  BY DEF IInv
<1>c. ChosenByTheUser /\ KeptForNextTime
  BY DEF IInv
<1>p. /\ disk \in Settings /\ preferences \in Settings
      /\ disk.enabled \in BOOLEAN /\ disk.apps \subseteq Apps
      /\ preferences.enabled \in BOOLEAN /\ preferences.apps \subseteq Apps
  BY <1>t DEF TypeOK, Settings
<1>f. /\ fragment \in Fragment /\ list \in List /\ rows \in [Rows -> Row]
      /\ fragment.edit \in BOOLEAN /\ fragment.pending \in BOOLEAN
  BY <1>t DEF TypeOK, Fragment
<1>m. Lives'
  <2>1. ~alive => ~fragment.live /\ ~fragment.pending /\ ~list.there /\ \A r \in Rows : ~rows[r].shown
    BY <1>t, FreshType DEF Lives, NoFragment, NoList
  <2>2. CASE CreateSettingsManager
    BY <2>2 DEF CreateSettingsManager, Lives
  <2>3. CASE ProcessDies
    BY <2>3 DEF ProcessDies, Lives
  <2>4. CASE WriteToDisk \/ onPerAppProxySwitchChecked \/ onCreateView \/ onDestroy \/ CommitRuns
    BY <1>t, <2>1, <2>4 DEF Lives, WriteToDisk, onPerAppProxySwitchChecked, onCreateView, onDestroy, CommitRuns
  <2>5. CASE onEditPerAppProxySwitchChecked \/ \E enabled \in BOOLEAN : setEnabled(enabled)
    BY <1>t, <2>1, <2>5 DEF Lives, onEditPerAppProxySwitchChecked, setEnabled
  <2>6. CASE \E app \in Apps : Install(app) \/ Uninstall(app)
    BY <1>t, <2>6 DEF Lives, Install, Uninstall
  <2>7. CASE \E row \in Rows : \/ Recycled(row)
                              \/ \E pressed \in BOOLEAN : Toggle(row, pressed)
                              \/ \E app \in Apps : onBindViewHolder(row, app)
    <3>1. alive /\ UNCHANGED alive
      BY <2>1, <2>7 DEF Recycled, Toggle, onBindViewHolder
    <3>2. QED BY <3>1 DEF Lives
  <2>8. CASE UNCHANGED vars
    BY <1>t, <2>8 DEF Lives, vars
  <2>9. QED
    BY <2>2, <2>3, <2>4, <2>5, <2>6, <2>7, <2>8 DEF Next
<1>1. CASE CreateSettingsManager
  <2>1. TypeOK'
    BY <1>t, <1>p, <1>1 DEF TypeOK, CreateSettingsManager, Filter
  <2>2. ChosenByTheUser' /\ Bound'
    <3>1. UNCHANGED rows /\ ~alive /\ alive' /\ proxyApps' = wanted'
      BY <1>1 DEF CreateSettingsManager
    <3>2. rows' = FreshRows
      BY <1>t, <3>1 DEF Lives
    <3>3. QED BY <3>1, <3>2, NewRows
  <2>3. KeptForNextTime'
    BY <1>1 DEF KeptForNextTime, CreateSettingsManager, Filter
  <2>4. QED BY <1>m, <2>1, <2>2, <2>3 DEF IInv
<1>2. CASE ProcessDies
  <2>1. TypeOK'
    BY <1>t, <1>2, FreshType, NewRows DEF TypeOK, ProcessDies
  <2>2. ChosenByTheUser' /\ Bound'
    BY <1>2, NewRows DEF ProcessDies
  <2>3. KeptForNextTime'
    BY <1>2 DEF KeptForNextTime, ProcessDies
  <2>4. QED BY <1>m, <2>1, <2>2, <2>3 DEF IInv
<1>3. CASE WriteToDisk
  <2>1. TypeOK'
    BY <1>t, <1>3 DEF TypeOK, WriteToDisk
  <2>2. ChosenByTheUser' /\ Bound' /\ KeptForNextTime'
    BY <1>t, <1>3, <1>c DEF ChosenByTheUser, Bound, KeptForNextTime, WriteToDisk
  <2>3. QED BY <1>m, <2>1, <2>2 DEF IInv
<1>4. CASE onPerAppProxySwitchChecked
  <2>1. /\ Stored(~perAppProxyEnabled, preferences.apps) \in Settings
        /\ Stored(~perAppProxyEnabled, preferences.apps).enabled = ~perAppProxyEnabled
        /\ Stored(~perAppProxyEnabled, preferences.apps).apps = preferences.apps
    BY <1>p, StoredType
  <2>2. TypeOK'
    BY <1>t, <1>4, <2>1 DEF TypeOK, onPerAppProxySwitchChecked
  <2>3. ChosenByTheUser' /\ Bound'
    BY <1>t, <1>4, <1>c DEF ChosenByTheUser, Bound, onPerAppProxySwitchChecked
  <2>4. KeptForNextTime'
    BY <1>4, <2>1, <1>c DEF KeptForNextTime, onPerAppProxySwitchChecked
  <2>5. QED BY <1>m, <2>2, <2>3, <2>4 DEF IInv
<1>5. CASE onCreateView \/ onEditPerAppProxySwitchChecked \/ \E enabled \in BOOLEAN : setEnabled(enabled)
  <2>1. /\ UNCHANGED <<installed, alive, manager, disk, list, rows, wanted>>
        /\ fragment' \in Fragment
    BY <1>5, <1>f DEF Fragment, NoFragment, onCreateView, onEditPerAppProxySwitchChecked, setEnabled
  <2>2. TypeOK'
    BY <1>t, <2>1 DEF TypeOK
  <2>3. ChosenByTheUser' /\ Bound' /\ KeptForNextTime'
    BY <1>t, <1>c, <2>1 DEF ChosenByTheUser, Bound, KeptForNextTime
  <2>4. QED BY <1>m, <2>2, <2>3 DEF IInv
<1>6. CASE onDestroy \/ CommitRuns
  <2>1. /\ UNCHANGED <<installed, alive, manager, disk, wanted>>
        /\ rows' = FreshRows
    BY <1>6 DEF onDestroy, CommitRuns
  <2>2. fragment' \in Fragment /\ list' \in List
    <3>1. [there |-> TRUE, apps |-> installed] \in List
      BY <1>t DEF TypeOK, List
    <3>2. [fragment EXCEPT !.pending = FALSE] \in Fragment
      BY <1>f DEF Fragment
    <3>3. QED BY <1>6, <3>1, <3>2, FreshType DEF onDestroy, CommitRuns
  <2>3. TypeOK'
    BY <1>t, <2>1, <2>2, NewRows DEF TypeOK
  <2>4. ChosenByTheUser' /\ Bound'
    BY <1>c, <2>1, NewRows DEF ChosenByTheUser
  <2>5. KeptForNextTime'
    BY <1>c, <2>1 DEF KeptForNextTime
  <2>6. QED BY <1>m, <2>3, <2>4, <2>5 DEF IInv
<1>7. CASE \E app \in Apps : Install(app) \/ Uninstall(app)
  <2>1. TypeOK'
    BY <1>t, <1>7 DEF TypeOK, Install, Uninstall
  <2>2. ChosenByTheUser' /\ Bound' /\ KeptForNextTime'
    BY <1>t, <1>7, <1>c DEF ChosenByTheUser, Bound, KeptForNextTime, Install, Uninstall
  <2>3. QED BY <1>m, <2>1, <2>2 DEF IInv
<1>8. ASSUME NEW row \in Rows, Recycled(row) PROVE IInv'
  <2>1. /\ UNCHANGED <<installed, alive, manager, disk, fragment, list, wanted>>
        /\ rows' = [rows EXCEPT ![row].shown = FALSE]
    BY <1>8 DEF Recycled
  <2>2. /\ rows' \in [Rows -> Row]
        /\ ~rows'[row].shown
        /\ \A r \in Rows \ {row} : rows'[r] = rows[r]
    <3>1. [rows[row] EXCEPT !.shown = FALSE] \in Row
      BY <1>f DEF Row
    <3>2. ~[rows[row] EXCEPT !.shown = FALSE].shown
      BY <1>f DEF Row
    <3>3. QED BY <1>f, <2>1, <3>1, <3>2
  <2>3. TypeOK'
    <3>1. \A r, s \in Rows : rows'[r].shown /\ rows'[s].shown /\ rows'[r].app = rows'[s].app => r = s
      BY <1>t, <2>2 DEF TypeOK
    <3>2. QED BY <1>t, <2>1, <2>2, <3>1 DEF TypeOK
  <2>4. ChosenByTheUser' /\ Bound'
    BY <1>t, <1>c, <2>1, <2>2 DEF ChosenByTheUser, Bound
  <2>5. KeptForNextTime'
    BY <1>c, <2>1 DEF KeptForNextTime
  <2>6. QED BY <1>m, <2>3, <2>4, <2>5 DEF IInv
<1>9. ASSUME NEW row \in Rows, NEW pressed \in BOOLEAN, Toggle(row, pressed) PROVE IInv'
  <2> DEFINE app == rows[row].app
             checked == ~rows[row].checked
  <2>1. /\ app \in Apps /\ checked \in BOOLEAN /\ rows[row].checked \in BOOLEAN
        /\ rows[row].shown /\ rows[row] \in Row
    BY <1>t, <1>f, <1>9 DEF Bound, Row, Toggle
  <2>2. /\ rows' = [rows EXCEPT ![row].checked = checked, ![row].slipped = ~pressed]
        /\ UNCHANGED <<installed, alive, disk, fragment, list>>
    BY <1>9 DEF Toggle
  <2>3. /\ rows' \in [Rows -> Row]
        /\ rows'[row].app = app /\ rows'[row].checked = checked /\ rows'[row].slipped = ~pressed
        /\ rows'[row].shown
        /\ \A r \in Rows \ {row} : rows'[r] = rows[r]
    <3>1. rows'[row] = [rows[row] EXCEPT !.checked = checked, !.slipped = ~pressed]
      BY <1>f, <2>2
    <3>2. rows'[row] \in Row /\ rows'[row].app = app /\ rows'[row].shown
      BY <2>1, <3>1 DEF Row
    <3>3. rows'[row].checked = checked /\ rows'[row].slipped = ~pressed
      BY <2>1, <3>1 DEF Row
    <3>4. \A r \in Rows \ {row} : rows'[r] = rows[r]
      BY <1>f, <2>2
    <3>5. rows' \in [Rows -> Row]
      BY <1>f, <2>2, <3>1, <3>2
    <3>6. QED BY <3>2, <3>3, <3>4, <3>5
  <2>4. \A r \in Rows \ {row} : rows[r].shown => rows[r].app # app
    BY <1>t, <2>1 DEF TypeOK
  <2>5. /\ \A r, s \in Rows : rows'[r].shown /\ rows'[s].shown /\ rows'[r].app = rows'[s].app => r = s
        /\ Bound'
    BY <1>t, <2>1, <2>3, <2>4 DEF TypeOK, Bound
  <2>6. CASE ~pressed
    <3>1. UNCHANGED <<manager, wanted>>
      BY <1>9, <2>6 DEF Toggle, CheckedChanged, ListenerHeeds
    <3>2. TypeOK'
      BY <1>t, <2>2, <2>3, <2>5, <3>1 DEF TypeOK
    <3>3. ChosenByTheUser'
      BY <1>c, <2>3, <2>6, <3>1 DEF ChosenByTheUser
    <3>4. KeptForNextTime'
      BY <1>c, <2>2, <3>1 DEF KeptForNextTime
    <3>5. QED BY <1>m, <2>5, <3>2, <3>3, <3>4 DEF IInv
  <2>7. CASE pressed
    <3>1. SetProxyApp(app, checked) /\ wanted' = IF checked THEN wanted \cup {app} ELSE wanted \ {app}
      BY <1>9, <2>1, <2>7, SettingsAssumption DEF Toggle, CheckedChanged, ListenerHeeds
    <3>2. /\ proxyApps' \subseteq Apps /\ preferences' \in Settings
          /\ proxyApps' = IF checked THEN proxyApps \cup {app} ELSE proxyApps \ {app}
          /\ perAppProxyEnabled' = perAppProxyEnabled
          /\ KeptForNextTime'
      BY <1>t, <1>c, <2>1, <2>2, <3>1, SetKeeps
    <3>3. proxyApps' = wanted'
      BY <1>c, <3>1, <3>2 DEF ChosenByTheUser
    <3>4. TypeOK'
      BY <1>t, <2>2, <2>3, <2>5, <3>2, <3>3 DEF TypeOK
    <3>5. ASSUME NEW r \in Rows, rows'[r].shown
          PROVE  rows'[r].slipped \/ rows'[r].checked = (rows'[r].app \in proxyApps')
      <4>1. CASE r = row
        BY <2>3, <3>2, <4>1
      <4>2. CASE r # row
        <5>1. rows[r].app # app /\ rows'[r] = rows[r]
          BY <2>3, <2>4, <3>5, <4>2
        <5>2. rows[r].slipped \/ rows[r].checked = (rows[r].app \in proxyApps)
          BY <1>c, <3>5, <5>1 DEF ChosenByTheUser
        <5>3. QED BY <3>2, <5>1, <5>2
      <4>3. QED BY <4>1, <4>2
    <3>6. ChosenByTheUser'
      BY <3>3, <3>5 DEF ChosenByTheUser
    <3>7. QED BY <1>m, <2>5, <3>2, <3>4, <3>6 DEF IInv
  <2>8. QED BY <2>6, <2>7
<1>10. ASSUME NEW row \in Rows, NEW app \in Apps, onBindViewHolder(row, app) PROVE IInv'
  <2> DEFINE checked == app \in proxyApps
             bound == [app |-> app, checked |-> checked, shown |-> TRUE, slipped |-> FALSE]
  <2>1. /\ rows' = [rows EXCEPT ![row] = bound]
        /\ UNCHANGED <<installed, alive, manager, disk, fragment, list, wanted>>
        /\ \A r \in Rows : rows[r].shown => rows[r].app # app
    BY <1>10 DEF onBindViewHolder, CheckedChanged, ListenerHeeds
  <2>2. checked \in BOOLEAN
    OBVIOUS
  <2>3. bound \in Row
    BY <2>2 DEF Row
  <2>4. /\ rows' \in [Rows -> Row]
        /\ rows'[row] = bound
        /\ \A r \in Rows \ {row} : rows'[r] = rows[r]
    BY <1>f, <2>1, <2>3
  <2>5. bound.app = app /\ bound.checked = checked
    OBVIOUS
  <2> HIDE DEF bound
  <2>6. TypeOK' /\ Bound'
    <3>1. \A r, s \in Rows : rows'[r].shown /\ rows'[s].shown /\ rows'[r].app = rows'[s].app => r = s
      BY <1>t, <2>1, <2>4, <2>5 DEF TypeOK
    <3>2. Bound'
      BY <1>t, <2>4, <2>5 DEF Bound
    <3>3. QED BY <1>t, <2>1, <2>4, <3>1, <3>2 DEF TypeOK
  <2>7. ChosenByTheUser'
    <3>1. ASSUME NEW r \in Rows, rows'[r].shown
          PROVE  rows'[r].slipped \/ rows'[r].checked = (rows'[r].app \in proxyApps')
      <4>1. CASE r = row
        BY <2>1, <2>4, <2>5, <4>1
      <4>2. CASE r # row
        BY <1>c, <2>1, <2>4, <3>1, <4>2 DEF ChosenByTheUser
      <4>3. QED BY <4>1, <4>2
    <3>2. QED BY <1>c, <2>1, <3>1 DEF ChosenByTheUser
  <2>8. KeptForNextTime'
    BY <1>c, <2>1 DEF KeptForNextTime
  <2>9. QED BY <1>m, <2>6, <2>7, <2>8 DEF IInv
<1>11. CASE UNCHANGED vars
  BY <1>t, <1>c, <1>m, <1>11 DEF IInv, TypeOK, ChosenByTheUser, KeptForNextTime, Bound, Lives, vars
<1>12. QED
  BY <1>1, <1>2, <1>3, <1>4, <1>5, <1>6, <1>7, <1>8, <1>9, <1>10, <1>11 DEF Next

-----------------------------------------------------------------------------
LEMMA Invariant == Spec => []IInv
BY Initially, Inductive, PTL DEF Spec

\* The choice is the user's, whatever rows are reused, lists made and removed, switches changed
\* without a press, apps removed and processes killed: binding a view never changes it, and
\* the preferences have what memory has (EditPerAppProxyFragment.onBindViewHolder,
\* SettingsManager).
THEOREM ChoiceIsAlwaysKept == Spec => []ChoiceIsKept
<1>1. IInv => ChoiceIsKept
  BY DEF IInv, ChoiceIsKept
<1>2. QED BY <1>1, Invariant, PTL
=============================================================================
