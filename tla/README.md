# NWAM Manager: a TLA+ model of the nwamd user interface

NWAM Manager is the desktop side of Solaris' network auto-magic: `nwam-manager`
(`daemon/`), a status icon with a menu and notifications, and
`nwam-manager-properties` (`capplet/`), the preferences.  Both stand on one
object library (`common/`) that mirrors what the system daemon `nwamd` keeps:
network configuration profiles (NCPs) made of connections (NCUs), locations
(ENVs), external network modifiers (ENMs) and known WLANs.  `nwamd` and its
client library `libnwam` are not part of the repository; they appear here as
external actions, modelled from how the code uses them.

What makes this program hard is that it is a *mirror* that can be edited.  A
thread hears of changes over a connection that breaks and posts them to a main
loop, which applies them later, while reloads read a state newer than the events
still queued.  States are cached, counts are kept beside the lists they count,
and an NCU is two objects of nwamd with an event each.  On top of the mirror,
menus and tooltips reuse their items, and dialogs keep what the user typed half
in widgets and half in objects that events may read again underneath them.

Contents: inventory; modules, one by one; runs, bounds and fairness; what is
proved; where the code departs from what it says; what is not modelled; plan.

## Inventory

| Part | State | Operations | Hard about it |
|---|---|---|---|
| event thread, `nwam_events_thread` (nwamui_daemon.c 2440-2630) | `connected_to_nwamd` (local), `nwam_init_done` | connect, wait, retry once, reconnect every 5 s, post events to the main loop | runs beside the main loop; a second wait that succeeds loses its event; INIT and SHUTDOWN are dispatched twice |
| daemon object, `NwamuiDaemon` (nwamui_daemon.c) | four managed lists, `active_env`, `active_ncp`, `status`, `online_enm_num`, `connected_to_nwamd` | `nwamd_event_handler`, reload, add/remove, `update_status` | events older than the reload; references to objects that left their list; derived values stored |
| object base, `NwamuiObject` (nwamui_object.c) | cached `nwam_state` | get/set state, virtual dispatch | a state is read once, then only follows events |
| NCP and its NCUs (nwamui_ncp.c, nwamui_ncu.c) | `ncu_list`, `wireless_link_num`, `priority_group`, handles and states of NCUs | reload by walk, add, remove, all-online rule, prompts | an NCU is two handles; the count is kept in two ways |
| wireless networks (nwamui_ncu.c, nwamui_wifi_net.c) | a hash per NCU, life states NEW/MODIFIED/DEAD, `wifi_info` | scan report, need choice, need key, connection report | a network inserted outside a scan is never announced |
| editing and commit (nwamui_ncu.c, nwamui_env.c, nwamui_enm.c, nwamui_ncp.c, nwamui_known_wlan.c, nwamui_cond.c, nwamui_ip.c) | in-memory property lists, modified flags | set, validate, commit, destroy, clone, rename, reload | refresh events while there are edits; a commit of several handles that fails half way |
| status icon and menu (daemon/status_icon.c, nwam-menu.c, nwam-*-item.c, nwam-tooltip-widget.c) | sections of items and their caches, lines of the tooltip, prompts | reacts to the daemon object's signals | items are put away and given other objects; signals that other paths suppress |
| notification queue (daemon/notify.c) | message queue, one timer, when the head was shown | show, adjust timer, closed, timeout change | timers, closed signals and a hidden icon interleave |
| preferences window (capplet/nwam_pref_dialog.c, nwam_profile_panel.c, nwam_conn_stat_panel.c, nwam_conn_conf_ip_panel.c) | a combo of pages, a page each for status, profiles and a connection | OK, Refresh, Cancel, select | pages are applied when they are left; the lists change meanwhile |
| dialogs (capplet/nwam_profile_dialog.c, nwam_location_dialog.c, nwam_env_pref_dialog.c, nwam_vpn_pref_dialog.c, nwam_wireless_dialog.c, nwam_wireless_chooser.c, nwam_rules_dialog.c, nwam_condition_vbox.c) | rows, widgets, the object being edited | add, edit, rename, remove, OK, Cancel | one dialog serves many objects; commits of several objects that fail half way |
| user preferences, utilities, main (nwamui_prof.c, libnwamui.c, main.c) | GConf values | get, set, notify | - |

Interaction: `nwamd` -> (libnwam event queue) -> event thread -> (GLib idle
sources) -> `nwamd_event_handler` -> managed lists, NCPs, NCUs -> (GObject
signals) -> status icon, menu, notifications, dialogs; user actions go back
through commit and activation calls that make `nwamd` emit events again.

What each part has to get right: the mirror is fresh once everything is handled
(event thread, daemon object, NCP, lists of the dialogs); no derived value is
older than what it is derived from (status, counts); a broken connection is
noticed and mended; a prompt is only shown for something that needs it; a
notification that was queued is shown, in order, one at a time; what a view says
is so; user edits are not lost to events, and what is saved is what was shown.

## Modules

Main loop callbacks run to their end one after the other, so each handler is one
action with everything it calls; only the event thread runs beside them.
Where two parts meet, the module of one abstracts the other to what it may do
and says so in its header.

| Module | Models | Checked by | Proofs |
|---|---|---|---|
| `NwamEventThread` | event thread, subscription, idle queue, handlers of connection events | `eventthread` | `NwamuiDaemonProofs` |
| `NwamuiDaemon` | managed lists, cached states, active objects, status | `daemon` | `NwamuiDaemonProofs` |
| `NwamuiNcp` | the active NCP: list, counts, all-online rule, prompts | `ncp` | `NwamuiNcpProofs` |
| `WifiNetworks` | the networks of the NCUs and their section of the menu | `wifi` | `ObjectViewsProofs` |
| `NotifyQueue`, `NotifyPromise` | the notification queue; what the user is promised of it | `tray` | `ManagerProofs` |
| `StatusIcon` | the NCU and location sections of the menu, start and errors | `tray` | `ManagerProofs` |
| `WirelessMenu` | the wireless section as a sequence of items, kept and used again | `tray`, `tray_ticks` | - |
| `EnvPrefDialog` | the properties of a location | `env_properties` | `LocationDialogProofs` |
| `LocationDialog` | the dialog of locations, the location objects, activation | `locations` | `LocationDialogProofs` |
| `VpnDialog` | the dialog of external network modifiers and their objects | `vpn` | `VpnDialogProofs` |
| `ProfileDialog` | the tree of the connections of a profile, by priority group | `profile` | - |
| `WirelessDialog` | joining a network, its key, favourites | `wireless` | `ManagerProofs` |
| `IpPanel`, `ProfilePanel` | the preferences window: the pages for addresses and for profiles | `panels` | `PanelsProofs` |
| `ShowCombo` | the window itself: its combo, OK and Refresh | `panels` | - |
| `StatusPage` | its page of connections in use | `panels` | `ObjectViewsProofs`, `PanelsProofs` |
| `RulesDialog` | the conditions of a profile: read, shown, edited, written back | `panels` | - |
| `NcuViews`, `ModeItems`, `WirelessChooser` | tooltip and NCU items; ENM and location items and the switch between manual and automatic; the dialog listing networks | `panels` | `ObjectViewsProofs`, `PanelsProofs` |
| `ObjectViews`, `Panels` | the views, and with them the pages, side by side | `panels` | `ObjectViewsProofs`, `PanelsProofs` |
| `EditStore` | abstract: what an editing dialog promises | refined by `LocationDialog` and `VpnDialog` | refinement in `LocationDialogProofs` and `VpnDialogProofs` |
| `PendingEvents` | lemmas about a queue of events: what the last one pending of a class says | - | used by five proof modules |

An `MC...` module gives a run what a `.cfg` cannot write.  `MCTray` and `Panels`
put parts side by side that do not interact, each an instance of its own module:
the variable `part` chooses at the start which of them moves, so that one run
checks them one at a time (`icon`, `queue`, `menu`; `combo`, `ip`, `profiles`, `rules`,
`views`, `enms`, `envs`, `status`, `chooser`) without multiplying their states.
`MCPanels` has the constants of `Panels`.

A definition whose comment starts with "Mutant of" is a plausible defect of the
definition that follows it, kept to see that a property notices it; no
specification refers to one.

### The mirror

**NwamEventThread.**  Three parties.  `nwamd` (external) changes its one object,
here a version number, shuts down, crashes and starts.  The thread has a `pc` for
the places where it gives control away: waiting (`WaitReturns`, `WaitFails`), holding
an event it has not posted (`PostRaw`), the single retry (`RetryReturns`,
`RetryFails`) and the five second polls (`Reconnect`, where nothing but the
successful poll is a step).  The main loop takes the oldest idle source:
`HandleInfoActive` reloads, `HandleInfoInactive` and an ERROR clear `connected_to_nwamd`,
`HandleRedispatch` appends INFO_ACTIVE/INFO_INACTIVE behind everything queued, as
the code does by a second `g_idle_add_full`, and `HandleObjectAction` applies the
change an event carries, connected or not.  Properties: `FreshWhenQuiet` (nothing
left to handle and the thread connected: the view is nwamd's), `StaleIsOvertaken`
(an event about to be applied out of date is followed by one that repairs it), and
under fairness `BreakIsNoticed` and `Resubscribes`.

**NwamuiDaemon.**  An object is a name with a state `online` or `offline`; the NCUs
of an NCP are one.  Events are queued in order; between losing and regaining a
subscription nwamd's changes go unheard, which the history variable `unheard`
remembers.  The walks of a reload may fail half way (`partial`), removal refuses
system objects, `active_env` and `active_ncp` may refer to objects off their list
(`goneEnv`, `goneNcp` hold the state such an object still caches), and
`update_status` and `update_online_enm_num` run where the code runs them.  Each NCP
remembers a priority group (`group`, `goneGroup` for one off its list): it asks for
it when it is made, which may fail, and is told of changes (`HandleGroup`) only while
it is the active one; the status is right for an NCP whose NCUs are in another group.
The handler of a changed group is the only one that does not update the status, since
the call is commented out.  The history variable `late` says that this has happened
since the status was computed.
Properties: `StatusIsCurrent` (between any two handlers; while `late` holds, the
status is that of some group), `ListsConverge` and
`StatesConverge` (with nothing left to handle; the latter for behaviours all of
whose changes were heard, since a reload reads no cached state again).

**NwamuiNcp.**  An NCU is a device with a link and an interface handle that nwamd
creates and destroys one at a time.  `HandleReload` is the walk with its adds and
removes, the count it gathers, and the status update that follows;
`HandleDestroy` removes the NCU at the first of two events; a state is fetched with
the handle the NCU has read (`opened`).  `AllNcusOnline` is the rule of
`nwamui_ncp_all_ncus_online`, `UpdateStatus` what the daemon does with its answer,
prompts included.  Properties: `NcusConverge`, `ReloadRepairsCount`, `PromptsCount`.

**WifiNetworks.**  A network is its ESSID; the hash of an NCU gives it a life (`none`
if it is not there) and `wifi_info` names one, or `Gone`, an object that is in no
hash any more.  `CleanDead`, `MarkDead`, `Insert`, `SetInfo` are the functions of
nwamui_ncu.c; `Reported` composes them as `dispatch_scan_results_from_wlan_array`
does, and `Emitted` is what its announcements do to the menu.  Properties:
`ItemsOfLiveNetworks`, `OneTicked`, `ReportShown`.

### The icon and its menu

**StatusIcon.**  Which NCP the icon shows, the NCUs that have an item (with the
number of items that say there is none), the locations that have one, and whether
the menu opens.  A handler of the daemon is one action with the signals it emits;
`Run` is the start of the icon, which waits until it is embedded; an assertion that
fails ends the program (`aborted`).  Property: `NcuSectionMatches`.

**NotifyQueue.**  A message is its number.  `Push` queues and starts the timer;
`TimerFires` is `notify_notification_adjust_first`, which stops itself, waits,
closes the message on display or shows the next; `HandleClosed` is the server's
signal, which pops the head and prepares `ShowFires`; `TimeoutChanges` restarts the
timer.  Properties: `OneOnScreen`, `NoneUnseen` (in `NotifyPromise`, with the
variables the user sees) and under fairness `EventuallyShown`.

**WirelessMenu.**  The section between two separators as a sequence of items, the
items put away for later, and which of their handlers are connected.
`SectionMatchesNetworks` says the items are the networks announced, once each, in
their order; `ItemsShowStatus`, that each is ticked as its network is, does not
hold (see below).

**NcuViews, ModeItems, WirelessChooser.**  Views that are handed from one object to
another and are told only of changes.  One property each, joined in `ViewsTell`:
lines and items say what is so, except where they were written before the state
could be read (`early`); an item asks for what it says; the dialog lists the
networks the menu was told of.

### Editing

**EditStore** is the abstract specification of a dialog that edits stored objects:
the store changes only by saving drafts that are shown, by deleting an entry, or
by somebody else; OK leaves no shown draft unsaved; Cancel saves nothing and turns
each shown draft back into its entry, or leaves it without a text (`Unread`) if the
entry cannot be read, which is never saved.  `LocationDialog` and `VpnDialog` state
`PromiseKept == Promise!Spec` with their objects as drafts and `NoHandle` as `Unread`.

Reading an object (`nwamui_object_real_open` in nwamui_env.c, nwamui_enm.c and
nwamui_ncu.c) has three outcomes: what is stored; the handle kept, if nothing is
stored under the name; and no handle at all after any other error.  In `LocationDialog`,
`VpnDialog`, `EnvPrefDialog` and `ProfileDialog` every reload may end in the third
(`unread`, `failed`, `read`), counted with the administrator's changes (`Trouble`,
`FailuresCount`).  An object without a handle shows defaults and takes no property;
a location or modifier without one is saved successfully by writing nothing, or
refused.  When nwamd comes back (INFO_ACTIVE) the daemon object walks its lists and
reads every object again, whatever its modifications.  That walk is `HandleActive`
of `NwamuiDaemon` for lists and states, and `Activate` of `EnvPrefDialog` for what was
typed.  The other dialogs do without it: to their properties, which are about what
is stored and what is saved, it is no more than several REFRESH events at once, since
all it does to an object with edits is to make it what is stored.

**LocationDialog** has the rows, the toggled radio button, the activation combo, the
properties and rules dialogs, the location objects with their handles, flags and
references, the commit row by row, the activation after it, and the events of
nwamd.  Of the properties one value is kept, plus the activation mode and the
conditions.  Properties: `LocationsConverge` (with the type invariant, which
includes that nothing referred to was freed), `EnablesTheChoice`, `PromiseKept`.

**EnvPrefDialog** has every check box, source, text, file and button of the one
properties dialog, which writes most of what is typed to the location at once, and
a daemon object that reads the location again without telling it (`outside`): one
location without edits on a REFRESH (`Refresh`), any of them, with edits or not, when
nwamd comes back (`Activate`).  `bare` are the locations without a handle.  It is
proved about beside `LocationDialog`, hence the names of its own (`PrefNext`,
`selEnv`, `running`, `persisted`, `Reconfigure` for what others do, `Discard` for Cancel).
Properties: `ServicesShown`; `TypingSurvives`, which `Activate` may end and nothing
else but saving, Cancel and a failed read.

**VpnDialog** has the panel with the current object `cur`, notifications frozen by
a failed update, start and stop, commit of all rows.  Properties: `ListedConverges`,
`StartsWhatIsSaved`, `PromiseKept`.  Two things make a listed modifier differ from its
entry although nothing is pending, and the properties name them: the dialog gives a
name to a second listed object, or saves one under a name whose entry it has not
read (`strays`, a history variable), and a change of the entry of which no event
tells this object (`Untold`).

**ProfileDialog** has the tree of groups and rows with every button and drag and
drop, and the numbers of groups on saving and reading back.  `Ok` commits connection
by connection, and of each first the link unit, whose flag is then cleared, and then
the IP unit, up to the first that fails; what commits return is not looked at.  A
call to enable or disable that nwamd refuses (`refused`) is swallowed: the entry keeps
what it had though the flag is cleared.  `ReloadProfile` is the reload of the profile,
which may lose its own handle, be broken off, or leave connections that could not be
read without a handle; `Cancel` is nothing but that.  The history variable `meant`
remembers into which kind of group (always on, always off, other) each connection was
last put, until a selection is moved past a group that disappears (`Astray`), after
which the code's remembered position points to the wrong group.  Properties:
`ShowsObjects` (also: no connection is ever lost or in a group it was not put into,
but for `Astray`), `SavedAsShown` (but for the refused calls), `CancelRestores` (each
connection that could be read).

**WirelessDialog** has the one dialog of each process with its caller, the key
entry, the prompts that replace each other, favourites and priorities.  `Given` is
the object OK writes to before and `Written` after it has; `Presses` is what every
outcome of OK has in common; `SavedBy` and `Changed` say what a commit of the
favourites stores, up to the first that fails.  `typed` is a history: the user typed
the key since the dialog was last given no network or one with security, which is
where the code blanks it.
Properties: `FavouritesConverge`, `ConnectsAsShown`, `StoresTypedKeys`.

**ShowCombo** (`ComboMatchesLists`, `OkLosesNothing`), **IpPanel** (`OkStoresTheChoice`),
**ProfilePanel** (`ActivatesTheChoice`, `RenameLosesNone`), **RulesDialog**
(`RulesRoundTrip`) and **StatusPage** (`RowsFollow`) are the pages of the preferences.

## Runs

| Run | Question | Bounds, and why they are enough |
|---|---|---|
| `eventthread` | does the mirror become fresh, is a break noticed and mended? | three versions: an event can be two behind; three faults: a shutdown, a crash and a spurious wait error in any order |
| `daemon` | do lists, states, active objects, the status and the ENM count follow nwamd? | two locations (one of them the system's), of which at most one is online, an NCP and an ENM, all there at first; the NCUs' priority group and another; two changes; one lost subscription. `NwamuiDaemonProofs` has no such bounds and any initial state |
| `ncp` | do the NCU list, its states and count follow handle by handle? are prompts justified? | a wireless and a wired NCU, two priority groups; four changes create, destroy and re-create an NCU around a reload |
| `wifi` | does the menu have the networks it should, once? | two NCUs and two networks: nothing relates a network to more than one other (the former `wifi_info`), nor an NCU to more than one other (the last one left); reports and answers are any; no bound on steps |
| `tray` | do the sections of the menu match what they show? is every message shown, in order, alone? | two each of NCPs, devices, locations: a switch, a first, a last and one that stays; five messages: one on display, one closing, one pending, two waiting; three networks, to sort one between two |
| `tray_ticks` | is each wireless item ticked as its network is? (no) | as `tray` |
| `env_properties` | do the widgets agree with the location, and is typing kept? | two locations that differ at first, shown in turn; three edits, and one of: an outside change, a return of nwamd, a read that fails |
| `locations` | do locations converge, is only the chosen one enabled, are the promises kept? | two names, three objects (a second object for a name), three edits, one outside change or failure to read, three pending events |
| `vpn` | the same for modifiers, and is what is started saved? | two names, three objects, three edits, one outside change or failure to read, two pending events |
| `profile` | does the tree show the connections, is it saved as shown and restored by Cancel? | three connections, at first two of one priority group and one always off; selections of one or two; three edits: move out of a group, into another, and back; one outside change, failure to read or refused call |
| `wireless` | do favourites converge, is what is connected and stored what is shown? | two networks, three objects, both programs, five edits (prompt, type, choose, OK, once more) |
| `panels` | does each part of the preferences, and do the views, say and save what is so? | per part: two or three objects and three to five edits, in `MCPanels` |

Deadlock is not checked by `eventthread`, `daemon` and `ncp` (nwamd may have nothing to
say any more), nor by `profile`, `wireless` and `panels` (the user has used up the edits,
or has left the program).  `wifi` and `env_properties` use the symmetry of their names
and check no liveness.

Fairness.  `NwamEventThread!FairSpec`: weak, per step of the thread (an operating
system thread that can run, runs; a poll that would succeed is made) and of the
main loop (GLib dispatches idle sources of one priority in order).
`NotifyQueue!Fairness`: weak, for the passing of time, the timer, the pending show,
and the delivery of a closed signal.  Nothing is assumed of nwamd, of the user, of
the icon's visibility or of the notification server closing anything by itself.
The other properties are safety properties of specifications without fairness.

## What is proved

TLAPS checks the following for every value of the constants, from the assumptions
the modules name: bounds are natural numbers; distinguished values (`None`, `Nil`,
`Unset`, `Gone`, `Absent`, `NoHandle`) are no objects; sets whose elements are counted
(`Enms`, `Devs`, `Objs`) are finite; what is stored at first is of its type
(`StoresAssumption`, `NetworksAssumption`, `PresetsAssumption`, which also wants one
name service), and there is an object for each entry (`LocationDialog`,
`VpnDialog`).  `ObjectViewsAssumption` and `PanelsAssumption` collect those of the
parts.  TLC evaluates all of them in the runs.

| Module | Theorems | Properties of runs they state |
|---|---|---|
| `NwamuiDaemonProofs` | `EventsTypeCorrect`, `Freshness`, `Overtaken` (event thread); `TypeCorrect`, `StatusCurrent`, `ListsCorrect`, `StatesCorrect` | `FreshWhenQuiet`, `StaleIsOvertaken`; `StatusIsCurrent`, `ListsConverge`, `StatesConverge` |
| `NwamuiNcpProofs` | `TypeCorrect`, `NcusCorrect`, `PromptsCorrect`, `ReloadRepairs` | `NcusConverge`, `PromptsCount`, `ReloadRepairsCount` |
| `ObjectViewsProofs` | `TypeCorrect`, `ItemsLive`, `Ticked`, `Emptied`, `Shown` (networks) | `ItemsOfLiveNetworks`, `OneTicked`, `ReportShown` |
| `PanelsProofs` | `ViewsAreRight`, `StatusRowsAreRight`, `OkStoresWhatWasChosen`, `TheChoiceIsActivated`, `RenamingLosesNone` | `ViewsTell`, `RowsFollow`, `OkStoresTheChoice`, `ActivatesTheChoice`, `RenameLosesNone` |
| `ManagerProofs` | `TypeCorrect`, `SectionMatches`, `LocationsOnList`, `Closed` (icon); `QueueTypeCorrect`, `OneAtATime`, `NothingUnseen`, `NoStall` (notifications); `FavouritesAreRight`, `AsksWhatIsShown`, `StoresWhatWasTyped` (wireless dialog) | `NcuSectionMatches`; `OneOnScreen`, `NoneUnseen`; `FavouritesConverge`, `ConnectsAsShown`, `StoresTypedKeys` |
| `LocationDialogProofs` | `Converges`, `ChoiceEnabled`, `KeepsPromise`; `PropertiesTyped`, `ServicesCorrect`, `TypingKept` (properties) | `LocationsConverge`, `EnablesTheChoice`, `PromiseKept`; `ServicesShown`, `TypingSurvives` |
| `VpnDialogProofs` | `Converges`, `StartsSaved`, `KeepsPromise` | `ListedConverges`, `StartsWhatIsSaved`, `PromiseKept` |

**Queues.**  What makes a mirror right in the end is what is still queued, so "right
once everything is handled" is never inductive.  Each invariant sorts the events by
what they decide and says of every class what its *last* pending event will make of
the mirror, namely what nwamd has; and that, with none pending, the mirror has it
already (`Ends` and `NoneIn` in `PendingEvents`).  A handler of the class makes it so,
every other leaves it so, and whatever nwamd changes, it tells.

- *Event thread.*  `EventsInv` adds to the types: `ThreadInv` (what the `pc` says about
  connection and held event), `ChannelInv` (what is in libnwam's queue leads up to
  the current version unless the subscription is gone), `PostedInv` (the same across
  the idle queue).  Three queues stand one behind the other: nwamd's, the event held,
  the idle sources.
- *Daemon object.*  `DaemonInv` has one such part for lists, the ENM count, states
  and NCU states, plus `OrderOK` (the events of a subscription lie between its ACTIVE
  and its ERROR), which is what lets a reload repair all that was lost before it.
  That the active object is the one online needs two relations between events:
  before one goes online, the former's going is pending or done (`OneByOne`, by
  `Before` and `Chain`).  `StatusIsCurrent` needs `CacheOK`: the
  active location's state has been read, so that a menu that reads states cannot
  change it behind the status; while `late` holds the invariant keeps that some
  group gives the status there is.
- *Active NCP.*  `NcpInv` is about one device at a time: `ListFollows`, `UpFollows`,
  `AuxFollows`, `GroupFollows`.  While nwamd is half way through an NCU nothing is
  claimed of the list: the event that completes it is yet to come.  The state of a
  link may be read only while nwamd has the link, so that a new link's state
  contradicts no old one.  `ReloadRepairs` counts the link handles a walk meets and
  maps them one to one to the wireless NCUs listed.
- *Locations.*  The names of an object change under pending events (rename), two
  objects may have one name, and an event finds an object by name.  `ConvInv` says:
  names are unique but for `twins`; after the event of a new entry that is gone
  comes that of its end (`EndsTold`); each listed location exists in memory only, or
  has its entry's content, or its REFRESH or DESTROY is pending (`AllSound`); and the
  mode of a system location whose entry is gone cannot be edited (`ModeFixed`).
- *Modifiers.*  The same argument without `ModeFixed`: names are unique but for
  `strays`, `EndsTold`, and each listed modifier is in memory only, has what is stored,
  or an event is pending that has it read again or taken off the list (`AllSound`).
  A commit of several rows posts one event per row saved, hence the lemmas on
  concatenations (`HasConcat`, `CoveredConcat`).
- *Favourites.*  `Fav`: the last pending ADD or DESTROY of a name says whether the name
  is stored, and with none pending it is listed exactly if it is stored (`Follows`);
  no two favourites have one name (`Unique`); each favourite has unsaved changes, or
  what is stored, or its REFRESH or DESTROY is pending (`Sound`).  The first part
  looks only at the events that add and remove, so that a REFRESH may come between
  them; that the DESTROY is pending where a favourite is listed but not stored
  (`WillBeDropped`) is what a favourite saved again needs.  `Step` reduces the
  dialog's thirty actions to ten things that can happen to favourites, most of
  the actions doing nothing to them (`Quiet`).

**Refinement.**  Each `KeepsPromise` maps every step of its dialog, `LocationDialog`
or `VpnDialog`, to a step of
`EditStore` or a stutter: OK that succeeds to `SaveAll`, OK that stops at a row and
the properties dialog's to `SaveSome`, Cancel to `Revert`, removal to `Delete`,
nwamcfg to `Outside`, opening to `Open`.  A draft that was saved has a handle
(`Written`), and Cancel leaves the entry's content or none.  The set of drafts saved is the rows
committed; where two rows of one name were, the last one's content is the entry's.
It needs `Safe`: every reference is to a live object, and the selected and edited
objects are in rows.  `ChoiceEnabled` adds to it that `toggled_env` is the choice of
this run of the dialog (`Chosen`).  In `VpnDialog`
the current object is the selected one while the dialog is open, and the buttons can
be used only with a selection (`Refers`); that is what makes the object that is
saved before it is started the one that is started.

**Dialogs and views.**  `ServicesShown` needs that no location is without a name
service unless it has no handle (`NoneEmpty`), which holds until one is read again
underneath the dialog, and that one without a handle has nothing (`Bare`);
`TypingKept` needs that what was typed into is marked as modified, which is what
keeps a REFRESH from reading it again (`Marked`).  The menu's sections need
that before it runs the icon shows nothing (`Idle`).  The notification queue needs
that what the server has closed is the oldest message too, and was shown: without
that the closed signal, which pops the head whichever notification it is about,
could pop one nobody saw.  `ItemsOfLiveNetworks` needs nothing but types and
`OneTicked`: a network is announced as new only because a report first makes
everything dead, which is in the lemmas `ReportedSound` and `EmittedMatches`.
`AsksWhatIsShown` and `StoresWhatWasTyped` need what the dialog of nwam-manager is
between its callers (`DialogOK`): it connects only if it was opened without an
object, and a key in its entry that is not blank was typed by the user since it was
last given no network or one with security.

**Panels.**  `PanelsInv` gives each part the invariant of its own module, as only that
part moves (`PartsNext`).  Tooltip and menu items are right for every NCU whose state
could be read when they were written (`ViewsInv`); an item of a modifier or location
says what it will ask for, also one taken from the cache (`ItemsInv`); the chooser
lists what the menu was told (`ChooserInv`, over the invariant of the networks); a
row of the status page is out of date only if its connection is in `stale`
(`StatusInv`).  `OkStoresTheChoice` needs that a page the user left is still modified
and that what it would commit is what was chosen (`IpInv`).  `ProfilesInv` says that
no list has an object twice, that the object chosen is the one on the row toggled, and that
objects are what the page made of a name and a handle; a renaming adds one name for
the one it takes away (`RenameKeepsAsMany`), whatever fails.

The strengthened invariants were model-checked before they were proved, as
invariants of the runs' instances.  Two properties changed on the way, because the
attempt to prove them showed that larger instances than the runs' violate them.
`LocationsConverge` leaves out a location made in memory for a late ADD event, and
the names in `twins`.  `ListedConverges` and `StartsWhatIsSaved` leave out `strays` and
name the events that may still be `Untold`: a modifier saved under a name whose entry
it never read may keep its old content, listed and unmodified.  All are behaviours
of the code (below).

### What is only model-checked

- Liveness (`BreakIsNoticed`, `Resubscribes`, `EventuallyShown`): liveness under
  fairness is out of the prover's reach, as is ENABLED.
- `ProfileDialog` (`ShowsObjects`, `SavedAsShown`, `CancelRestores`), `WirelessMenu`
  (`SectionMatchesNetworks`) and `ShowCombo` (`ComboMatchesLists`): the tree, the items
  and the rows are built by folds over sequences; what a fold computes for every
  input is an induction over data, for which the provers have no rule.
  `OkLosesNothing` of `ShowCombo` rests on the same: that nothing typed is lost when
  values are refused and the window goes back to the row of their connection needs
  that the row is there.
- `RulesDialog` (`RulesRoundTrip`): that two connections are not taken for one another
  is a fact about the strings their conditions are written as, which the provers do
  not know.
- The violation, `ItemsShowStatus`.

## Where the code departs from what it says

With a run: `tray_ticks`.  An item given another network disconnects handlers by
function only (nwam-wifi-item.c:302-311) and so from all items of its old network;
one of them is never told again, and its tick stays wrong.

Without a run, met while modelling:

*Event thread and daemon object*
- INIT and SHUTDOWN are dispatched again behind what was queued meanwhile: after a
  SHUTDOWN and a fast restart the interface is told "inactive" last, until the next
  event (comment at nwamui_daemon.c:2605).
- The event of a second `nwam_event_wait` that succeeds is dropped; the reload that
  follows makes it good.
- A location removed while nobody listens stays `active_env` and keeps the status
  ALL_OK, while nwamui_daemon.c:1893 wants NEEDS_ATTENTION with no active location.
- NCU events without their parent's name race with a reload or a removal at
  start-up; `StatesConverge` counts them as unheard.
- A reload reads no state that is cached: states changed while nobody listened stay.
- "Re-evaluate status since a change in the priority group means that the status
  could be different" (nwamui_daemon.c:1522), but the call below it is commented out
  (1528): the status keeps the old group until another event is handled.  It is
  modelled, and `StatusIsCurrent` says just this.
- When nwamd comes back, what the user has typed into an open dialog and not saved is
  dropped, while the entries go on showing it (nwamui_daemon.c:2651).
- WIFI_KEY_NEEDED is emitted with `needs_wifi_selection` (nwamui_daemon.c:1945), so
  that its receiver gets NULL or an NCU instead of a network.
- The status may be asked for while uninitialized, where it is asserted not to be
  (nwamui_daemon.c:2412).

*NCP and networks*
- `wireless_link_num` can become -1 (nwamui_ncp.c:193, 1015) and stay wrong until a
  whole reload, because adds and removes count what a walk does not.
- A walk that fails half way replaces the count by what it had counted until then.
- A network first heard of in a connection report or a key request is announced by
  no report and gets no item until the NCP is shown anew; the items of a removed
  NCU's networks stay while another wireless NCU remains (`ghosts`).

*Icon, menu, notifications*
- A hidden icon still shows a notification queued before (notify.c:298).
- After an error the menu shows no NCP until one is activated (nwamui_daemon.c:1488).
- "Only show if in transition to down for sure" (status_icon.c:548): the message
  repeats while the state stays CABLE_UNPLUGGED.
- A line written while the state is unknown and learnt by choosing its icon says
  "Unknown" until the next notification; a disabled wired NCU with auxiliary state
  MANUAL_DISABLE keeps "Connected".  IF_STATE adds addresses whether or not
  `nwe_addr_added`, and may arrive after they were cleaned.
- A label of a modifier is stale when its state was unreadable at first and read
  later by a query: a click on "Start" may then stop.
- "Set initial sensitivity based on whether it's manual selection or not"
  (nwam-env-item.c:100): an item taken from the cache keeps the sensitivity it was
  put away with.  A reload that changes "enabled" tells no item.
- After nwamd returns with the same active location its section stays empty.
- The chooser is opened by the first prompt only, until an NCU is connected; later
  prompts set the urgency hint even when it is hidden (status_icon.c: "If dialog
  still visibie raise it").  Its rows of a removed NCU stay until the list is made
  anew.

*Locations and their properties*
- A system location whose entry is gone stays listed, and a new one of that name is
  taken for it.
- A location made in memory for a late ADD event is listed like a stored one.  It can
  be renamed, hides a new entry of its name, or makes two of one name, of which the
  daemon object finds the first.
- A location, modifier or connection that could not be read once, other than for not
  being stored, has no handle from then on (nwamui_env.c:1767, nwamui_enm.c:735,
  nwamui_ncu.c:1748), until it is read again: it shows defaults and takes no edits.  A
  modifier keeps its modified flag, so that a REFRESH passes it over and OK refuses it.
- OK activates even if commits failed, and forgets the choice; edits of a location
  without a handle are reported saved; the Cancel of the properties dialog drops
  edits made in the outer one too.
- Entries keep the texts of the location shown before ("Update all other...",
  nwam_env_pref_dialog.c:1008).

*Modifiers*
- "Capplet adds the object first, so we can find it here" (nwamui_daemon.c:2171) does
  not hold, nor that `cur_obj` "always poits to the old selection"
  (nwam_vpn_pref_dialog.c:927): it survives the refresh after OK.
- A modifier renamed to a name that is listed already, or saved under a name whose
  entry it has not read, stays as it is though it is not what is stored.

*Profiles*
- Dropping a group on itself never returns; a selection of a group with its only row
  fails `g_assert(source_depth > 0)`: neither is modelled.
- A target path is stale after rows moved (comment at nwam_profile_dialog.c:1508), so
  that rows land elsewhere or are lost; the placeholder may stay beside rows; the row
  of a removed NCU stays if it was moved.
- A group is saved under its number in the tree and read back as one more; failed
  commits are ignored and the dialog closes, and so is a refused call to enable or
  disable (nwamui_ncu.c:3437), so that what is stored contradicts the tree; an NCU
  moved to a priority group is enabled at once; `has_modifications` uses an
  uninitialised local.
- The page of profiles aborts on removing a row never created or stale ("Must remove
  it, because it currectly may haven't been created", nwam_profile_panel.c:218, but
  g_assert at nwamui_daemon.c:901); an administrator's profile of a generated name
  makes two of it; an own REMOVE event may remove a new object of the name; renaming
  copies what nwamd has, so uncommitted edits are lost.
- The choice of a profile is lost if OK is pressed on another page ("Ensure we don't
  have unsaved data", nwam_pref_dialog.c:315, against :322).
- Refresh aborts after the selected connection vanished (g_assert_not_reached, near
  nwam_pref_dialog.c:290); after values are refused and the connection vanishes, the
  window cannot leave the page.

*Addresses and status*
- `ipv4_has_dhcp` is sticky after a reload ("re-load stored configuration",
  nwamui_ncu.c:1497); IPv6 switched off loses DHCPv6 for good; a commit with both
  families off disables the NCU and nothing enables it again.
- A typed route is lost on any notification; an address edited in its cell does not
  set the modified flag, so that a REFRESH drops it; Refresh does not undo edits in
  the lists; a reload reverses the addresses; validation runs on the handle before
  the addresses are synced.
- The status page disconnects itself from changes of the group on its first refresh,
  so its rows go stale; the list is of the NCP active at start while its label
  follows the active one; `daemon_active_env_notify_cb` reads an uninitialised
  `text` when there is no location, which the model takes for any text.

*Wireless networks and favourites*
- After a favourite was edited the ESSID entry stays insensitive; a failed OK leaves
  a network object, so that an ESSID typed later is ignored; the key is stored
  already, and changes are committed later even after Cancel; an ESSID edited in a
  prompt is ignored; the placeholder may be stored as a key (comment at
  nwam_wireless_dialog.c:1566).  A key typed at a prompt outlives later prompts for
  open networks (nwam_wireless_dialog.c:802): it is stored for the last of them if the
  user then chooses a security mode and presses OK.
- A favourite added by an event shows no security; one may be listed twice; a failed
  removal still takes it off the list; removing a stale row aborts
  (nwamui_daemon.c:901).  NCU notifications fill the rows again and forget the
  reordering (comments at nwam_conn_conf_ip_panel.c:256 and near 326).

*Rules*
- OK that is refused leaves the activation mode changed, and Cancel does not restore
  it; "no conditions" keeps libnwam's conditions but makes the profile manual.
- `is-not` of a profile or location is shown and saved as `is`
  (nwam_condition_vbox.c:556-564, nwamui_cond.c:444-448); link conditions become
  interface ones; a condition on a vanished object becomes one about the first
  object (957-966); the default NCP row is unreachable (comment at 1289).

## Not modelled

`components` in PROJECT.json gives the reason part by part.  Whole parts: GConf
preferences, `main.c` (options, embedding), tests (an interactive program that
asserts nothing), data and documentation, nwam_env_svc.c (nothing opens it) and the
password dialog of a proxy.

Within the modelled parts: icons, wording and layout; notification styles other than
the default; signal strength as a number; WPA enterprise; the SMF services of a
location (a hidden page); the preference to add new networks to the favourites;
Cancel of the preferences window, which ends the program; debug mode; tunnels; a
change of the NCP in `WifiNetworks`, which makes everything anew; several wireless
NCUs in `WirelessMenu` and `WirelessChooser`; memory management, except that
`LocationDialog` and `VpnDialog` free objects nobody refers to.  Authorizations are
constant (daemon/main.c:143).

## Plan

Done: the mirror, the icon and menu, every dialog, the abstract store, and proofs of
what each of them promises but for those listed under "only model-checked".  What
could follow:

1. `ProfileDialog`, `ShowCombo` and `WirelessMenu`: their folds restated by what they
   yield, as sets of rows with places, which could be proved about; the folds stay
   with TLC as the definition of the same.
2. The refinement of `EditStore` by `WirelessDialog`'s favourites, whose removal is
   written at once and whose order is saved with OK.
3. Signal strength as a number, and the preference to add joined networks to the
   favourites, which `WirelessDialog` leaves out.
