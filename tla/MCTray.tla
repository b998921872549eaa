-------------------------------- MODULE MCTray --------------------------------
(* Three parts of nwam-manager that share the status icon, each checked on    *)
(* its own: what the icon shows of the daemon object, the queue of its        *)
(* notifications, and the wireless section of its menu.  A behaviour is one   *)
(* of one part, chosen at the start, while the others stay as they are at     *)
(* first, with the icon invisible.                                            *)
EXTENDS StatusIcon, NotifyPromise

VARIABLES
    part,
    queued, closing, timer, shows, due, visible, changes,
    links, live, strong, joined, tracked, menu, count, cache

Queue == INSTANCE NotifyQueue WITH MaxMsgs <- 5, MaxChanges <- 1
Menu  == INSTANCE WirelessMenu WITH Nets <- {1, 2, 3}

ASSUME TrayAssumption == Menu!WirelessMenuAssumption

NoIcon ==
    /\ running = FALSE /\ shown = None /\ ncuItems = {} /\ fakes = 0
    /\ status = None /\ list = None /\ activeNcp = None /\ envs = None /\ activeEnv = None
    /\ envItems = None /\ popup = None /\ aborted = None

OfQueue == <<queued, popped, started, screen, closing, timer, shows, due, visible, changes>>
OfMenu  == <<links, live, strong, joined, tracked, menu, count, cache>>
trayVars == <<part, vars, OfQueue, OfMenu>>

TrayInit ==
    /\ part \in {"icon", "queue", "menu"}
    /\ IF part = "icon" THEN Init ELSE NoIcon
    /\ Queue!Init /\ (part # "queue" => visible = FALSE)
    /\ Menu!Init

IconStep  == part = "icon" /\ Next /\ UNCHANGED <<part, OfQueue, OfMenu>>
QueueStep == part = "queue" /\ Queue!Next /\ UNCHANGED <<part, vars, OfMenu>>
MenuStep  == part = "menu" /\ Menu!Next /\ UNCHANGED <<part, vars, OfQueue>>

TrayNext == IconStep \/ QueueStep \/ MenuStep

\* The fairness of the queue, whose steps are not enabled in the other parts.
TraySpec == TrayInit /\ [][TrayNext]_trayVars /\ Queue!Fairness

-----------------------------------------------------------------------------
\* The properties of the parts, as their modules state them; NcuSectionMatches
\* is that of StatusIcon, OneOnScreen and NoneUnseen are those of NotifyPromise.

\* With a visible icon every notification is shown (notify.c).
EventuallyShown == Queue!EventuallyShown

\* The section has one item for each network, shows it, and has its separators
\* and controls while there is what they are for (nwam-menu.c, status_icon.c).
SectionMatchesNetworks == Menu!SectionMatchesNetworks

\* "wait for wifi_net_notify to update self" (nwam-wifi-item.c:225): an item
\* shows whether its network is connected.
ItemsShowStatus == Menu!ItemsShowStatus
===============================================================================
