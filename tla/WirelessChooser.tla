---------------------------- MODULE WirelessChooser ----------------------------
(* The dialog that lists the wireless networks in reach and lets the user     *)
(* choose one (src/capplet/nwam_wireless_chooser.c), which nwam-manager opens *)
(* when nwamd needs a choice (src/daemon/status_icon.c).  It lists what the   *)
(* NCUs keep (WifiNetworks) when it is opened or told of an NCP, and follows  *)
(* what reports announce from then on, as the menu does on its own; both are  *)
(* never told of networks first known from an answer of nwamd's.  Joining a   *)
(* network by its name is in WirelessDialog; the button for a new scan only   *)
(* asks for one, and what a row says of its network is left out, as is the    *)
(* box for a preference.                                                      *)
EXTENDS WifiNetworks

VARIABLES
    window,     \* of the dialog: "none" before it is first needed, "hidden" or "shown"
    seen,       \* the dialog was shown and no NCU was connected since
    rows,       \* the rows of networks of NCUs there are
    orphans,    \* there are rows of networks of NCUs that are gone
    selected    \* the row selected, which is what OK connects to, or None

dialogVars  == <<window, seen>>
listVars    == <<rows, orphans, selected>>
chooserVars == <<vars, dialogVars, listVars>>

Orphan == <<Gone, Gone>>

-----------------------------------------------------------------------------
\* The list is made anew of the networks that are not dead; nothing is selected.
Listed ==
    /\ rows' = {r \in ncus' \X Essids : r[2] \in Live(wifi'[r[1]])}
    /\ orphans' = FALSE
    /\ selected' = None

\* The dialog, if there is one, makes its list anew.
Relisted == IF window = "none" THEN UNCHANGED listVars ELSE Listed

\* The dialog is shown, and made first if there is none.
Presented == Listed /\ window' = "shown"

\* The networks of an NCU a report announces as those in `lives'.
Announced(n, lives) == {n} \X {e \in Essids : wifi'[n].life[e] \in lives}

\* What a report announces of its NCU.
RowsTold(n) == (rows \cup Announced(n, {"new"})) \ Announced(n, {"dead"})

\* The list follows a report.  The selection goes with its row.
Follows(n) ==
    IF window = "none" THEN UNCHANGED listVars
    ELSE /\ rows' = RowsTold(n)
         /\ selected' = IF selected \in rows \ rows' THEN None ELSE selected
         /\ UNCHANGED orphans

\* A report, or a reload that asks again for the last ones.
Report(n) == HandleReport(n) /\ Follows(n) /\ UNCHANGED dialogVars

\* WLAN_NEED_CHOICE, of networks there are and of an NCU that matters, the user
\* wanting the dialog: it is opened, but only once until an NCU is connected.
NeedChoice(n) ==
    /\ HandleReport(n)
    /\ Live(wifi'[n]) # {}
    /\ IF seen THEN Follows(n) /\ UNCHANGED dialogVars
       ELSE Presented /\ seen' = TRUE

Connected == seen /\ ncus # {} /\ seen' = FALSE /\ UNCHANGED <<vars, window, listVars>>

\* What neither the menu nor the dialog is told of.
Unannounced(n) ==
    /\ \/ HandleConnection(n) \/ HandleNeedKey(n) \/ Joined(n) \/ ActiveChanges(n) \/ NcuAdded(n)
    /\ UNCHANGED <<dialogVars, listVars>>

\* The rows of networks of an NCU that goes stay.
Removed(n) ==
    LET left == rows \cap ({n} \X Essids)
    IN  /\ NcuRemoved(n)
        /\ rows' = rows \ left
        /\ orphans' = (orphans \/ left # {})
        /\ selected' = IF selected \in left THEN Orphan ELSE selected
        /\ UNCHANGED dialogVars

\* nwamd fails, or an NCP becomes active.
NcpChanges == (NcpLost \/ NcpShown) /\ UNCHANGED dialogVars /\ Relisted

\* nwamd tells of the NCP that is active already, or while it fails.
NcpAgain == UNCHANGED <<vars, dialogVars>> /\ Relisted

Select ==
    /\ window = "shown"
    /\ selected' \in rows \cup (IF orphans THEN {Orphan} ELSE {})
    /\ UNCHANGED <<vars, dialogVars, rows, orphans>>

\* OK asks nwamd to join the network selected; what nwamd answers is not kept.
Applies == selected # None

Hidden == window = "shown" /\ window' = "hidden" /\ UNCHANGED <<vars, seen, listVars>>

\* Without a selection OK does nothing.
Ok == Applies /\ Hidden

Cancel == Hidden

ChooserInit ==
    /\ Init
    /\ window = "none" /\ seen = FALSE
    /\ rows = {} /\ orphans = FALSE /\ selected = None

ChooserNext ==
    \/ \E n \in Ncus : Report(n) \/ NeedChoice(n) \/ Unannounced(n) \/ Removed(n)
    \/ Connected \/ NcpChanges \/ NcpAgain \/ Select \/ Ok \/ Cancel

-----------------------------------------------------------------------------
\* The dialog lists the networks of NCUs there are that the menu has, and none
\* these NCUs do not know or lost; what is selected is a row
\* (daemon_add_object, daemon_remove_object, foreach_wifi_in_ncu_emit).
ChooserTells ==
    window # "none" =>
        /\ \A n \in Ncus : \A e \in Essids :
               /\ menu[n][e] > 0 => <<n, e>> \in rows
               /\ <<n, e>> \in rows => n \in ncus /\ e \in Live(wifi[n])
        /\ selected \in rows \cup {None} \cup (IF orphans THEN {Orphan} ELSE {})

===============================================================================
