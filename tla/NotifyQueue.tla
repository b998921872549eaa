------------------------------ MODULE NotifyQueue ------------------------------
(***************************************************************************)
(* The queue of notifications of the status icon (daemon/notify.c): shown  *)
(* one at a time, each for its time, by a timer that is shared by all, and *)
(* by what the notification server tells of those it has closed.           *)
(*                                                                         *)
(* A message is its number: the k-th one queued.  msg_q holds the messages *)
(* that are queued but not popped, oldest first.  The times are left out:  *)
(* a message that is shown becomes due at some moment (sooner when another *)
(* waits, notify_notification_adjust_nth).  The notification style is the  *)
(* default, a notification for every message.                              *)
(***************************************************************************)
EXTENDS NotifyPromise

CONSTANTS
    MaxMsgs,        \* bound: messages
    MaxChanges      \* bound: changes of the default timeout

VARIABLES
    queued,         \* the number of messages that were queued
    closing,        \* messages it has closed, the signal being on its way
    timer,          \* adjust_source_id # 0
    shows,          \* pending nwam_notification_show_message_cb
    due,            \* the oldest message has been shown for its time
    visible,        \* the status icon is embedded and visible
    changes         \* changes of the default timeout so far

msgVars == <<queued, popped, started, screen, closing>>
vars    == <<queued, popped, started, screen, closing, timer, shows, due,
             visible, changes>>

Msgs   == 1 .. MaxMsgs
Queue  == popped + 1 .. queued

Init ==
    /\ queued = 0 /\ popped = 0
    /\ started = {} /\ screen = {} /\ closing = {}
    /\ timer = FALSE /\ shows = 0 /\ due = FALSE
    /\ visible \in BOOLEAN
    /\ changes = 0

-----------------------------------------------------------------------------
(* External: the icon, time, the notification server and its user.         *)

IconChanges ==
    /\ visible' = ~visible
    /\ UNCHANGED <<msgVars, timer, shows, due, changes>>

TimePasses ==
    /\ First \in started /\ ~due
    /\ due' = TRUE
    /\ UNCHANGED <<msgVars, timer, shows, visible, changes>>

ServerCloses(m) ==
    /\ m \in screen
    /\ screen' = screen \ {m}
    /\ closing' = closing \cup {m}
    /\ UNCHANGED <<queued, popped, started, timer, shows, due, visible, changes>>

-----------------------------------------------------------------------------
(* notify.c.                                                               *)

\* Mutated: the notification is kept, as with NOTIFICATION_STYLE_REUSE.
FreedLater(S, n) == S

\* nwam_notification_msg_free of the messages up to n: their notifications are
\* closed and finalized, signals on their way included.
Freed(S, n) == S \ (1 .. n)

\* Mutated: the timer is not set again after a show.
ShowOnce(n) ==
    /\ popped' = n
    /\ n < queued
    /\ started' = started \cup {n + 1}
    /\ screen' = Freed(screen, n) \cup {n + 1}
    /\ closing' = Freed(closing, n)
    /\ timer' = FALSE
    /\ due' = FALSE

\* nwam_notification_show_nth_message: pop the messages up to n, show the next.
ShowNth(n) ==
    /\ popped' = n
    /\ n < queued
    /\ started' = started \cup {n + 1}
    /\ screen' = Freed(screen, n) \cup {n + 1}
    /\ closing' = Freed(closing, n)
    /\ timer' = TRUE
    /\ due' = FALSE

\* nwam_notification_show_message, with or without an action.
Push ==
    /\ queued < MaxMsgs
    /\ queued' = queued + 1
    /\ timer' = TRUE
    /\ UNCHANGED <<popped, started, screen, closing, shows, due, visible, changes>>

\* notify_notification_adjust_first.  While the icon is invisible, and while the
\* message shown is not due, the timer is only set again.
TimerFires ==
    /\ timer /\ visible
    /\ \/ /\ \/ Queue = {}
             \/ First \in started /\ due /\ First = queued
          /\ timer' = FALSE
          /\ UNCHANGED <<msgVars, due>>
       \/ /\ Queue # {} /\ First \notin started
          /\ ShowNth(popped)
          /\ UNCHANGED queued
       \/ /\ First \in started /\ due /\ First < queued
          /\ ShowNth(First)
          /\ UNCHANGED queued
    /\ UNCHANGED <<shows, visible, changes>>

\* on_notification_closed: it pops the oldest message, whichever was closed.
HandleClosed(m) ==
    /\ m \in closing
    /\ IF Queue = {} THEN UNCHANGED <<popped, screen, due>> /\ closing' = closing \ {m}
       ELSE /\ popped' = First
            /\ screen' = Freed(screen, First)
            /\ closing' = Freed(closing \ {m}, First)
            /\ due' = FALSE
    /\ shows' = IF popped' < queued THEN shows + 1 ELSE shows
    /\ UNCHANGED <<queued, started, timer, visible, changes>>

\* nwam_notification_show_message_cb: it does not ask for the icon.
ShowFires ==
    /\ shows > 0
    /\ shows' = shows - 1
    /\ IF Queue = {} THEN UNCHANGED <<msgVars, timer, due>>
                     ELSE ShowNth(popped) /\ UNCHANGED queued
    /\ UNCHANGED <<visible, changes>>

\* on_prof_notification_default_timeout, connected with the first message.
TimeoutChanges ==
    /\ queued > 0 /\ changes < MaxChanges
    /\ changes' = changes + 1
    /\ timer' = TRUE
    /\ due' \in IF First \in started THEN BOOLEAN ELSE {due}
    /\ UNCHANGED <<msgVars, shows, visible>>

Next ==
    \/ IconChanges \/ TimePasses
    \/ \E m \in Msgs : ServerCloses(m) \/ HandleClosed(m)
    \/ Push \/ TimerFires \/ ShowFires \/ TimeoutChanges

Spec == Init /\ [][Next]_vars

(***************************************************************************)
(* The main loop runs the timeouts that are over and delivers the signals, *)
(* and time passes.  Nothing is assumed of the icon and the user.          *)
(***************************************************************************)
Fairness ==
    /\ WF_vars(TimePasses) /\ WF_vars(TimerFires) /\ WF_vars(ShowFires)
    /\ \A m \in Msgs : WF_vars(HandleClosed(m))

FairSpec == Spec /\ Fairness

-----------------------------------------------------------------------------
(* Properties.                                                             *)

TypeOK ==
    /\ queued \in Nat /\ popped \in 0 .. queued
    /\ started \subseteq 1 .. queued
    /\ screen \subseteq 1 .. queued /\ closing \subseteq 1 .. queued
    /\ timer \in BOOLEAN /\ shows \in Nat /\ due \in BOOLEAN
    /\ visible \in BOOLEAN /\ changes \in Nat

\* While a message waits to be shown there is always something that will show
\* it, though the timer stops by itself.  (adjust_source_id, notify.c.)
NeverStalled == queued \notin started /\ queued > 0 => timer \/ shows > 0

\* If the icon stays visible, every message is shown.
EventuallyShown ==
    <>[]visible => \A m \in Msgs : m \in Queue ~> m \in started

=============================================================================
