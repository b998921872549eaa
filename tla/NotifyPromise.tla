---------------------------- MODULE NotifyPromise ----------------------------
(* What the queue of notifications (daemon/notify.c) promises of what the     *)
(* user sees.  A message is its number: the k-th one queued.                  *)
EXTENDS Naturals

VARIABLES
    popped,         \* the number of messages that were taken off the queue
    started,        \* messages whose m->t is set: they have been shown
    screen          \* messages the notification server displays

First == popped + 1

\* However the timer, the server's signals and the user's clicks interleave, at
\* most one notification is displayed, that of the oldest message.
\* (on_notification_closed popping the head, nwam_notification_show_nth_message.)
OneOnScreen == screen \subseteq {First}

\* "Pop up the msg triggered this signal": no message is dropped before it has
\* been shown, and none is shown before those queued before it.
NoneUnseen == 1 .. popped \subseteq started /\ started \subseteq 1 .. First
=============================================================================
