--------------------------- MODULE NwamEventThread ---------------------------
(***************************************************************************)
(* How the user interface learns about nwamd (common/nwamui_daemon.c).     *)
(*                                                                         *)
(* Three parties run concurrently:                                         *)
(*   nwamd            changes its objects and emits events (external);     *)
(*   the event thread nwam_events_thread: waits for events, reconnects,    *)
(*                    and posts NwamuiEvents as GLib idle sources;         *)
(*   the main loop    dispatches the idle sources of one priority in the   *)
(*                    order they were added: nwamd_event_handler.          *)
(*                                                                         *)
(* What nwamd knows of an object is abstracted to a version number: every  *)
(* change (the object is added, then destroyed, then added again, ...)     *)
(* makes a new one and emits an OBJECT_ACTION event carrying it.  `view'   *)
(* is the version the user interface shows: whether it has the object.     *)
(* The states of objects are the subject of NwamuiDaemon.                  *)
(***************************************************************************)
EXTENDS Naturals, Sequences

CONSTANTS
    MaxVer,           \* bound: versions nwamd goes through
    MaxFaults,        \* bound: shutdowns, crashes and spurious wait errors
    InitOnStart,      \* does a starting nwamd announce itself with INIT?
    SpuriousErrors    \* may nwam_event_wait fail while subscribed?

ASSUME FaultsAssumption == MaxVer \in Nat /\ MaxFaults \in Nat
ASSUME ModeAssumption   == InitOnStart \in BOOLEAN /\ SpuriousErrors \in BOOLEAN

VARIABLES
    nwamd,       \* "up" or "down"
    ver,         \* version of nwamd's objects
    subscribed,  \* nwam_events_init is in effect: nwamd has our event queue
    chan,        \* events nwamd has queued for us
    faults,      \* faults so far
    pc,          \* where nwam_events_thread is
    held,        \* the event nwam_event_wait returned, not yet posted
    tconn,       \* connected_to_nwamd, the thread's local variable
    initDone,    \* nwam_init_done
    idleq,       \* the idle sources, oldest first
    uiConn,      \* prv->connected_to_nwamd
    view         \* the version the managed lists were last updated from

serverVars == <<nwamd, ver, subscribed, chan, faults>>
threadVars == <<pc, held, tconn, initDone>>
shownVars  == <<uiConn, view>>
eventVars  == <<serverVars, threadVars, idleq, shownVars>>

Versions   == 0 .. MaxVer
NwamEvents == [type : {"INIT", "SHUTDOWN", "OBJECT_ACTION"}, ver : Versions]
InfoEvents == [e : {"ACTIVE", "INACTIVE", "ERROR"}]
RawEvents  == [e : {"RAW"}, ev : NwamEvents]
UiEvents   == InfoEvents \cup RawEvents

Info(e) == [e |-> e]
Raw(ev) == [e |-> "RAW", ev |-> ev]

EventsTypeOK ==
    /\ nwamd \in {"up", "down"}
    /\ ver \in Versions
    /\ subscribed \in BOOLEAN
    /\ chan \in Seq(NwamEvents)
    /\ faults \in 0 .. MaxFaults
    /\ pc \in {"start", "wait", "post", "retry", "reconnect"}
    /\ held \in NwamEvents
    /\ tconn \in BOOLEAN
    /\ initDone \in BOOLEAN
    /\ idleq \in Seq(UiEvents)
    /\ uiConn \in BOOLEAN
    /\ view \in Versions

(***************************************************************************)
(* nwamui_daemon_init has created the thread and done its first reload,    *)
(* with nwamd possibly not running.                                        *)
(***************************************************************************)
ThreadInit ==
    /\ nwamd \in {"up", "down"}
    /\ ver = 0
    /\ subscribed = FALSE
    /\ chan = <<>>
    /\ faults = 0
    /\ pc = "start"
    /\ held = [type |-> "OBJECT_ACTION", ver |-> 0]
    /\ tconn = FALSE
    /\ initDone = FALSE
    /\ idleq = <<>>
    /\ uiConn = FALSE
    /\ view = 0

-----------------------------------------------------------------------------
(* nwamd, external: modelled from how the event thread uses libnwam.       *)

Emit(type, v) ==
    chan' = IF subscribed THEN Append(chan, [type |-> type, ver |-> v]) ELSE chan

NwamdChange ==
    /\ nwamd = "up"
    /\ ver < MaxVer
    /\ ver' = ver + 1
    /\ Emit("OBJECT_ACTION", ver + 1)
    /\ UNCHANGED <<nwamd, subscribed, faults, threadVars, idleq, shownVars>>

\* A clean shutdown keeps our queue: the thread expects to hear again from a
\* restarted nwamd without reconnecting.
NwamdShutdown ==
    /\ nwamd = "up"
    /\ faults < MaxFaults
    /\ nwamd' = "down"
    /\ faults' = faults + 1
    /\ Emit("SHUTDOWN", ver)
    /\ UNCHANGED <<ver, subscribed, threadVars, idleq, shownVars>>

NwamdStart ==
    /\ nwamd = "down"
    /\ nwamd' = "up"
    /\ IF InitOnStart THEN Emit("INIT", ver) ELSE chan' = chan
    /\ UNCHANGED <<ver, subscribed, faults, threadVars, idleq, shownVars>>

\* nwamd dies, or our queue is removed while it is down: what was queued is
\* lost and nwam_event_wait fails from now on.
NwamdCrash ==
    /\ faults < MaxFaults
    /\ nwamd' = "down"
    /\ faults' = faults + 1
    /\ subscribed' = FALSE
    /\ chan' = <<>>
    /\ UNCHANGED <<ver, threadVars, idleq, shownVars>>

NwamdActs == NwamdChange \/ NwamdShutdown \/ NwamdStart \/ NwamdCrash

-----------------------------------------------------------------------------
(* nwam_events_thread.                                                     *)

\* nwamui_daemon_nwam_connect, one round of it: nwam_events_init succeeds
\* when nwamd is up, and gives us an empty queue.
Subscribes ==
    /\ nwamd = "up"
    /\ subscribed' = TRUE
    /\ chan' = <<>>
    /\ initDone' = TRUE

\* Before the loop: one attempt to connect, announced when it succeeds.
ThreadStart ==
    /\ pc = "start"
    /\ pc' = "wait"
    /\ \/ /\ Subscribes
          /\ tconn' = TRUE
          /\ idleq' = Append(idleq, Info("ACTIVE"))
       \/ /\ nwamd = "down"
          /\ initDone' = FALSE
          /\ UNCHANGED <<subscribed, chan, tconn, idleq>>
    /\ UNCHANGED <<nwamd, ver, faults, held, shownVars>>

\* nwam_event_wait returns an event; a first event after a disconnection is
\* announced with ACTIVE before it is posted.
WaitReturns ==
    /\ pc = "wait"
    /\ subscribed
    /\ chan # <<>>
    /\ held' = Head(chan)
    /\ chan' = Tail(chan)
    /\ tconn' = (Head(chan).type # "SHUTDOWN")
    /\ idleq' = IF Head(chan).type # "SHUTDOWN" /\ ~tconn
                THEN Append(idleq, Info("ACTIVE"))
                ELSE idleq
    /\ pc' = "post"
    /\ UNCHANGED <<nwamd, ver, subscribed, faults, initDone, shownVars>>

PostRaw ==
    /\ pc = "post"
    /\ idleq' = Append(idleq, Raw(held))
    /\ pc' = "wait"
    /\ UNCHANGED <<serverVars, held, tconn, initDone, shownVars>>

\* nwam_event_wait fails: without a subscription, or spuriously.
WaitError ==
    \/ /\ ~subscribed
       /\ faults' = faults
    \/ /\ SpuriousErrors
       /\ subscribed
       /\ faults < MaxFaults
       /\ faults' = faults + 1

\* Mutated: only a working connection's failure is told.
WaitFailsQuietly ==
    /\ pc = "wait"
    /\ WaitError
    /\ idleq' = IF subscribed THEN Append(idleq, Info("ERROR")) ELSE idleq
    /\ tconn' = FALSE
    /\ pc' = "retry"
    /\ UNCHANGED <<nwamd, ver, subscribed, chan, held, initDone, shownVars>>

WaitFails ==
    /\ pc = "wait"
    /\ WaitError
    /\ idleq' = Append(idleq, Info("ERROR"))
    /\ tconn' = FALSE
    /\ pc' = "retry"
    /\ UNCHANGED <<nwamd, ver, subscribed, chan, held, initDone, shownVars>>

\* The second nwam_event_wait succeeds: its event is not posted.
RetryReturns ==
    /\ pc = "retry"
    /\ subscribed
    /\ chan # <<>>
    /\ chan' = Tail(chan)
    /\ pc' = "wait"
    /\ UNCHANGED <<nwamd, ver, subscribed, faults, held, tconn, initDone, idleq, shownVars>>

\* Mutated: after the second failure the thread just waits again.
RetryFailsNoReconnect ==
    /\ pc = "retry"
    /\ WaitError
    /\ pc' = "wait"
    /\ UNCHANGED <<nwamd, ver, subscribed, chan, held, tconn, initDone, idleq, shownVars>>

\* It fails too: nwam_events_fini if nwam_events_init had succeeded, then
\* nwamui_daemon_nwam_connect(TRUE) starts.
RetryFails ==
    /\ pc = "retry"
    /\ WaitError
    /\ IF initDone THEN subscribed' = FALSE /\ chan' = <<>>
                   ELSE UNCHANGED <<subscribed, chan>>
    /\ initDone' = FALSE
    /\ pc' = "reconnect"
    /\ UNCHANGED <<nwamd, ver, held, tconn, idleq, shownVars>>

\* Mutated: the new connection is not announced.
ReconnectSilently ==
    /\ pc = "reconnect"
    /\ Subscribes
    /\ tconn' = TRUE
    /\ pc' = "wait"
    /\ UNCHANGED <<nwamd, ver, faults, held, idleq, shownVars>>

\* The attempt of nwamui_daemon_nwam_connect(TRUE) that succeeds; those that
\* fail only sleep.
Reconnect ==
    /\ pc = "reconnect"
    /\ Subscribes
    /\ tconn' = TRUE
    /\ idleq' = Append(idleq, Info("ACTIVE"))
    /\ pc' = "wait"
    /\ UNCHANGED <<nwamd, ver, faults, held, shownVars>>

Thread ==
    ThreadStart \/ WaitReturns \/ PostRaw \/ WaitFails \/ RetryReturns
      \/ RetryFails \/ Reconnect

-----------------------------------------------------------------------------
(* The main loop: nwamd_event_handler on the oldest idle source.           *)

OldestIs(x) == idleq # <<>> /\ Head(idleq) = x

\* Mutated: reload only when the connection is news.
HandleInfoActiveOnce ==
    /\ OldestIs(Info("ACTIVE"))
    /\ idleq' = Tail(idleq)
    /\ uiConn' = TRUE
    /\ view' = IF nwamd = "up" /\ ~uiConn THEN ver ELSE view
    /\ UNCHANGED <<serverVars, threadVars>>

\* INFO_ACTIVE: reload everything from nwamd, which takes a running nwamd.
HandleInfoActive ==
    /\ OldestIs(Info("ACTIVE"))
    /\ idleq' = Tail(idleq)
    /\ uiConn' = TRUE
    /\ view' = IF nwamd = "up" THEN ver ELSE view
    /\ UNCHANGED <<serverVars, threadVars>>

HandleInfoInactive ==
    /\ \E e \in {"INACTIVE", "ERROR"} : OldestIs(Info(e))
    /\ idleq' = Tail(idleq)
    /\ uiConn' = FALSE
    /\ UNCHANGED <<serverVars, threadVars, view>>

\* INFO_RAW of INIT and SHUTDOWN: dispatched again behind what is queued.
Redispatched(type) == IF type = "INIT" THEN "ACTIVE" ELSE "INACTIVE"

HandleRedispatch ==
    /\ \E ev \in NwamEvents :
          /\ ev.type # "OBJECT_ACTION"
          /\ OldestIs(Raw(ev))
          /\ idleq' = Append(Tail(idleq), Info(Redispatched(ev.type)))
    /\ UNCHANGED <<serverVars, threadVars, shownVars>>

\* INFO_RAW of OBJECT_ACTION: nwamui_daemon_handle_object_action_event adds or
\* removes the object, connected or not.
HandleObjectAction ==
    /\ \E ev \in NwamEvents :
          /\ ev.type = "OBJECT_ACTION"
          /\ OldestIs(Raw(ev))
          /\ view' = ev.ver
    /\ idleq' = Tail(idleq)
    /\ UNCHANGED <<serverVars, threadVars, uiConn>>

MainLoop ==
    HandleInfoActive \/ HandleInfoInactive \/ HandleRedispatch \/ HandleObjectAction

ThreadNext == NwamdActs \/ Thread \/ MainLoop

ThreadSpec == ThreadInit /\ [][ThreadNext]_eventVars

(***************************************************************************)
(* The thread runs whenever it can and polls for nwamd while reconnecting; *)
(* the main loop always comes back to its idle sources.  Nothing is        *)
(* assumed of nwamd.                                                       *)
(***************************************************************************)
FairSpec ==
    /\ ThreadSpec
    /\ WF_eventVars(ThreadStart)
    /\ WF_eventVars(WaitReturns)
    /\ WF_eventVars(PostRaw)
    /\ WF_eventVars(WaitFails)
    /\ WF_eventVars(RetryReturns)
    /\ WF_eventVars(RetryFails)
    /\ WF_eventVars(Reconnect)
    /\ WF_eventVars(MainLoop)

-----------------------------------------------------------------------------
(* Properties.                                                             *)

\* Nothing is on its way from nwamd to the user interface.
AllHandled ==
    /\ nwamd = "up" /\ subscribed
    /\ chan = <<>> /\ pc = "wait" /\ idleq = <<>>

\* Whatever was lost, reordered or applied late on the way, once everything
\* posted has been handled and the thread believes it is connected, the user
\* interface shows nwamd's current objects.  (nwam_events_thread posting ACTIVE
\* before a first event, nwamd_event_handler reloading on ACTIVE.)
FreshWhenQuiet == AllHandled /\ tconn => view = ver

\* What brings the user interface up to date when it is handled: a reload, or
\* the event of the latest change.
Refreshes(ev) == ev.ver = ver /\ ev.type # "SHUTDOWN"
IsRefresh(x) ==
    \/ x.e = "ACTIVE"
    \/ x.e = "RAW" /\ (Refreshes(x.ev) \/ x.ev.type = "INIT")
RefreshPosted(from) == \E j \in from .. Len(idleq) : IsRefresh(idleq[j])
RefreshComing ==
    \/ pc = "post" /\ Refreshes(held)
    \/ \E j \in DOMAIN chan : Refreshes(chan[j])
ShutdownComing == \E j \in DOMAIN chan : chan[j].type = "SHUTDOWN"

\* An event the user interface will apply out of date is always followed by
\* something that brings it up to date: an older OBJECT_ACTION handled after a
\* reload (its handler undoes what the reload found) never has the last
\* word.
StaleIsOvertaken ==
    subscribed /\ tconn /\ ~ShutdownComing =>
        \A i \in DOMAIN idleq :
            idleq[i].e = "RAW" /\ idleq[i].ev.ver # ver =>
                RefreshPosted(i) \/ RefreshComing

\* A broken subscription is noticed: the user interface is told.
BreakIsNoticed == (pc = "wait" /\ ~subscribed) ~> ~uiConn

\* The thread finds a restarted nwamd again by itself.
Resubscribes == (pc # "start" /\ nwamd = "up") ~> (subscribed \/ nwamd = "down")

-----------------------------------------------------------------------------
(***************************************************************************)
(* The inductive invariant behind FreshWhenQuiet and StaleIsOvertaken.     *)
(***************************************************************************)

\* The thread believes it is connected only between a successful wait or
\* connect and the next failure.
ThreadInv ==
    /\ pc = "start" => ~subscribed
    /\ pc \in {"start", "retry", "reconnect"} => ~tconn
    /\ pc = "post" /\ tconn => held.type # "SHUTDOWN"

\* The newest event queued for us is of the current version, and of a nwamd
\* that is down it is the SHUTDOWN.
ChannelInv ==
    /\ ~subscribed => chan = <<>>
    /\ chan # <<>> => chan[Len(chan)].ver = ver
    /\ subscribed /\ pc = "post" /\ chan = <<>> => held.ver = ver
    /\ subscribed /\ nwamd = "down" =>
          IF chan = <<>> THEN ~tconn ELSE chan[Len(chan)].type = "SHUTDOWN"

\* With nothing left to receive, what is posted ends up fresh.
Settled == subscribed /\ tconn /\ chan = <<>> /\ pc = "wait"
PostedInv ==
    Settled =>
        /\ \A i \in 1 .. Len(idleq) :
              idleq[i].e = "RAW" /\ idleq[i].ev.ver # ver => RefreshPosted(i)
        /\ view # ver => RefreshPosted(1)

EventsInv == EventsTypeOK /\ ThreadInv /\ ChannelInv /\ PostedInv

=============================================================================
