------------------------- MODULE Gb28181Subscription -------------------------
(***************************************************************************)
(* gb28181::Gb28181Client as the notifier of the platform's subscriptions: *)
(* a SUBSCRIBE enters or renews one of _subscribe_list, and every second   *)
(* the event thread drops what is overdue and reports the position when    *)
(* its interval has passed.                                                *)
(*                                                                         *)
(* Time is getCurrentMillisecond() / 1000, the seconds since the program   *)
(* was started.  The event thread handles the events that are there, and   *)
(* iterates at least once, in every second.                                *)
(* Only it uses the list, and while it iterates the world only adds to the *)
(* event queue, so that an iteration is one step.  Registration is seen    *)
(* from here by its events alone.  eXosip reports every SUBSCRIBE as       *)
(* EXOSIP_IN_SUBSCRIPTION_NEW.                                             *)
(***************************************************************************)
EXTENDS Naturals, Sequences

CONSTANTS
  CmdTypes,        \* what a platform subscribes to
  MobilePosition,  \* STR_MOBILE_POSITION, the only type that is reported
  Expirations,     \* the Expires a platform asks for; 0 cancels
  Intervals,       \* the Intervals it asks for; 0 stands for none, too
  Epochs,          \* when, from the program's start, the client may start
  MaxTime,         \* bound: the last second
  MaxEvents        \* bound: events in eXosip's queue

ASSUME SubscriptionAssumption ==
  /\ MobilePosition \in CmdTypes
  /\ Expirations \subseteq Nat
  /\ Intervals \subseteq Nat
  /\ MaxTime \in Nat
  /\ Epochs \subseteq 0..MaxTime
  /\ MaxEvents \in Nat \ {0}

Times == 0..MaxTime
Grace == 3

Subscriptions ==
  [expiration : {t + e + Grace : t \in Times, e \in Expirations},
   interval : Intervals,
   lastReport : Times]

Requests ==
  [type : {"subscribe"}, cmd : CmdTypes, expires : Expirations, interval : Intervals]
RegReplies == [type : {"regOk", "regFail"}]

VARIABLES
  now,
  looped,      \* the event thread has iterated in this second
  events,      \* eXosip's event queue
  registered,  \* isRegistered()
  subs,        \* _subscribe_list: for some cmd_types, the one entry each has
  lastNotify,  \* when the last position was reported, 0: never
  granted,     \* until when the last SUBSCRIBE for the position was granted
  since        \* when a SUBSCRIBE or a REGISTER last changed what is to report

historyVars == <<lastNotify, granted, since>>
vars == <<now, looped, events, registered, subs, historyVars>>

\* The types; a report is never noted for the future, so that needReport() does
\* not subtract past zero.
TypeOK ==
  /\ now \in Times
  /\ looped \in BOOLEAN
  /\ events \in Seq(Requests \cup RegReplies)
  /\ registered \in BOOLEAN
  /\ \E cmds \in SUBSET CmdTypes : subs \in [cmds -> Subscriptions]
  /\ \A c \in DOMAIN subs : subs[c].lastReport <= now
  /\ lastNotify \in 0..now
  /\ granted \in Nat
  /\ since \in 0..now

Init ==
  /\ now \in Epochs
  /\ looped = FALSE
  /\ events = <<>>
  /\ registered = FALSE
  /\ subs = [c \in {} |-> {}]
  /\ lastNotify = 0
  /\ granted = 0
  /\ since = 0

-----------------------------------------------------------------------------
(* Time, the platform and eXosip.                                          *)

Tick ==
  /\ now < MaxTime
  /\ looped /\ events = <<>>
  /\ now' = now + 1
  /\ looped' = FALSE
  /\ UNCHANGED <<events, registered, subs, historyVars>>

Arrive(event) ==
  /\ Len(events) < MaxEvents
  /\ events' = Append(events, event)
  /\ UNCHANGED <<now, looped, registered, subs, historyVars>>

-----------------------------------------------------------------------------
(* checkSubscribe()                                                        *)

\* SubscribeInfo::overdue(): the second it expires in is still granted.
Overdue(info) == info.expiration < now

\* A defect: an interval is waited for and another second.
NeedReportLate(info) == now - info.lastReport > info.interval

\* SubscribeInfo::needReport(): an entry that was never reported, whose time is 0,
\* waits until the program has run for the interval.
NeedReport(info) == now - info.lastReport >= info.interval

Kept == {c \in DOMAIN subs : ~Overdue(subs[c])}

\* A defect: the position is reported before it is asked what is overdue.
ReportingFirst ==
  registered /\ MobilePosition \in DOMAIN subs /\ NeedReport(subs[MobilePosition])

\* checkPositionSubscribe() gets as far as sendMessage(NOTIFY).
Reporting ==
  registered /\ MobilePosition \in Kept /\ NeedReport(subs[MobilePosition])

\* A defect: the time noted is that of the next report.
CheckedAhead ==
  [c \in Kept |->
    IF c = MobilePosition /\ Reporting
    THEN [subs[c] EXCEPT !.lastReport = now + subs[c].interval]
    ELSE subs[c]]

\* The list after checkSubscribe().
Checked ==
  [c \in Kept |->
    IF c = MobilePosition /\ Reporting
    THEN [subs[c] EXCEPT !.lastReport = now]
    ELSE subs[c]]

\* The list the event finds: only a registered client checks it.
ListForEvent == IF registered THEN Checked ELSE subs

-----------------------------------------------------------------------------
(* The event.                                                              *)

\* SubscribeInfo::update() keeps last_report_time, the constructor clears it.
\* Cancelling is no exception to either.
Entered(list, e) ==
  [c \in DOMAIN list \cup {e.cmd} |->
    IF c = e.cmd
    THEN [expiration |-> now + e.expires + Grace,
          interval   |-> e.interval,
          lastReport |-> IF c \in DOMAIN list THEN list[c].lastReport ELSE 0]
    ELSE list[c]]

\* handleSubscribe(): a subscription whose 200 cannot be built is not entered.
HandleSubscribe(e) ==
  /\ \/ /\ subs' = Entered(ListForEvent, e)
        /\ since' = now
        /\ granted' = IF e.cmd = MobilePosition THEN now + e.expires ELSE granted
     \/ /\ e.expires > 0
        /\ subs' = ListForEvent
        /\ UNCHANGED <<since, granted>>
  /\ UNCHANGED registered

\* EXOSIP_REGISTRATION_SUCCESS and _FAILURE
HandleRegister(reply) ==
  /\ registered' = (reply.type = "regOk")
  /\ since' = now
  /\ subs' = ListForEvent
  /\ UNCHANGED granted

\* One turn of eventLoop(): the event is waited for, then the list is checked,
\* then the event is handled.
Iteration ==
  /\ \/ /\ events # <<>>
        /\ events' = Tail(events)
        /\ IF Head(events).type = "subscribe"
           THEN HandleSubscribe(Head(events))
           ELSE HandleRegister(Head(events))
     \/ /\ events = <<>> /\ ~looped
        /\ subs' = ListForEvent
        /\ UNCHANGED <<events, registered, granted, since>>
  /\ looped' = TRUE
  /\ lastNotify' = IF Reporting THEN now ELSE lastNotify
  /\ UNCHANGED now

-----------------------------------------------------------------------------

Next ==
  \/ Tick
  \/ \E event \in Requests \cup RegReplies : Arrive(event)
  \/ Iteration

Spec == Init /\ [][Next]_vars

-----------------------------------------------------------------------------
(* Properties.                                                             *)

\* A report is never late. While the client is registered, the entry's last
\* report really was sent, an interval ago at most, or what is to report changed
\* in the last second. It holds over renewals that change the interval, time
\* spent unregistered, and entries that ran out and came back. Only an entry that
\* was never reported may wait longer, until the program has run for its interval:
\* needReport() (GB28181Def.cpp:132) takes the program's start for its last report.
ReportedInTime ==
  registered /\ MobilePosition \in Kept =>
    LET info == subs[MobilePosition]
    IN  \/ /\ info.lastReport = lastNotify /\ lastNotify # 0
           /\ now - lastNotify <= info.interval \/ now - lastNotify <= 1
        \/ now - since <= 1
        \/ info.lastReport = 0 /\ now <= info.interval

\* No report is sent beyond the seconds of grace (Gb28181Client.cpp:398) after
\* the time the last SUBSCRIBE was granted, however long the list was not looked
\* at because the client was not registered.
NotifiedWhileGranted == [][lastNotify' # lastNotify => lastNotify' <= granted + Grace]_vars

=============================================================================
