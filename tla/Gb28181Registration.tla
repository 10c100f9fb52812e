------------------------- MODULE Gb28181Registration -------------------------
(***************************************************************************)
(* gb28181::Gb28181Client's registration over time: the REGISTER and its   *)
(* refresh, the keepalive every _keepalive_interval seconds, and the       *)
(* un-REGISTER sent when keepalives stay unanswered.                       *)
(*                                                                         *)
(* Time is getCurrentMillisecond() / 1000, the seconds since the program   *)
(* was started: 0 is both its first second and "never".  The event thread  *)
(* waits at most a second for an event, so that its loop body runs in      *)
(* every second, and handles the events that are there before the next     *)
(* one.  eXosip builds a REGISTER only when the previous one is no longer  *)
(* pending, resends it by itself (credentials, retransmission), and gives  *)
(* it up after TransactionTimeout; the platform accepts it some time       *)
(* before its 200 is there, and the 200 may be lost.  MESSAGEs may be      *)
(* answered late or never.                                                 *)
(***************************************************************************)
EXTENDS Naturals, Sequences

CONSTANTS
  KeepAliveInterval,   \* _keepalive_interval, 10
  Expires,             \* _expires
  TransactionTimeout,  \* the seconds eXosip waits for the final answer to a REGISTER
  Epochs,              \* the times the program may call startRegister() first
  MaxTime,             \* bound: the last second
  MaxStarts,           \* bound: the calls of startRegister()
  MaxUnanswered,       \* bound: keepalives counted, and awaiting an answer
  MaxEvents            \* bound: events in eXosip's queue

ASSUME RegistrationAssumption ==
  /\ KeepAliveInterval \in Nat \ {0}
  /\ Expires \in Nat \ {0}
  /\ TransactionTimeout \in Nat
  /\ MaxTime \in Nat
  /\ Epochs \subseteq 0..MaxTime
  /\ MaxStarts \in Nat \ {0}
  /\ MaxUnanswered \in Nat /\ MaxUnanswered >= 3
  /\ MaxEvents \in Nat \ {0}

Times == 0..MaxTime
Counts == 0..MaxUnanswered
Registers == {"none", "register", "unregister"}
Events == {"regOk", "reg401", "regFail", "kaOk", "kaFail"}
NoEvent == "noEvent"

VARIABLES
  now,
  starts,            \* the calls of startRegister() so far
  running,           \* _running
  looped,            \* the loop body has run in this second
  thread,            \* "wait", or "event" when the checks are done
  held,              \* the event eXosip_event_wait() returned
  events,            \* eXosip's event queue
  status,            \* _status
  lastRegister,      \* _last_register_time
  lastKeepAlive,     \* _last_keep_alive_time
  lastResponse,      \* _last_keep_alive_response_time
  pending,           \* the REGISTER that has no final answer
  pendingSince,
  accepted,          \* the platform has accepted it, and its 200 is on the way
  bound,             \* when the platform's binding of the device ends, 0: none
  awaiting,          \* the keepalives that may still be answered
  unanswered,        \* the keepalives sent since the last 200 was processed
  keptAlive,         \* a 200 for a keepalive was processed since the client was registered
  refused            \* a REGISTER was refused with a 401 and none accepted since

loopVars == <<now, starts, running, looped, thread, held>>
clientVars == <<status, lastRegister, lastKeepAlive, lastResponse>>
requestVars == <<pending, pendingSince, awaiting>>
historyVars == <<unanswered, keptAlive>>
platformVars == <<bound, refused, accepted>>
vars == <<loopVars, events, clientVars, requestVars, historyVars, platformVars>>

\* The types; a time that was noted is not in the future, so that the unsigned
\* subtractions from now of the three checks do not wrap.
TypeOK ==
  /\ now \in Times
  /\ starts \in 1..MaxStarts
  /\ running \in BOOLEAN
  /\ looped \in BOOLEAN
  /\ thread \in {"wait", "event"}
  /\ held \in Events \cup {NoEvent}
  /\ events \in Seq(Events)
  /\ status \in {"REGISTERING", "REGISTERED", "UNREGISTER"}
  /\ lastRegister \in 0..now /\ lastKeepAlive \in 0..now /\ lastResponse \in 0..now
  /\ pending \in Registers /\ pendingSince \in Times
  /\ bound \in 0..(MaxTime + Expires)
  /\ awaiting \in Counts /\ unanswered \in Counts
  /\ keptAlive \in BOOLEAN /\ refused \in BOOLEAN
  /\ accepted \in BOOLEAN

\* startRegister() has sent the initial REGISTER.
Init ==
  /\ now \in Epochs
  /\ starts = 1
  /\ running = TRUE
  /\ looped = FALSE
  /\ thread = "wait"
  /\ held = NoEvent
  /\ events = <<>>
  /\ status = "REGISTERING"
  /\ lastRegister = 0 /\ lastKeepAlive = 0 /\ lastResponse = 0
  /\ pending = "register" /\ pendingSince = now
  /\ bound = 0
  /\ awaiting = 0 /\ unanswered = 0
  /\ keptAlive = FALSE /\ refused = FALSE /\ accepted = FALSE

-----------------------------------------------------------------------------
(* Time, the network and the platform.                                     *)

Tick ==
  /\ now < MaxTime
  /\ running => looped /\ thread = "wait" /\ events = <<>>
  /\ pending # "none" => now - pendingSince < TransactionTimeout
  /\ now' = now + 1
  /\ looped' = FALSE
  /\ UNCHANGED <<starts, running, thread, held, events, clientVars, requestVars, historyVars, platformVars>>

Receive(event) ==
  /\ Len(events) < MaxEvents
  /\ events' = Append(events, event)

\* The platform accepts the REGISTER: its binding of the device runs from now on.
Accept ==
  /\ pending # "none" /\ ~accepted
  /\ accepted' = TRUE
  /\ bound' = IF pending = "register" THEN now + Expires ELSE 0
  /\ refused' = FALSE
  /\ UNCHANGED <<loopVars, events, clientVars, requestVars, historyVars>>

\* The REGISTER ends for the client: with the 200 of the platform that accepted it,
\* with a 401 that eXosip has no further credentials for, or otherwise ("regFail"),
\* of which one way is that the 200 was lost.
RegisterAnswer ==
  /\ running /\ pending # "none"
  /\ \/ accepted /\ Receive("regOk") /\ UNCHANGED refused
     \/ ~accepted /\ Receive("reg401") /\ refused' = TRUE
     \/ Receive("regFail") /\ UNCHANGED refused
  /\ pending' = "none" /\ pendingSince' = 0
  /\ accepted' = FALSE
  /\ UNCHANGED <<loopVars, clientVars, awaiting, historyVars, bound>>

KeepAliveAnswer ==
  /\ running /\ awaiting > 0
  /\ awaiting' = awaiting - 1
  /\ \E answer \in {"kaOk", "kaFail"} : Receive(answer)
  /\ UNCHANGED <<loopVars, clientVars, pending, pendingSince, historyVars, platformVars>>

-----------------------------------------------------------------------------
(* The checks of the loop body.                                            *)

\* A defect: the refresh is due when the registration has expired.
RefreshDueAtExpiry == now - lastRegister >= Expires

RefreshDue == now - lastRegister >= (Expires * 2) \div 3

\* A defect: one interval without an answer is taken for three.
TimedOutSoon ==
  lastKeepAlive # 0 /\ now - lastResponse >= KeepAliveInterval

\* The comparison with a response time of 0 is made before any answer came.
TimedOut ==
  lastKeepAlive # 0 /\ now - lastResponse >= 3 * KeepAliveInterval

KeepAliveDue == ~TimedOut /\ now - lastKeepAlive >= KeepAliveInterval

\* A defect: the time noted is the next keepalive's.
SendKeepAliveNext ==
  IF KeepAliveDue
  THEN /\ lastKeepAlive' = now + KeepAliveInterval
       /\ awaiting' = IF awaiting = MaxUnanswered THEN awaiting ELSE awaiting + 1
       /\ unanswered' = IF unanswered = MaxUnanswered THEN unanswered ELSE unanswered + 1
  ELSE UNCHANGED <<lastKeepAlive, awaiting, unanswered>>

\* The rest of checkKeepAlive(), of a registered client, and of the history.
SendKeepAlive ==
  IF KeepAliveDue
  THEN /\ lastKeepAlive' = now
       /\ awaiting' = IF awaiting = MaxUnanswered THEN awaiting ELSE awaiting + 1
       /\ unanswered' = IF unanswered = MaxUnanswered THEN unanswered ELSE unanswered + 1
  ELSE UNCHANGED <<lastKeepAlive, awaiting, unanswered>>

\* sendUnRegisterMessage() and sendRefreshRegister(): nothing is built while a
\* REGISTER is pending. eXosip returns 0 for a REGISTER it has sent, which
\* sendUnRegisterMessage() takes for a failure: _status stays as it is.
SendRegister(kind) ==
  IF pending = "none" /\ kind # "none"
  THEN pending' = kind /\ pendingSince' = now
  ELSE UNCHANGED <<pending, pendingSince>>

\* The loop body up to the event: checkKeepAlive(), then checkRefreshRegister(),
\* which notes the refresh as done although it may not have been built.
Checks ==
  IF status = "REGISTERED"
  THEN /\ SendKeepAlive
       /\ SendRegister(IF TimedOut THEN "unregister" ELSE IF RefreshDue THEN "register" ELSE "none")
       /\ lastRegister' = IF RefreshDue THEN now ELSE lastRegister
  ELSE UNCHANGED <<lastKeepAlive, lastRegister, requestVars, unanswered>>

\* eXosip_event_wait() returns an event, or nothing when a second has passed.
WaitEvent ==
  /\ running /\ thread = "wait"
  /\ \/ events # <<>> /\ held' = Head(events) /\ events' = Tail(events)
     \/ events = <<>> /\ ~looped /\ held' = NoEvent /\ UNCHANGED events
  /\ thread' = "event"
  /\ looped' = TRUE
  /\ Checks
  /\ UNCHANGED <<now, starts, running, status, lastResponse, keptAlive, platformVars>>

-----------------------------------------------------------------------------
(* The event.                                                              *)

\* EXOSIP_REGISTRATION_SUCCESS, for any REGISTER: checkKeepAlive() at its end.
Registered ==
  /\ held = "regOk"
  /\ status' = "REGISTERED"
  /\ lastRegister' = now
  /\ SendKeepAlive
  /\ SendRegister(IF TimedOut THEN "unregister" ELSE "none")
  /\ UNCHANGED <<lastResponse, keptAlive>>

\* EXOSIP_REGISTRATION_FAILURE, apart from the 401, left to eXosip.
Failed ==
  /\ held = "regFail"
  /\ status' = "UNREGISTER"
  /\ keptAlive' = FALSE
  /\ UNCHANGED <<lastRegister, lastKeepAlive, lastResponse, requestVars, unanswered>>

\* onKeepAliveAnswer()
Answered ==
  /\ held = "kaOk"
  /\ lastResponse' = now
  /\ unanswered' = 0
  /\ keptAlive' = (status = "REGISTERED")
  /\ UNCHANGED <<status, lastRegister, lastKeepAlive, requestVars>>

Ignored ==
  /\ held \in {"reg401", "kaFail", NoEvent}
  /\ UNCHANGED <<clientVars, requestVars, historyVars>>

ProcessEvent ==
  /\ thread = "event"
  /\ thread' = "wait"
  /\ held' = NoEvent
  /\ Registered \/ Failed \/ Answered \/ Ignored
  /\ UNCHANGED <<now, starts, running, looped, events, platformVars>>

\* stop(): the last un-REGISTER is sent and eXosip quits; _status stays.
Stop ==
  /\ running /\ thread = "wait"
  /\ running' = FALSE
  /\ pending' = "none" /\ pendingSince' = 0
  /\ awaiting' = 0
  /\ events' = <<>>
  /\ bound' \in {bound, 0}
  /\ accepted' = FALSE
  /\ UNCHANGED <<now, starts, looped, thread, held, clientVars, historyVars, refused>>

\* init() and startRegister() again: the times noted before stay.
Restart ==
  /\ ~running /\ starts < MaxStarts
  /\ starts' = starts + 1
  /\ running' = TRUE /\ looped' = FALSE
  /\ status' = "REGISTERING"
  /\ pending' = "register" /\ pendingSince' = now
  /\ unanswered' = 0 /\ keptAlive' = FALSE
  /\ UNCHANGED <<now, thread, held, events, lastRegister, lastKeepAlive, lastResponse, awaiting,
                 platformVars>>

-----------------------------------------------------------------------------

Next ==
  Tick \/ Accept \/ RegisterAnswer \/ KeepAliveAnswer \/ WaitEvent \/ ProcessEvent \/ Stop \/ Restart

Spec == Init /\ [][Next]_vars

-----------------------------------------------------------------------------
(* Properties.                                                             *)

\* Refreshing at two thirds (Gb28181Client.cpp:282) is early enough: while the
\* client takes itself for registered and runs, a binding the platform was not
\* asked to remove does not run out. The two thirds are counted from the answer
\* (line 606) and the binding from the acceptance before it, and the refresh too is
\* accepted some time after it was sent: a third of Expires must leave room for two
\* transactions and the second an iteration may wait. Excepted is a REGISTER that was
\* refused with the 401 the client does not look at.
BindingRefreshed ==
  2 * TransactionTimeout + 1 < Expires - (Expires * 2) \div 3 =>
    (running /\ status = "REGISTERED" /\ bound # 0 /\ ~refused => now < bound)

Unregisters == pending # "unregister" /\ pending' = "unregister"

\* Once a keepalive has been answered since the client became registered, it gives
\* up only a platform that was sent two keepalives since its last answer, and has been
\* silent for three intervals (Gb28181Client.cpp:224). Before that answer it may give
\* it up after one, and after a failed refresh too, if the next REGISTER is accepted
\* three intervals later.
TimeoutAfterTwo ==
  [][Unregisters /\ keptAlive =>
       unanswered >= 2 /\ now - lastResponse >= 3 * KeepAliveInterval]_vars

-----------------------------------------------------------------------------
(* What a comment of the source claims and the code does not do.           *)

\* "Three keepalives not answered" (Gb28181Client.cpp:223), even of a platform that has
\* answered one since the client became registered.
TimeoutAfterThree == [][Unregisters /\ keptAlive => unanswered >= 3]_vars

=============================================================================
