---------------------------- MODULE Gb28181Context ----------------------------
(***************************************************************************)
(* Who uses the eXosip context of gb28181::Gb28181Client, and when.        *)
(*                                                                         *)
(* The control thread of the application calls init(), startRegister() and *)
(* stop() and lets go of the client at last.  The event thread that        *)
(* startRegister() starts acknowledges each catalogue or device            *)
(* information query with a 200 and asks the application, which completes  *)
(* the query in the callback, on a thread of its own, repeatedly, or never.*)
(* Whoever builds or sends a message locks the context.  eXosip's own      *)
(* thread does so too: it brings no event while another holds the lock.    *)
(***************************************************************************)
EXTENDS Naturals, Sequences

CONSTANTS
  Queries,        \* the MESSAGEs with a query that the platform sends
  Handled,        \* those whose callback the application has set
  MaxInits,       \* bound: the number of contexts init() creates
  MaxEvents,      \* bound: events in eXosip's queue
  MaxCompletions  \* bound: completions by application threads

Replies == {"regOk", "regFail"}
None == "none"

ASSUME ContextAssumption ==
  /\ Handled \subseteq Queries
  /\ Queries \cap ({None, "control", "lost", "event"} \cup Replies) = {}
  /\ MaxInits \in Nat
  /\ MaxEvents \in Nat \ {0}
  /\ MaxCompletions \in Nat

VARIABLES
  exCtx,        \* _ex_ctx: 0 is nullptr, g > 0 the g-th context init() created
  inits,        \* the number of contexts created so far
  running,      \* _running
  control,      \* where the control thread stands in startRegister() and stop()
  released,     \* the application has let go of the client
  status,       \* _status
  thread,       \* where the event thread stands; "none": not joinable
  held,         \* the event it handles
  events,       \* eXosip's event queue
  lock,         \* who holds the context's lock; "lost": it is never given back
  query,        \* how far each query is
  acknowledged, \* the queries whose 200 was sent, or whose transaction was over
  responded,    \* the queries for which a MESSAGE with the response was sent
  completing,   \* where the application's thread stands that completes a query
  completions,  \* the completions on application threads so far
  fault         \* who used a context that does not exist

controlVars == <<exCtx, inits, running, control, released>>
threadVars == <<thread, held, events>>
askVars == <<query, acknowledged>>
completeVars == <<responded, completing, completions>>
vars == <<controlVars, threadVars, askVars, completeVars, status, lock, fault>>

ThreadStates ==
  {"none", "head", "wait", "checks", "default", "handle", "ack", "ask", "reply", "exited"}

\* The types; the event thread is joinable only while there is a context, and an
\* application thread holds the lock exactly while it sends.
TypeOK ==
  /\ exCtx \in 0..inits /\ inits \in 0..MaxInits
  /\ running \in BOOLEAN /\ released \in BOOLEAN
  /\ control \in {"idle", "register", "build", "launch", "join", "quit"}
  /\ status \in {"UN_INIT", "INIT", "REGISTERING", "REGISTERED", "UNREGISTER"}
  /\ thread \in ThreadStates
  /\ held \in Queries \cup Replies \cup {None}
  /\ events \in Seq(Queries \cup Replies) /\ Len(events) <= MaxEvents
  /\ lock \in Queries \cup {None, "control", "lost"}
  /\ query \in [Queries -> {"unsent", "queued", "taken", "asked", "lost"}]
  /\ acknowledged \subseteq Queries /\ responded \subseteq Queries
  /\ completing \in [Queries -> {"no", "lock", "send"}]
  /\ completions \in 0..MaxCompletions
  /\ fault \in Queries \cup {None, "event"}
  /\ thread # "none" => exCtx # 0
  /\ \A q \in Queries : completing[q] = "send" <=> lock = q

Init ==
  /\ exCtx = 0 /\ inits = 0
  /\ running = FALSE /\ released = FALSE
  /\ control = "idle"
  /\ status = "UN_INIT"
  /\ thread = "none" /\ held = None /\ events = <<>>
  /\ lock = None
  /\ query = [q \in Queries |-> "unsent"]
  /\ acknowledged = {} /\ responded = {}
  /\ completing = [q \in Queries |-> "no"]
  /\ completions = 0
  /\ fault = None

Alive == fault = None

-----------------------------------------------------------------------------
(* The control thread. startRegister() of a running client, which assigns  *)
(* to a joinable thread, is left to the application not to call.           *)

Idle == Alive /\ control = "idle" /\ ~released

\* init(): on a live context, or if it fails, nothing changes.
InitContext ==
  /\ Idle /\ exCtx = 0 /\ inits < MaxInits
  /\ inits' = inits + 1 /\ exCtx' = inits + 1
  /\ status' = "INIT"
  /\ UNCHANGED <<running, control, released, threadVars, askVars, completeVars, lock, fault>>

StartRegister ==
  /\ Idle /\ exCtx # 0 /\ ~running
  /\ running' = TRUE
  /\ control' = "register"
  /\ UNCHANGED <<exCtx, inits, released, threadVars, askVars, completeVars, status, lock, fault>>

\* sendInitialRegister() locks the context,
LockToRegister ==
  /\ Alive /\ control = "register" /\ lock = None
  /\ lock' = "control"
  /\ control' = "build"
  /\ UNCHANGED <<exCtx, inits, running, released, threadVars, askVars, completeVars, status, fault>>

\* and unlocks it at its end, but not when the REGISTER cannot be built.
SendInitialRegister ==
  /\ Alive /\ control = "build"
  /\ \/ lock' = None /\ status' = "REGISTERING"
     \/ lock' = "lost" /\ UNCHANGED status
  /\ control' = "launch"
  /\ UNCHANGED <<exCtx, inits, running, released, threadVars, askVars, completeVars, fault>>

Launch ==
  /\ Alive /\ control = "launch"
  /\ thread' = "head"
  /\ control' = "idle"
  /\ UNCHANGED <<exCtx, inits, running, released, held, events, askVars, completeVars, status, lock,
                 fault>>

\* A defect: stop() holds the context's lock while it joins the event thread.
StopLocking ==
  /\ Idle /\ running /\ lock = None
  /\ running' = FALSE
  /\ lock' = "control"
  /\ control' = "join"
  /\ UNCHANGED <<exCtx, inits, released, threadVars, askVars, completeVars, status, fault>>

\* stop(), to which the destructor adds nothing: the event thread owns the client, too.
Stop ==
  /\ Idle /\ running
  /\ running' = FALSE
  /\ control' = "join"
  /\ UNCHANGED <<exCtx, inits, released, threadVars, askVars, completeVars, status, lock, fault>>

\* A defect: stop() does not wait for the event thread.
JoinNobody ==
  /\ Alive /\ control = "join"
  /\ control' = "quit"
  /\ UNCHANGED <<exCtx, inits, running, released, threadVars, askVars, completeVars, status, lock,
                 fault>>

Join ==
  /\ Alive /\ control = "join" /\ thread = "exited"
  /\ thread' = "none"
  /\ control' = "quit"
  /\ UNCHANGED <<exCtx, inits, running, released, held, events, askVars, completeVars, status, lock,
                 fault>>

\* The rest of stop(), which takes no lock. eXosip_quit() waits for eXosip's thread,
\* which waits for a lost lock; a thread that holds the lock loses the context.
Quit ==
  /\ Alive /\ control = "quit" /\ lock # "lost"
  /\ exCtx' = 0
  /\ control' = "idle"
  /\ events' = <<>>
  /\ query' = [q \in Queries |-> IF query[q] = "queued" THEN "lost" ELSE query[q]]
  /\ fault' = IF lock \in Queries THEN lock ELSE fault
  /\ UNCHANGED <<inits, running, released, thread, held, acknowledged, completeVars, status, lock>>

Release ==
  /\ Idle /\ ~running
  /\ released' = TRUE
  /\ UNCHANGED <<exCtx, inits, running, control, threadVars, askVars, completeVars, status, lock, fault>>

-----------------------------------------------------------------------------
(* eXosip's thread.                                                        *)

Bring(event) ==
  /\ Alive /\ exCtx # 0 /\ lock = None
  /\ Len(events) < MaxEvents
  /\ events' = Append(events, event)
  /\ UNCHANGED <<controlVars, thread, held, acknowledged, completeVars, status, lock, fault>>

BringQuery(q) ==
  /\ query[q] = "unsent"
  /\ query' = [query EXCEPT ![q] = "queued"]
  /\ Bring(q)

\* The answers to the REGISTER and its refreshs.
BringReply(reply) ==
  /\ status # "INIT"
  /\ UNCHANGED query
  /\ Bring(reply)

-----------------------------------------------------------------------------
(* The event thread.                                                       *)

At(place) == Alive /\ thread = place

GoTo(place) == thread' = place /\ UNCHANGED <<controlVars, fault, lock>>

\* Building and sending under the lock, in one step.
UseContext(place) ==
  /\ lock = None
  /\ fault' = IF exCtx = 0 THEN "event" ELSE fault
  /\ thread' = place
  /\ UNCHANGED <<controlVars, lock>>

LoopHead ==
  /\ At("head")
  /\ GoTo(IF running THEN "wait" ELSE "exited")
  /\ UNCHANGED <<held, events, askVars, completeVars, status>>

\* An event, or none after a second. Only of a registered client a keepalive, a
\* refresh or a position may be due then.
WaitEvent ==
  /\ At("wait")
  /\ \/ events # <<>> /\ held' = Head(events) /\ events' = Tail(events)
     \/ events = <<>> /\ held' = None /\ UNCHANGED events
  /\ \/ status = "REGISTERED" /\ GoTo("checks")
     \/ GoTo(IF held' = None THEN "head" ELSE "default")
  /\ UNCHANGED <<askVars, completeVars, status>>

Checks ==
  /\ At("checks")
  /\ UseContext(IF held = None THEN "head" ELSE "default")
  /\ UNCHANGED <<held, events, askVars, completeVars, status>>

DefaultAction ==
  /\ At("default")
  /\ UseContext("handle")
  /\ UNCHANGED <<held, events, askVars, completeVars, status>>

\* A defect: the application is asked before the query is acknowledged.
HandleQueryAsking ==
  /\ At("handle") /\ held \in Queries
  /\ query' = [query EXCEPT ![held] = IF held \in Handled THEN "asked" ELSE "taken"]
  /\ GoTo("ack")
  /\ UNCHANGED <<held, events, acknowledged, completeVars, status>>

HandleQuery ==
  /\ At("handle") /\ held \in Queries
  /\ query' = [query EXCEPT ![held] = "taken"]
  /\ GoTo("ack")
  /\ UNCHANGED <<held, events, acknowledged, completeVars, status>>

\* The success of a REGISTER ends in checkKeepAlive().
HandleReply ==
  /\ At("handle") /\ held \in Replies
  /\ held' = None
  /\ \/ held = "regOk" /\ status' = "REGISTERED" /\ (GoTo("checks") \/ GoTo("head"))
     \/ held = "regFail" /\ status' = "UNREGISTER" /\ GoTo("head")
  /\ UNCHANGED <<events, askVars, completeVars>>

\* The 200 of handleCatalogQuery() and handleDeviceInfoQuery().
Acknowledge ==
  /\ At("ack")
  /\ UseContext("ask")
  /\ acknowledged' = acknowledged \cup {held}
  /\ UNCHANGED <<held, events, query, completeVars, status>>

\* The callback, if there is one; it may complete the query itself.
Ask ==
  /\ At("ask")
  /\ IF held \in Handled
     THEN query' = [query EXCEPT ![held] = "asked"] /\ (GoTo("reply") \/ GoTo("head"))
     ELSE UNCHANGED query /\ GoTo("head")
  /\ held' = IF thread' = "reply" THEN held ELSE None
  /\ UNCHANGED <<events, acknowledged, completeVars, status>>

\* sendMessage(): the response goes to a platform the client is registered with.
Respond(q) == responded' = IF status = "REGISTERED" THEN responded \cup {q} ELSE responded

Reply ==
  /\ At("reply")
  /\ UseContext("head")
  /\ Respond(held)
  /\ held' = None
  /\ UNCHANGED <<events, askVars, completing, completions, status>>

-----------------------------------------------------------------------------
(* An application thread completes a query. A client that is gone is not   *)
(* used; one in use stays.                                                 *)

Complete(q) ==
  /\ Alive /\ ~released
  /\ query[q] = "asked" /\ completing[q] = "no" /\ completions < MaxCompletions
  /\ completions' = completions + 1
  /\ completing' = [completing EXCEPT ![q] = "lock"]
  /\ UNCHANGED <<controlVars, threadVars, askVars, responded, status, lock, fault>>

\* sendMessage() locks before it asks whether the client is registered.
LockToSend(q) ==
  /\ Alive /\ completing[q] = "lock"
  /\ \/ /\ exCtx # 0 /\ lock = None
        /\ lock' = q
        /\ completing' = [completing EXCEPT ![q] = "send"]
        /\ UNCHANGED fault
     \/ /\ exCtx = 0
        /\ fault' = q
        /\ UNCHANGED <<lock, completing>>
  /\ UNCHANGED <<controlVars, threadVars, askVars, responded, completions, status>>

\* A defect: sendMessage() of an unregistered client returns with the lock.
SendMessageLocked(q) ==
  /\ Alive /\ completing[q] = "send"
  /\ Respond(q)
  /\ lock' = IF status = "REGISTERED" THEN None ELSE lock
  /\ completing' = [completing EXCEPT ![q] = "no"]
  /\ UNCHANGED <<controlVars, threadVars, askVars, completions, status, fault>>

SendMessage(q) ==
  /\ Alive /\ completing[q] = "send"
  /\ Respond(q)
  /\ lock' = None
  /\ completing' = [completing EXCEPT ![q] = "no"]
  /\ UNCHANGED <<controlVars, threadVars, askVars, completions, status, fault>>

-----------------------------------------------------------------------------

Starting == LockToRegister \/ SendInitialRegister \/ Launch
Stopping == Join \/ Quit
EventThread ==
  \/ LoopHead \/ WaitEvent \/ Checks \/ DefaultAction \/ HandleQuery \/ HandleReply
  \/ Acknowledge \/ Ask \/ Reply
Completing(q) == LockToSend(q) \/ SendMessage(q)

Next ==
  \/ InitContext \/ StartRegister \/ Stop \/ Release
  \/ Starting \/ Stopping \/ EventThread
  \/ \E reply \in Replies : BringReply(reply)
  \/ \E q \in Queries : BringQuery(q) \/ Complete(q) \/ Completing(q)

\* The threads are scheduled, callbacks return. Completions are finitely many, so
\* that no thread waits for the lock for ever without another holding it for ever.
Fairness ==
  /\ WF_vars(Starting) /\ WF_vars(Stopping) /\ WF_vars(EventThread)
  /\ \A q \in Queries : WF_vars(Completing(q))

Spec == Init /\ [][Next]_vars /\ Fairness

-----------------------------------------------------------------------------
(* Properties.                                                             *)

\* Joining before quitting is enough for the client's own threads: a context that
\* does not exist is used only by an application thread that completes a query
\* during or after stop().
OnlyLateCompletionsFault == fault # "event"

\* The platform gets the response to a query only after the query's 200.
RespondedAfterAcknowledged == responded \subseteq acknowledged

Ended == lock = "lost" \/ ~Alive

\* stop() returns, in whatever part of a query, a check or a completion it comes,
\* unless sendInitialRegister() had kept the lock (Gb28181Client.cpp:161).
StopReturns == control = "join" ~> control = "idle" \/ Ended

\* A query that reached a client that runs is acknowledged, whatever the application
\* does with other queries, unless the client is stopped.
QueryAcknowledged ==
  \A q \in Queries :
    running /\ query[q] = "queued" ~> q \in acknowledged \/ ~running \/ Ended

=============================================================================
