----------------------------- MODULE SipBMessages -----------------------------
(***************************************************************************)
(* sipB::SipBClient as the device that registers and answers the MESSAGE   *)
(* requests of the platform: resource, history-alarm and history-video     *)
(* queries, PTZ control and snapshots.                                     *)
(*                                                                         *)
(* A query is answered later: its event is kept in _wait_answer_event, the *)
(* application gets a completion callback, and the closure the callback    *)
(* posts with async() answers and frees the event on the event thread.     *)
(* The closure posted for a request is named by the request: Tasks are the *)
(* transaction ids (tid), which eXosip never reuses within a process.      *)
(*                                                                         *)
(* Time is left out: a refresh REGISTER may be due in any iteration.       *)
(***************************************************************************)
EXTENDS SipBLoop

CONSTANTS
  MaxEvents,       \* bound: events queued in the eXosip context
  MaxCompletions   \* bound: calls of one request's completion callback

ASSUME MessagesAssumption ==
  /\ MaxEvents \in Nat
  /\ MaxCompletions \in Nat

Requests == Tasks
RegReplies == {"regOk", "reg401", "regFail"}
ClientStatus == {"UN_INIT", "INIT", "REGISTERING", "REGISTERED", "UNREGISTER"}
Kinds == {"query", "snap", "other"}
Callbacks == {"query", "snap", "report"}

\* A NOTIFY counter stops counting here: "more than once per completion".
Many == MaxCompletions + 1

ASSUME EventNames == Requests \cap RegReplies = {}

VARIABLES
  events,           \* eXosip's event queue: tids of MESSAGEs and REGISTER replies
  status,           \* _status
  regPending,       \* a REGISTER of this client is not yet answered
  callbacks,        \* the callbacks the application set before registering
  kind,             \* per tid, the request that arrived, or "none"
  ctxOf,            \* per tid, the context it arrived on
  handled,          \* the requests processEvent() has been through
  waiting,          \* the keys of _wait_answer_event
  asked,            \* the requests whose completion callback the application holds
  completions,      \* per tid, how often the application called it
  answered,         \* per tid, the 200 answers sent
  freed,            \* per tid, the calls of eXosip_event_free()
  notified,         \* per tid, the Snapshot_Notify sent, counted up to Many
  resourceReported, \* _resource_reported
  reportHeld        \* the application holds the callback of a resource report

regVars == <<status, regPending, resourceReported, reportHeld>>
arrivalVars == <<kind, ctxOf>>
requestVars == <<handled, waiting, asked, answered, freed, notified>>
vars == <<loopVars, events, callbacks, completions, regVars, arrivalVars, requestVars>>

TypeOK ==
  /\ LoopTypeOK
  /\ events \in Seq(Requests \cup RegReplies)
  /\ status \in ClientStatus
  /\ regPending \in BOOLEAN
  /\ callbacks \subseteq Callbacks
  /\ kind \in [Requests -> Kinds \cup {"none"}]
  /\ ctxOf \in [Requests -> 0..MaxInits]
  /\ handled \subseteq Requests
  /\ waiting \subseteq Requests
  /\ asked \subseteq Requests
  /\ completions \in [Requests -> 0..MaxCompletions]
  /\ answered \in [Requests -> Nat]
  /\ freed \in [Requests -> Nat]
  /\ notified \in [Requests -> 0..Many]
  /\ resourceReported \in BOOLEAN
  /\ reportHeld \in BOOLEAN

Init ==
  /\ LoopInit
  /\ events = <<>>
  /\ status = "UN_INIT"
  /\ regPending = FALSE
  /\ callbacks \in SUBSET Callbacks
  /\ kind = [t \in Requests |-> "none"]
  /\ ctxOf = [t \in Requests |-> 0]
  /\ handled = {} /\ waiting = {} /\ asked = {}
  /\ completions = [t \in Requests |-> 0]
  /\ answered = [t \in Requests |-> 0]
  /\ freed = [t \in Requests |-> 0]
  /\ notified = [t \in Requests |-> 0]
  /\ resourceReported = FALSE
  /\ reportHeld = FALSE

Incr(count, t) == [count EXCEPT ![t] = @ + 1]

-----------------------------------------------------------------------------
(* The control thread: init(), startRegister(), stop().                    *)

InitClient ==
  /\ InitContext
  /\ status' = "INIT"
  /\ UNCHANGED <<events, regPending, callbacks, completions, resourceReported,
                 reportHeld, arrivalVars, requestVars>>

\* sendInitialRegister() leaves _status alone when the message cannot be built.
StartRegister ==
  /\ StartLoop
  /\ \/ status' = "REGISTERING" /\ regPending' \in {TRUE, regPending}
     \/ UNCHANGED <<status, regPending>>
  /\ UNCHANGED <<events, callbacks, completions, resourceReported, reportHeld,
                 arrivalVars, requestVars>>

StopCalled ==
  /\ StopBegin
  /\ UNCHANGED <<events, callbacks, completions, regVars, arrivalVars, requestVars>>

\* eXosip_quit() frees the events nobody took. _status is not touched.
StopQuits ==
  /\ StopEnd
  /\ events' = <<>>
  /\ regPending' = FALSE
  /\ UNCHANGED <<status, callbacks, completions, resourceReported, reportHeld,
                 arrivalVars, requestVars>>

-----------------------------------------------------------------------------
(* The platform and eXosip.                                                *)

Arrive(t, k) ==
  /\ Alive /\ exCtx # 0
  /\ kind[t] = "none"
  /\ Len(events) < MaxEvents
  /\ kind' = [kind EXCEPT ![t] = k]
  /\ ctxOf' = [ctxOf EXCEPT ![t] = exCtx]
  /\ events' = Append(events, t)
  /\ UNCHANGED <<loopVars, callbacks, completions, regVars, requestVars>>

RegisterReply(reply) ==
  /\ Alive /\ exCtx # 0
  /\ regPending
  /\ Len(events) < MaxEvents
  /\ regPending' = FALSE
  /\ events' = Append(events, reply)
  /\ UNCHANGED <<loopVars, callbacks, completions, status, resourceReported,
                 reportHeld, arrivalVars, requestVars>>

-----------------------------------------------------------------------------
(* The application.                                                        *)

\* A query's or a snapshot's completion callback: async() of the closure.
Complete(w, t) ==
  /\ t \in asked
  /\ completions[t] < MaxCompletions
  /\ AsyncTest(w, t)
  /\ completions' = Incr(completions, t)
  /\ UNCHANGED <<events, callbacks, regVars, arrivalVars, requestVars>>

Push(w) ==
  /\ AsyncPush(w)
  /\ UNCHANGED <<events, callbacks, completions, regVars, arrivalVars, requestVars>>

\* The callback of sendResourceReport(), on the application's own thread: once
\* isRegistered() has passed, sendMessage() locks the context.
InvokeReport ==
  /\ Alive
  /\ reportHeld
  /\ status = "REGISTERED"
  /\ reportHeld' = FALSE
  /\ fault' = IF exCtx = 0 THEN "nullContext" ELSE fault
  /\ UNCHANGED <<exCtx, inits, running, thread, stopping, posting, runList, batch,
                 events, status, regPending, callbacks, completions,
                 resourceReported, arrivalVars, requestVars>>

-----------------------------------------------------------------------------
(* The event thread.                                                       *)

\* sendMessageResponse(event): the answer may fail to build or to send, and it
\* does when the transaction belongs to a context that is gone.
Answer(t) ==
  \/ ctxOf[t] = exCtx /\ answered' = Incr(answered, t)
  \/ UNCHANGED answered

\* The three queries and PTZ control: the event is kept for the application's
\* answer, or the request is answered at once if no callback is set.
HandleQuery(t) ==
  /\ kind[t] = "query"
  /\ IF "query" \in callbacks
     THEN waiting' = waiting \cup {t} /\ UNCHANGED answered
     ELSE Answer(t) /\ UNCHANGED waiting

\* handleCameraSnapRequest(): the request is answered before the snapshot.
HandleSnap(t) ==
  kind[t] = "snap" /\ Answer(t) /\ UNCHANGED waiting

\* handleMessage(); "other" is a body or an EventType it does not know, which
\* nobody answers.
HandleMessage(t) ==
  /\ \/ HandleQuery(t)
     \/ HandleSnap(t)
     \/ kind[t] = "other" /\ UNCHANGED <<waiting, answered>>
  /\ asked' = IF kind[t] \in callbacks THEN asked \cup {t} ELSE asked

\* A defect: every event is freed at the end of processEvent().
ProcessMessageFreeing(t) ==
  /\ HandleMessage(t)
  /\ handled' = handled \cup {t}
  /\ freed' = Incr(freed, t)
  /\ UNCHANGED <<notified, regVars>>

\* processEvent() of EXOSIP_MESSAGE_NEW; its last lines free the event unless it
\* was kept.
ProcessMessage(t) ==
  /\ HandleMessage(t)
  /\ handled' = handled \cup {t}
  /\ freed' = IF t \in waiting' THEN freed ELSE Incr(freed, t)
  /\ UNCHANGED <<notified, regVars>>

\* processEvent() of EXOSIP_REGISTRATION_SUCCESS and _FAILURE. The default
\* action of eXosip may send a REGISTER with credentials after a 401.
ProcessRegisterReply(reply) ==
  /\ CASE reply = "regOk" ->
            /\ status' = "REGISTERED"
            /\ resourceReported' = TRUE
            /\ reportHeld' = (reportHeld \/ (~resourceReported /\ "report" \in callbacks))
            /\ UNCHANGED regPending
       [] reply = "reg401" ->
            /\ regPending' \in {TRUE, regPending}
            /\ UNCHANGED <<status, resourceReported, reportHeld>>
       [] reply = "regFail" ->
            /\ status' = "UNREGISTER"
            /\ resourceReported' = FALSE
            /\ UNCHANGED <<regPending, reportHeld>>
  /\ UNCHANGED requestVars

PollEvent ==
  /\ Polled
  /\ events # <<>>
  /\ events' = Tail(events)
  /\ \/ Head(events) \in Requests /\ ProcessMessage(Head(events))
     \/ Head(events) \in RegReplies /\ ProcessRegisterReply(Head(events))
  /\ UNCHANGED <<runList, fault, callbacks, completions, arrivalVars>>

PollTimeout ==
  /\ Polled
  /\ events = <<>>
  /\ UNCHANGED <<runList, fault, events, callbacks, completions, regVars,
                 arrivalVars, requestVars>>

\* checkRefreshRegister() and the copy of the run list.
Collect ==
  /\ TakeTasks
  /\ IF status = "REGISTERED" THEN regPending' \in {TRUE, regPending}
                              ELSE UNCHANGED regPending
  /\ UNCHANGED <<events, callbacks, completions, status, resourceReported,
                 reportHeld, arrivalVars, requestVars>>

\* A defect: the entry is not erased.
RunAnswerKeeping(t) ==
  /\ UNCHANGED <<waiting, notified>>
  /\ IF t \in waiting
     THEN Answer(t) /\ freed' = Incr(freed, t)
     ELSE UNCHANGED <<answered, freed>>

\* sendMessageResponse(tid): operator[] and erase() on _wait_answer_event.
RunAnswer(t) ==
  /\ waiting' = waiting \ {t}
  /\ IF t \in waiting
     THEN Answer(t) /\ freed' = Incr(freed, t)
     ELSE UNCHANGED <<answered, freed>>
  /\ UNCHANGED notified

\* sendMessage(NOTIFY)
RunNotify(t) ==
  /\ \/ status = "REGISTERED" /\ notified[t] < Many /\ notified' = Incr(notified, t)
     \/ UNCHANGED notified
  /\ UNCHANGED <<waiting, answered, freed>>

RunClosure ==
  /\ TaskStep
  /\ \/ kind[Head(batch)] = "query" /\ RunAnswer(Head(batch))
     \/ kind[Head(batch)] = "snap" /\ RunNotify(Head(batch))
  /\ UNCHANGED <<events, callbacks, completions, handled, asked, regVars, arrivalVars>>

LoopEnd ==
  /\ BatchDone
  /\ UNCHANGED <<events, callbacks, completions, regVars, arrivalVars, requestVars>>

LoopTest ==
  /\ LoopHead
  /\ UNCHANGED <<events, callbacks, completions, regVars, arrivalVars, requestVars>>

-----------------------------------------------------------------------------

EventThread ==
  LoopTest \/ PollEvent \/ PollTimeout \/ Collect \/ RunClosure \/ LoopEnd

Control == InitClient \/ StartRegister \/ StopCalled \/ StopQuits

Peer ==
  \/ \E t \in Requests, k \in Kinds : Arrive(t, k)
  \/ \E reply \in RegReplies : RegisterReply(reply)

Application ==
  \/ \E w \in Workers, t \in Requests : Complete(w, t)
  \/ \E w \in Workers : Push(w)
  \/ InvokeReport

Next == EventThread \/ Control \/ Peer \/ Application

\* The threads run: the event thread, a worker inside async(), and the control
\* thread inside stop(). The platform and the application owe nothing.
Fairness ==
  /\ WF_vars(EventThread)
  /\ WF_vars(StopQuits)
  /\ \A w \in Workers : WF_vars(Push(w))

Spec == Init /\ [][Next]_vars /\ Fairness

-----------------------------------------------------------------------------
(* Properties.                                                             *)

\* The event of a request is freed at most once and never lost: once
\* processEvent() has been through it, it is either still a value of
\* _wait_answer_event or freed, however often its completion is called and its
\* closure run again.
EventOwnership ==
  \A t \in Requests :
    /\ freed[t] <= 1
    /\ t \in handled => (t \in waiting <=> freed[t] = 0)

\* A request is answered at most once, although the run list is never emptied
\* and every iteration runs every closure again (SipBClient.cpp:1071).
AnsweredOnce == \A t \in Requests : answered[t] <= 1

\* The event thread never uses a context that stop() has already quit: stop()
\* joins it first (SipBClient.cpp:110), and it is only started on a context.
EventThreadHasContext == thread # "none" => exCtx # 0

\* What a request waits for comes: once its closure is posted, its event leaves
\* _wait_answer_event, unless stop() is called or the process dies.
PostedIsReleased ==
  \A t \in Requests :
    (t \in waiting /\ \E w \in Workers : posting[w] = t)
      ~> (t \notin waiting \/ ~running \/ ~Alive)

\* The abstract state of the requests: the values of _wait_answer_event are held
\* for the application, all others that were processed are settled.
Phase ==
  [t \in Requests |-> IF t \in waiting THEN "held"
                     ELSE IF t \in handled THEN "settled" ELSE "new"]

Completed == {t \in Requests : completions[t] > 0}

Promise == INSTANCE RequestPromise WITH phase <- Phase, completed <- Completed

\* The client does what RequestPromise says: of all the threads, closures and
\* repetitions, the platform sees one answer at most, and an answer to a request
\* held for the application only after its completion was called.
KeepsRequestPromise == Promise!Spec

\* stop() returns: the loop ends its iteration, however long its run list is,
\* and the join completes.
StopReturns == stopping ~> (~stopping \/ ~Alive)

-----------------------------------------------------------------------------
(* What comments of the source claim and the code does not do.             *)

\* "take under the lock, run without it" (SipBClient.cpp:1068): every call of a
\* snapshot's completion sends at most one Snapshot_Notify.
NotifyOncePerSnapshot == \A t \in Requests : notified[t] <= completions[t]

=============================================================================
