------------------------------ MODULE SipBCalls ------------------------------
(***************************************************************************)
(* sipB::SipBClient as the answering side of calls: an INVITE creates an   *)
(* RtpSession and is answered with its port, the ACK opens the session's   *)
(* socket and tells the application to start, and CANCEL, BYE or an error  *)
(* of the socket close the call.                                           *)
(*                                                                         *)
(* The calls of the platform and eXosip's dialogs are the environment. A   *)
(* call id (cid) names the call and the closure a broken socket posts with *)
(* async(): Tasks are the call ids, which eXosip never reuses.             *)
(***************************************************************************)
EXTENDS SipBLoop

CONSTANTS
  SessionNames,  \* the s= lines a platform sends: "Play", "Talk", ...
  MaxPort,       \* bound: RTP ports are 1..MaxPort
  MaxEvents,     \* bound: events queued in the eXosip context
  MaxAcks        \* bound: ACKs that reach eXosip for one call

\* An offer that is refused: no body, a body RtpSession::create() cannot use, or
\* no s= line.
BadOffer == "bad"

ASSUME CallsAssumption ==
  /\ BadOffer \notin SessionNames
  /\ MaxPort \in Nat \ {0}
  /\ MaxEvents \in Nat
  /\ MaxAcks \in Nat

Calls == Tasks
Ports == 1..MaxPort
NoPort == 0
EventTypes == {"invite", "ack", "cancelled", "closed", "released"}
CallStates == {"new", "ringing", "answered", "confirmed", "over"}

VARIABLES
  events,    \* eXosip's event queue
  call,      \* per cid, the call as eXosip sees it
  offer,     \* per cid, the session name offered, or how the offer is bad
  acks,      \* per cid, the ACKs received
  silent,    \* the calls that ended without an event the client handles
  sessions,  \* the keys of _active_sessions
  port,      \* per session, _local_port
  client,    \* the sessions that have created _client
  socket,    \* the sessions whose socket is alive
  rtpPort,   \* _rtp_port
  started,   \* per cid, the calls of the application's start callback
  stopped    \* per cid, the calls of its stop callback

envVars == <<call, offer, acks, silent>>
sessionVars == <<sessions, port, client, socket, rtpPort, started, stopped>>
vars == <<loopVars, events, envVars, sessionVars>>

TypeOK ==
  /\ LoopTypeOK
  /\ events \in Seq([type : EventTypes, cid : Calls])
  /\ call \in [Calls -> CallStates]
  /\ offer \in [Calls -> SessionNames \cup {BadOffer}]
  /\ acks \in [Calls -> 0..MaxAcks]
  /\ silent \subseteq Calls
  /\ sessions \subseteq Calls
  /\ port \in [Calls -> Ports \cup {NoPort}]
  /\ client \subseteq Calls
  /\ socket \subseteq Calls
  /\ rtpPort \in Ports
  /\ started \in [Calls -> Nat]
  /\ stopped \in [Calls -> Nat]

Init ==
  /\ LoopInit
  /\ events = <<>>
  /\ call = [c \in Calls |-> "new"]
  /\ offer \in [Calls -> SessionNames \cup {BadOffer}]
  /\ acks = [c \in Calls |-> 0]
  /\ silent = {} /\ sessions = {} /\ client = {} /\ socket = {}
  /\ port = [c \in Calls |-> NoPort]
  /\ rtpPort = 1
  /\ started = [c \in Calls |-> 0]
  /\ stopped = [c \in Calls |-> 0]

Incr(count, c) == [count EXCEPT ![c] = @ + 1]
Event(type, c) == [type |-> type, cid |-> c]

-----------------------------------------------------------------------------
(* The control thread: init(), startRegister(), stop().                    *)

InitClient == InitContext /\ UNCHANGED <<events, envVars, sessionVars>>

StartRegister == StartLoop /\ UNCHANGED <<events, envVars, sessionVars>>

StopCalled == StopBegin /\ UNCHANGED <<events, envVars, sessionVars>>

\* eXosip_quit() drops the calls and the events nobody took. _active_sessions
\* is not touched.
StopQuits ==
  /\ StopEnd
  /\ events' = <<>>
  /\ silent' = silent \cup {c \in Calls : call[c] # "new"}
  /\ call' = [c \in Calls |-> IF call[c] = "new" THEN "new" ELSE "over"]
  /\ UNCHANGED <<offer, acks, sessionVars>>

-----------------------------------------------------------------------------
(* The platform and eXosip.                                                *)

\* The peer takes call c from one of the states from to state to, and eXosip
\* queues an event.
PeerStep(c, from, to, type) ==
  /\ Alive /\ exCtx # 0
  /\ call[c] \in from
  /\ Len(events) < MaxEvents
  /\ call' = [call EXCEPT ![c] = to]
  /\ events' = Append(events, Event(type, c))
  /\ UNCHANGED <<loopVars, offer, sessionVars>>

Invite(c) ==
  PeerStep(c, {"new"}, "ringing", "invite") /\ UNCHANGED <<acks, silent>>

\* A retransmitted 200 is acknowledged again.
Ack(c) ==
  /\ acks[c] < MaxAcks
  /\ PeerStep(c, {"answered", "confirmed"}, "confirmed", "ack")
  /\ acks' = Incr(acks, c)
  /\ UNCHANGED silent

Cancel(c) ==
  PeerStep(c, {"ringing"}, "over", "cancelled") /\ UNCHANGED <<acks, silent>>

Bye(c) ==
  PeerStep(c, {"answered", "confirmed"}, "over", "closed") /\ UNCHANGED <<acks, silent>>

\* eXosip gives up a call whose 200 was never acknowledged.
Release(c) ==
  /\ PeerStep(c, {"answered"}, "over", "released")
  /\ silent' = silent \cup {c}
  /\ UNCHANGED acks

-----------------------------------------------------------------------------
(* The sockets of the sessions, on the poller threads.                     *)

\* on_error of onEventInviteAck(), called by the socket as it closes.
SocketError(w, c) ==
  /\ c \in socket
  /\ AsyncTest(w, c)
  /\ socket' = socket \ {c}
  /\ UNCHANGED <<events, envVars, sessions, port, client, rtpPort, started, stopped>>

Push(w) == AsyncPush(w) /\ UNCHANGED <<events, envVars, sessionVars>>

-----------------------------------------------------------------------------
(* The event thread.                                                       *)

\* eXosip_call_terminate(): BYE if the dialog is established, else an error.
Terminate(c) ==
  call' = IF call[c] \in {"answered", "confirmed"}
          THEN [call EXCEPT ![c] = "over"]
          ELSE call

\* eXosip_call_send_answer() with a final status: it fails when the call was
\* cancelled, and it may fail otherwise.
FinalAnswer(c, state) ==
  \/ call[c] = "ringing" /\ call' = [call EXCEPT ![c] = state]
  \/ UNCHANGED call

\* eXosip_find_free_port() from _rtp_port on: a port no socket is bound to, or
\* none. The ports other programs hold decide which.
Bound(p) == \E c \in socket : port[c] = p
FoundPort(p) ==
  \/ p \in Ports /\ p >= rtpPort /\ ~Bound(p)
  \/ p = NoPort

\* A defect: the port eXosip found is not tested.
AcceptableAnyPort(c, p) ==
  /\ offer[c] # BadOffer
  /\ \A d \in sessions : offer[d] # offer[c]

\* A defect: sessions of the same type are not looked for.
AcceptableAnyType(c, p) ==
  /\ offer[c] # BadOffer
  /\ p # NoPort

\* The tests of onEventInvite(), in the order of its early returns.
Acceptable(c, p) ==
  /\ offer[c] # BadOffer
  /\ \A d \in sessions : offer[d] # offer[c]
  /\ p # NoPort

\* onEventInvite(): the session stays although the 200 may not have been sent.
HandleInvite(c) ==
  \E p \in Ports \cup {NoPort} :
    /\ FoundPort(p)
    /\ \/ /\ Acceptable(c, p)
          /\ rtpPort' = p
          /\ port' = [port EXCEPT ![c] = p]
          /\ sessions' = sessions \cup {c}
          /\ FinalAnswer(c, "answered")
          /\ UNCHANGED <<client, socket, started, stopped>>
       \/ /\ ~Acceptable(c, p)
          /\ FinalAnswer(c, "over")
          /\ UNCHANGED sessionVars

\* RtpSession::onStart() on a session without _client. A UDP socket that cannot
\* be bound calls on_error before onStart() returns; async() is then called on
\* the event thread itself.
OpenSocket(c) ==
  /\ client' = client \cup {c}
  /\ \/ socket' = socket \cup {c} /\ UNCHANGED runList
     \/ runList' = (IF running THEN Append(runList, c) ELSE runList) /\ UNCHANGED socket

\* onEventInviteAck(): onStart(), then onStartStream() whatever onStart() did. A
\* second onStart() throws, and nothing on the event thread catches.
HandleAck(c) ==
  \/ /\ c \notin sessions
     /\ Terminate(c)
     /\ UNCHANGED <<runList, fault, sessionVars>>
  \/ /\ c \in sessions \ client
     /\ OpenSocket(c)
     /\ started' = Incr(started, c)
     /\ UNCHANGED <<call, fault, sessions, port, rtpPort, stopped>>
  \/ /\ c \in client
     /\ fault' = "exception"
     /\ UNCHANGED <<call, runList, sessionVars>>

\* A defect: the session is erased before it is looked up.
CloseSessionUntold(c) ==
  /\ sessions' = sessions \ {c}
  /\ client' = client \ {c}
  /\ socket' = socket \ {c}
  /\ stopped' = IF c \in sessions' THEN Incr(stopped, c) ELSE stopped
  /\ UNCHANGED <<port, rtpPort, started>>

\* closeCall(): the application is told to stop, and the session is destroyed.
CloseSession(c) ==
  /\ sessions' = sessions \ {c}
  /\ client' = client \ {c}
  /\ socket' = socket \ {c}
  /\ stopped' = IF c \in sessions THEN Incr(stopped, c) ELSE stopped
  /\ UNCHANGED <<port, rtpPort, started>>

\* A defect: a cancelled call is left to the default branch.
ProcessEventNoCancel(e) ==
  \/ e.type = "invite" /\ HandleInvite(e.cid) /\ UNCHANGED <<runList, fault>>
  \/ e.type = "ack" /\ HandleAck(e.cid)
  \/ e.type = "closed" /\ CloseSession(e.cid) /\ UNCHANGED <<call, runList, fault>>
  \/ /\ e.type \in {"cancelled", "released"}
     /\ UNCHANGED <<call, runList, fault, sessionVars>>

\* processEvent(); a released call is left to the default branch.
ProcessEvent(e) ==
  \/ e.type = "invite" /\ HandleInvite(e.cid) /\ UNCHANGED <<runList, fault>>
  \/ e.type = "ack" /\ HandleAck(e.cid)
  \/ /\ e.type \in {"cancelled", "closed"}
     /\ CloseSession(e.cid)
     /\ UNCHANGED <<call, runList, fault>>
  \/ e.type = "released" /\ UNCHANGED <<call, runList, fault, sessionVars>>

PollEvent ==
  /\ Polled
  /\ events # <<>>
  /\ events' = Tail(events)
  /\ ProcessEvent(Head(events))
  /\ UNCHANGED <<offer, acks, silent>>

PollTimeout ==
  /\ Polled
  /\ events = <<>>
  /\ UNCHANGED <<runList, fault, events, envVars, sessionVars>>

Collect == TakeTasks /\ UNCHANGED <<events, envVars, sessionVars>>

\* A defect: after its BYE the client waits for an event that never comes.
RunClosureByeOnly ==
  /\ TaskStep
  /\ Terminate(Head(batch))
  /\ UNCHANGED <<events, offer, acks, silent, sessionVars>>

\* closeCall() for an error: BYE first.
RunClosure ==
  /\ TaskStep
  /\ Terminate(Head(batch))
  /\ CloseSession(Head(batch))
  /\ UNCHANGED <<events, offer, acks, silent>>

LoopEnd == BatchDone /\ UNCHANGED <<events, envVars, sessionVars>>

LoopTest == LoopHead /\ UNCHANGED <<events, envVars, sessionVars>>

-----------------------------------------------------------------------------

EventThread ==
  LoopTest \/ PollEvent \/ PollTimeout \/ Collect \/ RunClosure \/ LoopEnd

Control == InitClient \/ StartRegister \/ StopCalled \/ StopQuits

Peer == \E c \in Calls : Invite(c) \/ Ack(c) \/ Cancel(c) \/ Bye(c) \/ Release(c)

Poller ==
  \/ \E w \in Workers, c \in Calls : SocketError(w, c)
  \/ \E w \in Workers : Push(w)

Next == EventThread \/ Control \/ Peer \/ Poller

\* The threads run; the platform and the network owe nothing.
Fairness ==
  /\ WF_vars(EventThread)
  /\ WF_vars(StopQuits)
  /\ \A w \in Workers : WF_vars(Push(w))

Spec == Init /\ [][Next]_vars /\ Fairness

-----------------------------------------------------------------------------
(* Properties.                                                             *)

Queued(types, c) == \E i \in 1..Len(events) : events[i].type \in types /\ events[i].cid = c

\* "only one session of the same type may exist" (SipBClient.cpp:1010), over
\* every order of INVITEs, cancellations, errors and restarts.
OneSessionPerType == \A c, d \in sessions : c # d => offer[c] # offer[d]

\* The application's media follows the session: it is started at most once and
\* stopped at most once per call, whatever is retransmitted or run again; no
\* stream outlives its session; and no stop is lost for one that was started.
MediaFollowsSession ==
  \A c \in Calls :
    /\ started[c] <= 1 /\ stopped[c] <= 1
    /\ c \in sessions => stopped[c] = 0
    /\ started[c] > stopped[c] => c \in sessions

\* A session outlives its call only until the event that ends it is processed,
\* also when CANCEL overtakes the handling of the INVITE. The exceptions are the
\* calls whose end the client is not told of or ignores.
NoStaleSession ==
  \A c \in sessions : call[c] = "over" => c \in silent \/ Queued({"cancelled", "closed"}, c)

\* The abstract state of the calls: a session is open, and plays from the call of
\* the start callback on; a call is closed once the stop callback was called.
Phase ==
  [c \in Calls |-> IF c \in sessions THEN (IF started[c] = 0 THEN "open" ELSE "playing")
                  ELSE IF stopped[c] = 0 THEN "idle" ELSE "closed"]

Promise == INSTANCE CallPromise WITH phase <- Phase

\* The client does what CallPromise says: sessions of one type follow each other
\* and each is started and stopped once, over every interleaving of the peer, the
\* sockets, the event thread and stop().
KeepsCallPromise == Promise!Spec

\* An ended call is cleared: its session goes, unless stop() comes first.
EndedIsCleared ==
  \A c \in Calls :
    (c \in sessions /\ Queued({"cancelled", "closed"}, c)) ~> (c \notin sessions \/ ~running \/ ~Alive)

\* A broken socket closes the call, once its closure has been accepted.
BrokenIsCleared ==
  \A c \in Calls :
    (\E w \in Workers : posting[w] = c) ~> (c \notin sessions \/ ~running \/ ~Alive)

-----------------------------------------------------------------------------
(* What a comment of the source claims and the code does not do.           *)

\* stop() "stops registering, sends the unregister, cleans up the resources"
\* (SipBClient.h:30): no session is left when it has returned.
StopReleasesSessions == exCtx = 0 => sessions = {}

=============================================================================
