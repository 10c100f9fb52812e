--------------------------- MODULE SipBCallsProofs ---------------------------
(***************************************************************************)
(* What SipBCalls promises for any number of calls, session types, ports,  *)
(* contexts and poller threads, and any length of the event queue.         *)
(***************************************************************************)
EXTENDS SipBCalls, TLAPS

\* A call nothing has been done about yet.
Fresh(c) ==
  c \notin sessions /\ c \notin client /\ started[c] = 0 /\ stopped[c] = 0

Invited(c) == Queued({"invite"}, c)

\* The INVITE of a call is the first thing the client hears of it, once.
InviteInv ==
  /\ \A c \in Calls : Invited(c) => call[c] \in {"ringing", "over"} /\ Fresh(c)
  /\ \A i, j \in 1..Len(events) :
       i < j /\ events[j].type = "invite" => events[i].cid # events[j].cid
  /\ \A c \in Calls : call[c] = "new" => Fresh(c) /\ ~Queued(EventTypes, c)

\* The application's start and stop, against the state of the session.
MediaInv ==
  /\ client \subseteq sessions
  /\ \A c \in Calls :
       /\ c \in sessions => stopped[c] = 0 /\ started[c] = IF c \in client THEN 1 ELSE 0
       /\ c \notin sessions => started[c] <= stopped[c] /\ stopped[c] <= 1

\* What ends a call is on its way as long as the client does not know of the end.
Ending(c) == c \in silent \/ Queued({"cancelled", "closed"}, c)

EndInv ==
  \A c \in Calls : call[c] = "over" /\ (c \in sessions \/ Invited(c)) => Ending(c)

IInv == TypeOK /\ OneSessionPerType /\ InviteInv /\ MediaInv /\ EndInv

-----------------------------------------------------------------------------

LEMMA IncrNat ==
  ASSUME NEW count \in [Calls -> Nat], NEW c \in Calls
  PROVE  Incr(count, c) \in [Calls -> Nat]
BY DEF Incr

LEMMA CallUpdate ==
  ASSUME call \in [Calls -> CallStates], NEW c \in Calls, NEW state \in CallStates,
         call' = [call EXCEPT ![c] = state]
  PROVE  /\ call' \in [Calls -> CallStates]
         /\ call'[c] = state
         /\ \A d \in Calls : d # c => call'[d] = call[d]
OBVIOUS

LEMMA InitInv == Init => IInv
<1> SUFFICES ASSUME Init PROVE IInv
  OBVIOUS
<1> USE LoopAssumption, CallsAssumption DEF Init, LoopInit, Calls
<1>1. running \in BOOLEAN /\ stopping \in BOOLEAN
  OBVIOUS
<1>2. LoopTypeOK
  BY <1>1 DEF LoopTypeOK, ThreadStates, Faults
<1>3. TypeOK
  BY <1>2 DEF TypeOK, CallStates, Ports, NoPort
<1>4. OneSessionPerType /\ InviteInv
  BY DEF OneSessionPerType, InviteInv, Fresh, Invited, Queued
<1>5. MediaInv /\ EndInv
  BY DEF MediaInv, EndInv, Invited, Queued
<1> QED BY <1>3, <1>4, <1>5 DEF IInv

-----------------------------------------------------------------------------

LEMMA TerminateType ==
  ASSUME TypeOK, NEW c \in Calls, Terminate(c) PROVE call' \in [Calls -> CallStates]
BY CallUpdate DEF TypeOK, Terminate, CallStates

LEMMA FinalAnswerType ==
  ASSUME TypeOK, NEW c \in Calls, NEW state \in CallStates, FinalAnswer(c, state)
  PROVE  call' \in [Calls -> CallStates]
BY CallUpdate DEF TypeOK, FinalAnswer

LEMMA HandleInviteType ==
  ASSUME TypeOK, NEW c \in Calls, HandleInvite(c)
  PROVE  /\ call' \in [Calls -> CallStates]
         /\ sessions' \subseteq Calls /\ port' \in [Calls -> Ports \cup {NoPort}]
         /\ client' \subseteq Calls /\ socket' \subseteq Calls /\ rtpPort' \in Ports
         /\ started' \in [Calls -> Nat] /\ stopped' \in [Calls -> Nat]
<1>1. PICK p \in Ports \cup {NoPort} :
        \/ /\ Acceptable(c, p)
           /\ rtpPort' = p
           /\ port' = [port EXCEPT ![c] = p]
           /\ sessions' = sessions \cup {c}
           /\ FinalAnswer(c, "answered")
           /\ UNCHANGED <<client, socket, started, stopped>>
        \/ FinalAnswer(c, "over") /\ UNCHANGED sessionVars
  BY DEF HandleInvite
<1>2. CASE FinalAnswer(c, "over") /\ UNCHANGED sessionVars
  BY <1>2, FinalAnswerType DEF TypeOK, sessionVars, CallStates
<1>3. CASE Acceptable(c, p) /\ rtpPort' = p
  BY <1>1, <1>3, FinalAnswerType DEF TypeOK, Acceptable, CallStates, sessionVars
<1> QED BY <1>1, <1>2, <1>3

LEMMA CloseSessionType ==
  ASSUME TypeOK, NEW c \in Calls, CloseSession(c)
  PROVE  /\ sessions' \subseteq Calls /\ port' \in [Calls -> Ports \cup {NoPort}]
         /\ client' \subseteq Calls /\ socket' \subseteq Calls /\ rtpPort' \in Ports
         /\ started' \in [Calls -> Nat] /\ stopped' \in [Calls -> Nat]
<1>1. Incr(stopped, c) \in [Calls -> Nat]
  BY IncrNat DEF TypeOK
<1> QED BY <1>1 DEF TypeOK, CloseSession

LEMMA HandleAckType ==
  ASSUME TypeOK, NEW c \in Calls, HandleAck(c)
  PROVE  /\ call' \in [Calls -> CallStates] /\ runList' \in Seq(Calls) /\ fault' \in Faults
         /\ sessions' \subseteq Calls /\ port' \in [Calls -> Ports \cup {NoPort}]
         /\ client' \subseteq Calls /\ socket' \subseteq Calls /\ rtpPort' \in Ports
         /\ started' \in [Calls -> Nat] /\ stopped' \in [Calls -> Nat]
<1>1. runList \in Seq(Calls) /\ fault \in Faults
  BY DEF TypeOK, LoopTypeOK, Calls
<1>2. CASE Terminate(c) /\ UNCHANGED <<runList, fault, sessionVars>>
  BY <1>1, <1>2, TerminateType DEF TypeOK, sessionVars
<1>3. CASE /\ OpenSocket(c) /\ started' = Incr(started, c)
           /\ UNCHANGED <<call, fault, sessions, port, rtpPort, stopped>>
  <2>1. Incr(started, c) \in [Calls -> Nat]
    BY IncrNat DEF TypeOK
  <2>2. runList' \in Seq(Calls)
    BY <1>1, <1>3 DEF OpenSocket
  <2> QED BY <1>1, <1>3, <2>1, <2>2 DEF TypeOK, OpenSocket
<1>4. CASE fault' = "exception" /\ UNCHANGED <<call, runList, sessionVars>>
  BY <1>1, <1>4 DEF TypeOK, sessionVars, Faults
<1> QED BY <1>2, <1>3, <1>4 DEF HandleAck

LEMMA PeerStepType ==
  ASSUME TypeOK, NEW c \in Calls, NEW from, NEW to \in CallStates, NEW type \in EventTypes,
         PeerStep(c, from, to, type)
  PROVE  /\ call' \in [Calls -> CallStates]
         /\ events' \in Seq([type : EventTypes, cid : Calls])
         /\ UNCHANGED <<loopVars, offer, sessionVars>>
<1>1. Event(type, c) \in [type : EventTypes, cid : Calls]
  BY DEF Event
<1> QED BY <1>1, CallUpdate DEF TypeOK, PeerStep

\* Every variable keeps its type.
LEMMA TypeStep == TypeOK /\ [Next]_vars => TypeOK'
<1> SUFFICES ASSUME TypeOK, [Next]_vars PROVE TypeOK'
  OBVIOUS
<1> USE LoopAssumption, CallsAssumption
<1> USE DEF LoopTypeOK, Calls
<1>1. CASE LoopTest
  BY <1>1 DEF TypeOK, LoopTest, LoopHead, ThreadStates, envVars, sessionVars
<1>2. CASE PollEvent
  <2> DEFINE e == Head(events)
  <2>1. /\ e \in [type : EventTypes, cid : Calls] /\ e.cid \in Calls
        /\ events' \in Seq([type : EventTypes, cid : Calls])
    <3> DEFINE S == [type : EventTypes, cid : Calls]
    <3>1. events \in Seq(S) /\ events # <<>> /\ events' = Tail(events)
      BY <1>2 DEF TypeOK, PollEvent
    <3>2. Head(events) \in S /\ Tail(events) \in Seq(S)
      <4> HIDE DEF S
      <4> QED BY <3>1
    <3> QED BY <3>1, <3>2
  <2>2. /\ exCtx' \in 0..MaxInits /\ inits' \in 0..MaxInits
        /\ running' \in BOOLEAN /\ stopping' \in BOOLEAN
        /\ thread' \in ThreadStates /\ posting' \in [Workers -> Tasks \cup {Idle}]
        /\ batch' \in Seq(Tasks)
    <3>1. running' = running /\ stopping' = stopping
      BY <1>2 DEF PollEvent, Polled
    <3>2. running' \in BOOLEAN /\ stopping' \in BOOLEAN
      BY <3>1 DEF TypeOK
    <3> QED BY <1>2, <3>2 DEF TypeOK, PollEvent, Polled, ThreadStates
  <2>3. /\ offer' \in [Calls -> SessionNames \cup {BadOffer}]
        /\ acks' \in [Calls -> 0..MaxAcks] /\ silent' \subseteq Calls
    BY <1>2 DEF TypeOK, PollEvent
  <2>4. CASE e.type = "invite" /\ HandleInvite(e.cid) /\ UNCHANGED <<runList, fault>>
    BY <2>1, <2>2, <2>3, <2>4, HandleInviteType DEF TypeOK
  <2>5. CASE e.type = "ack" /\ HandleAck(e.cid)
    BY <2>1, <2>2, <2>3, <2>5, HandleAckType DEF TypeOK
  <2>6. CASE CloseSession(e.cid) /\ UNCHANGED <<call, runList, fault>>
    BY <2>1, <2>2, <2>3, <2>6, CloseSessionType DEF TypeOK
  <2>7. CASE UNCHANGED <<call, runList, fault, sessionVars>>
    BY <2>1, <2>2, <2>3, <2>7 DEF TypeOK, sessionVars
  <2> QED BY <1>2, <2>4, <2>5, <2>6, <2>7 DEF PollEvent, ProcessEvent
<1>3. CASE PollTimeout
  BY <1>3 DEF TypeOK, PollTimeout, Polled, ThreadStates, envVars, sessionVars
<1>4. CASE Collect
  BY <1>4 DEF TypeOK, Collect, TakeTasks, ThreadStates, envVars, sessionVars
<1>5. CASE RunClosure
  <2>1. Head(batch) \in Calls /\ LoopTypeOK'
    BY <1>5 DEF TypeOK, RunClosure, TaskStep
  <2>2. Terminate(Head(batch)) /\ CloseSession(Head(batch)) /\ UNCHANGED <<events, offer, acks, silent>>
    BY <1>5 DEF RunClosure
  <2> QED BY <2>1, <2>2, TerminateType, CloseSessionType DEF TypeOK
<1>6. CASE LoopEnd
  BY <1>6 DEF TypeOK, LoopEnd, BatchDone, ThreadStates, envVars, sessionVars
<1>7. CASE InitClient
  BY <1>7 DEF TypeOK, InitClient, InitContext, envVars, sessionVars
<1>8. CASE StartRegister
  <2>1. running' \in BOOLEAN /\ stopping' \in BOOLEAN
    BY <1>8 DEF TypeOK, StartRegister, StartLoop
  <2> QED
    BY <1>8, <2>1 DEF TypeOK, StartRegister, StartLoop, ThreadStates, Faults, envVars, sessionVars
<1>9. CASE StopCalled
  BY <1>9 DEF TypeOK, StopCalled, StopBegin, envVars, sessionVars
<1>10. CASE StopQuits
  <2>1. running' \in BOOLEAN /\ stopping' \in BOOLEAN
    BY <1>10 DEF TypeOK, StopQuits, StopEnd
  <2>2. LoopTypeOK'
    BY <1>10, <2>1 DEF TypeOK, StopQuits, StopEnd, ThreadStates
  <2>3. call' \in [Calls -> CallStates]
    BY <1>10 DEF TypeOK, StopQuits, CallStates
  <2> QED BY <1>10, <2>2, <2>3 DEF TypeOK, StopQuits, sessionVars
<1>11. ASSUME NEW c \in Calls, Invite(c) \/ Ack(c) \/ Cancel(c) \/ Bye(c) \/ Release(c)
       PROVE  TypeOK'
  <2>1. /\ call' \in [Calls -> CallStates]
        /\ events' \in Seq([type : EventTypes, cid : Calls])
        /\ UNCHANGED <<loopVars, offer, sessionVars>>
    BY <1>11, PeerStepType DEF Invite, Ack, Cancel, Bye, Release, CallStates, EventTypes
  <2>2. acks' \in [Calls -> 0..MaxAcks] /\ silent' \subseteq Calls
    <3>1. CASE Ack(c)
      BY <1>11, <3>1 DEF TypeOK, Ack, Incr
    <3>2. CASE UNCHANGED acks /\ (UNCHANGED silent \/ silent' = silent \cup {c})
      BY <1>11, <3>2 DEF TypeOK
    <3> QED BY <1>11, <3>1, <3>2 DEF Invite, Cancel, Bye, Release
  <2> QED BY <2>1, <2>2 DEF TypeOK, loopVars, sessionVars
<1>12. ASSUME NEW w \in Workers, NEW c \in Calls, SocketError(w, c) PROVE TypeOK'
  BY <1>12 DEF TypeOK, SocketError, AsyncTest, envVars
<1>13. ASSUME NEW w \in Workers, Push(w) PROVE TypeOK'
  BY <1>13 DEF TypeOK, Push, AsyncPush, Faults, envVars, sessionVars
<1>14. CASE UNCHANGED vars
  BY <1>14 DEF TypeOK, vars, loopVars, envVars, sessionVars
<1> QED
  BY <1>1, <1>2, <1>3, <1>4, <1>5, <1>6, <1>7, <1>8, <1>9, <1>10, <1>11, <1>12,
     <1>13, <1>14 DEF Next, EventThread, Control, Peer, Poller

-----------------------------------------------------------------------------
(* The event queue.                                                        *)

\* The rest of the queue is what it was.
LEMMA TailIndex ==
  ASSUME TypeOK, events # <<>>, events' = Tail(events)
  PROVE  /\ Len(events) \in Nat /\ Len(events') = Len(events) - 1
         /\ \A i \in 1..Len(events') : i + 1 \in 1..Len(events) /\ events'[i] = events[i + 1]
         /\ \A i \in 1..Len(events) :
              i = 1 \/ (i - 1 \in 1..Len(events') /\ events'[i - 1] = events[i])
         /\ 1 \in 1..Len(events) /\ events[1] = Head(events)
<1> DEFINE S == [type : EventTypes, cid : Calls]
<1>1. events \in Seq(S)
  BY DEF TypeOK
<1> HIDE DEF S
<1> QED BY <1>1

LEMMA AppendIndex ==
  ASSUME TypeOK, NEW e, events' = Append(events, e)
  PROVE  /\ Len(events) \in Nat /\ Len(events') = Len(events) + 1
         /\ \A i \in 1..Len(events) : i \in 1..Len(events') /\ events'[i] = events[i]
         /\ \A i \in 1..Len(events') : i \in 1..Len(events) \/ i = Len(events')
         /\ Len(events') \in 1..Len(events') /\ events'[Len(events')] = e
<1> DEFINE S == [type : EventTypes, cid : Calls]
<1>1. events \in Seq(S)
  BY DEF TypeOK
<1> HIDE DEF S
<1> QED BY <1>1

\* An event that is not the head stays queued.
LEMMA QueuedTail ==
  ASSUME TypeOK, events # <<>>, events' = Tail(events), NEW types, NEW c, Queued(types, c),
         ~(Head(events).type \in types /\ Head(events).cid = c)
  PROVE  Queued(types, c)'
<1>1. PICK i \in 1..Len(events) : events[i].type \in types /\ events[i].cid = c
  BY DEF Queued
<1>2. i # 1
  BY <1>1, TailIndex
<1>3. i - 1 \in 1..Len(events') /\ events'[i - 1] = events[i]
  BY <1>2, TailIndex
<1> QED BY <1>1, <1>3 DEF Queued

LEMMA QueuedAppend ==
  ASSUME TypeOK, NEW e, events' = Append(events, e), NEW types, NEW c
  PROVE  Queued(types, c)' <=> Queued(types, c) \/ (e.type \in types /\ e.cid = c)
BY AppendIndex DEF Queued

\* When the head is taken, an INVITE that is still queued is another call's.
LEMMA InvitedTail ==
  ASSUME TypeOK, InviteInv, events # <<>>, events' = Tail(events)
  PROVE  /\ \A c \in Calls : Invited(c)' => Invited(c) /\ Head(events).cid # c
         /\ \A i, j \in 1..Len(events') :
              i < j /\ events'[j].type = "invite" => events'[i].cid # events'[j].cid
         /\ \A types, c : Queued(types, c)' => Queued(types, c)
<1>1. ASSUME NEW c \in Calls, Invited(c)'
      PROVE  Invited(c) /\ Head(events).cid # c
  <2>1. PICK i \in 1..Len(events') : events'[i].type = "invite" /\ events'[i].cid = c
    BY <1>1 DEF Invited, Queued
  <2>2. i + 1 \in 1..Len(events) /\ events'[i] = events[i + 1] /\ 1 < i + 1
    BY TailIndex
  <2>3. Invited(c)
    BY <2>1, <2>2 DEF Invited, Queued
  <2>4. events[1].cid # c
    BY <2>1, <2>2, TailIndex DEF InviteInv
  <2> QED BY <2>3, <2>4, TailIndex
<1>2. ASSUME NEW i \in 1..Len(events'), NEW j \in 1..Len(events'), i < j,
             events'[j].type = "invite"
      PROVE  events'[i].cid # events'[j].cid
  <2>1. /\ i + 1 \in 1..Len(events) /\ events'[i] = events[i + 1]
        /\ j + 1 \in 1..Len(events) /\ events'[j] = events[j + 1] /\ i + 1 < j + 1
    BY <1>2, TailIndex
  <2> QED BY <1>2, <2>1 DEF InviteInv
<1>3. ASSUME NEW types, NEW c, Queued(types, c)'
      PROVE  Queued(types, c)
  BY <1>3, TailIndex DEF Queued
<1> QED BY <1>1, <1>2, <1>3

-----------------------------------------------------------------------------
(* The steps, one by one.                                                  *)

Safe == OneSessionPerType /\ InviteInv /\ MediaInv /\ EndInv

LEMMA StutterStep ==
  ASSUME Safe, UNCHANGED <<events, call, offer, silent, sessions, client, started, stopped>>
  PROVE  Safe'
BY DEF Safe, OneSessionPerType, InviteInv, MediaInv, EndInv, Ending, Fresh, Invited, Queued

\* What is known of a call does not change with its calls of eXosip's queue.
LEMMA SessionStutter ==
  ASSUME OneSessionPerType, MediaInv, UNCHANGED <<offer, sessions, client, started, stopped>>
  PROVE  OneSessionPerType' /\ MediaInv'
BY DEF OneSessionPerType, MediaInv

LEMMA PeerCall ==
  ASSUME TypeOK, NEW c \in Calls, NEW from, NEW to \in CallStates, NEW type,
         PeerStep(c, from, to, type)
  PROVE  /\ call[c] \in from /\ call'[c] = to
         /\ \A d \in Calls : d # c => call'[d] = call[d]
         /\ \A d \in Calls : Fresh(d)' <=> Fresh(d)
         /\ \A types, d : Queued(types, d)' <=> Queued(types, d) \/ (type \in types /\ c = d)
         /\ UNCHANGED <<offer, sessions, client, started, stopped>>
<1>1. /\ call' = [call EXCEPT ![c] = to] /\ call[c] \in from
      /\ events' = Append(events, Event(type, c))
      /\ UNCHANGED <<offer, sessions, client, started, stopped>>
  BY DEF PeerStep, sessionVars
<1>2. ASSUME NEW types, NEW d
      PROVE  Queued(types, d)' <=> Queued(types, d) \/ (type \in types /\ c = d)
  <2> DEFINE e == Event(type, c)
  <2>1. e.type = type /\ e.cid = c
    BY DEF Event
  <2> HIDE DEF e
  <2> QED BY <1>1, <2>1, QueuedAppend DEF e
<1>3. /\ call'[c] = to
      /\ \A d \in Calls : d # c => call'[d] = call[d]
  BY <1>1, CallUpdate DEF TypeOK
<1>4. \A d \in Calls : Fresh(d)' <=> Fresh(d)
  BY <1>1 DEF Fresh
<1> QED BY <1>1, <1>2, <1>3, <1>4

\* An INVITE is the first event of its call.
LEMMA InviteStep ==
  ASSUME TypeOK, Safe, NEW c \in Calls, Invite(c)
  PROVE  Safe'
<1>1. /\ PeerStep(c, {"new"}, "ringing", "invite")
      /\ events' = Append(events, Event("invite", c)) /\ silent' = silent
  BY DEF Invite, PeerStep
<1>2. /\ call[c] \in {"new"} /\ call'[c] = "ringing"
      /\ \A d \in Calls : d # c => call'[d] = call[d]
      /\ \A d \in Calls : Fresh(d)' <=> Fresh(d)
      /\ \A types, d : Queued(types, d)' <=> Queued(types, d) \/ ("invite" \in types /\ c = d)
      /\ UNCHANGED <<offer, sessions, client, started, stopped>>
  <2>1. "ringing" \in CallStates
    BY DEF CallStates
  <2> QED BY <1>1, <2>1, PeerCall
<1>3. \A d \in Calls : Invited(d)' <=> Invited(d) \/ c = d
  BY <1>2 DEF Invited
<1>4. call[c] = "new" /\ ~Queued(EventTypes, c) /\ Fresh(c)
  BY <1>2 DEF Safe, InviteInv
<1>5. \A i, j \in 1..Len(events') :
        i < j /\ events'[j].type = "invite" => events'[i].cid # events'[j].cid
  <2>1. \A i \in 1..Len(events) : events[i].cid # c
    <3>1. \A i \in 1..Len(events) : events[i].type \in EventTypes
      <4> DEFINE S == [type : EventTypes, cid : Calls]
      <4>1. events \in Seq(S)
        BY DEF TypeOK
      <4>2. \A i \in 1..Len(events) : events[i] \in S
        <5> HIDE DEF S
        <5> QED BY <4>1
      <4> QED BY <4>2
    <3> QED BY <1>4, <3>1 DEF Queued
  <2>2. events'[Len(events')].cid = c
    BY <1>1, AppendIndex DEF Event
  <2> QED BY <1>1, <2>1, <2>2, AppendIndex DEF Safe, InviteInv
<1>6. InviteInv'
  BY <1>2, <1>3, <1>4, <1>5 DEF Safe, InviteInv
<1>7. EndInv'
  BY <1>1, <1>2, <1>3 DEF Safe, EndInv, Ending
<1> QED BY <1>2, <1>6, <1>7, SessionStutter DEF Safe

\* The later events of a call leave the queued INVITEs alone.
LEMMA LaterPeerStep ==
  ASSUME TypeOK, Safe, NEW c \in Calls, Ack(c) \/ Cancel(c) \/ Bye(c) \/ Release(c)
  PROVE  Safe'
<1>1. PICK from \in SUBSET {"ringing", "answered", "confirmed"}, to \in {"confirmed", "over"},
           type \in EventTypes \ {"invite"} :
        /\ PeerStep(c, from, to, type)
        /\ from = {"ringing"} \/ from \cap {"ringing", "over", "new"} = {}
        /\ from = {"ringing"} => to = "over"
        /\ to = "over" => (silent' = silent \cup {c} \/ type \in {"cancelled", "closed"})
        /\ silent \subseteq silent'
  <2>1. CASE Ack(c)
    <3>1. PeerStep(c, {"answered", "confirmed"}, "confirmed", "ack") /\ silent' = silent
      BY <2>1 DEF Ack
    <3> QED BY <3>1 DEF EventTypes
  <2>2. CASE Cancel(c)
    <3>1. PeerStep(c, {"ringing"}, "over", "cancelled") /\ silent' = silent
      BY <2>2 DEF Cancel
    <3> QED BY <3>1 DEF EventTypes
  <2>3. CASE Bye(c)
    <3>1. PeerStep(c, {"answered", "confirmed"}, "over", "closed") /\ silent' = silent
      BY <2>3 DEF Bye
    <3> QED BY <3>1 DEF EventTypes
  <2>4. CASE Release(c)
    <3>1. PeerStep(c, {"answered"}, "over", "released") /\ silent' = silent \cup {c}
      BY <2>4 DEF Release
    <3> QED BY <3>1 DEF EventTypes
  <2> QED BY <2>1, <2>2, <2>3, <2>4
<1>2. /\ call[c] \in from /\ call'[c] = to
      /\ \A d \in Calls : d # c => call'[d] = call[d]
      /\ \A d \in Calls : Fresh(d)' <=> Fresh(d)
      /\ \A types, d : Queued(types, d)' <=> Queued(types, d) \/ (type \in types /\ c = d)
      /\ UNCHANGED <<offer, sessions, client, started, stopped>>
  <2>1. to \in CallStates
    BY DEF CallStates
  <2> QED BY <1>1, <2>1, PeerCall
<1>3. \A d \in Calls : Invited(d)' <=> Invited(d)
  BY <1>1, <1>2 DEF Invited
<1>4. events' = Append(events, Event(type, c)) /\ Event(type, c).type # "invite"
  BY <1>1 DEF PeerStep, Event
<1>5. \A i, j \in 1..Len(events') :
        i < j /\ events'[j].type = "invite" => events'[i].cid # events'[j].cid
  BY <1>4, AppendIndex DEF Safe, InviteInv
<1>6. Invited(c) => call'[c] = "over"
  BY <1>1, <1>2 DEF Safe, InviteInv
<1>7. InviteInv'
  BY <1>1, <1>2, <1>3, <1>5, <1>6 DEF Safe, InviteInv
<1>8. call'[c] = "over" => Ending(c)'
  BY <1>1, <1>2 DEF Ending
<1>9. \A d \in Calls : Ending(d) => Ending(d)'
  BY <1>1, <1>2 DEF Ending
<1>10. EndInv'
  BY <1>2, <1>3, <1>8, <1>9 DEF Safe, EndInv
<1> QED BY <1>2, <1>7, <1>10, SessionStutter DEF Safe

\* eXosip_quit(): nothing is queued, and every call ended silently.
LEMMA QuitStep == ASSUME TypeOK, Safe, StopQuits PROVE Safe'
<1>1. /\ events' = <<>>
      /\ silent' = silent \cup {c \in Calls : call[c] # "new"}
      /\ call' = [c \in Calls |-> IF call[c] = "new" THEN "new" ELSE "over"]
      /\ UNCHANGED <<offer, sessions, client, started, stopped>>
  BY DEF StopQuits, sessionVars
<1>2. /\ \A types, c : ~Queued(types, c)'
      /\ \A c \in Calls : ~Invited(c)'
  BY <1>1 DEF Invited, Queued
<1>3. \A c \in Calls : (Fresh(c)' <=> Fresh(c)) /\ (call'[c] = "new" <=> call[c] = "new")
  BY <1>1 DEF Fresh
<1>4. InviteInv'
  <2>1. \A c \in Calls : call'[c] = "new" => Fresh(c)' /\ ~Queued(EventTypes, c)'
    BY <1>2, <1>3 DEF Safe, InviteInv
  <2>2. 1..Len(events') = {}
    BY <1>1
  <2> QED BY <1>2, <2>1, <2>2 DEF InviteInv
<1>5. \A c \in Calls : call'[c] = "over" => c \in silent'
  BY <1>1
<1>6. EndInv'
  BY <1>5 DEF EndInv, Ending
<1> QED BY <1>1, <1>4, <1>6, SessionStutter DEF Safe

\* BYE is only sent in a dialog, whose INVITE has been handled.
LEMMA TerminateCall ==
  ASSUME TypeOK, NEW c \in Calls, Terminate(c)
  PROVE  /\ \A d \in Calls : d # c => call'[d] = call[d]
         /\ call'[c] = call[c] \/ (call[c] \in {"answered", "confirmed"} /\ call'[c] = "over")
BY DEF TypeOK, Terminate

\* Closing a call that has no session changes nothing.
LEMMA CloseFacts ==
  ASSUME TypeOK, MediaInv, NEW c \in Calls, CloseSession(c)
  PROVE  /\ sessions' = sessions \ {c} /\ client' = client \ {c}
         /\ UNCHANGED <<started>>
         /\ \A d \in Calls : d # c => stopped'[d] = stopped[d]
         /\ c \in sessions => stopped'[c] = 1
         /\ c \notin sessions => stopped'[c] = stopped[c]
BY DEF TypeOK, MediaInv, CloseSession, Incr

LEMMA CloseMedia ==
  ASSUME TypeOK, OneSessionPerType, MediaInv, NEW c \in Calls, CloseSession(c), offer' = offer
  PROVE  OneSessionPerType' /\ MediaInv'
<1>1. OneSessionPerType'
  BY CloseFacts DEF OneSessionPerType
<1>2. client' \subseteq sessions'
  BY CloseFacts DEF MediaInv
<1>3. ASSUME NEW d \in Calls, d # c
      PROVE  /\ d \in sessions' => stopped'[d] = 0 /\ started'[d] = IF d \in client' THEN 1 ELSE 0
             /\ d \notin sessions' => started'[d] <= stopped'[d] /\ stopped'[d] <= 1
  BY <1>3, CloseFacts DEF MediaInv
<1>4. c \notin sessions' /\ started'[c] <= stopped'[c] /\ stopped'[c] <= 1
  <2>1. CASE c \in sessions
    <3>1. started'[c] \in {0, 1} /\ stopped'[c] = 1
      BY <2>1, CloseFacts DEF MediaInv
    <3> QED BY <3>1, CloseFacts
  <2>2. CASE c \notin sessions
    BY <2>2, CloseFacts DEF MediaInv
  <2> QED BY <2>1, <2>2
<1> QED BY <1>1, <1>2, <1>3, <1>4 DEF MediaInv

\* A call that is closed is not fresh unless it had no session.
LEMMA CloseFresh ==
  ASSUME TypeOK, MediaInv, NEW c \in Calls, CloseSession(c), NEW d \in Calls, Fresh(d)
  PROVE  Fresh(d)'
BY CloseFacts DEF Fresh

LEMMA RunStep == ASSUME TypeOK, Safe, RunClosure PROVE Safe'
<1> DEFINE c == Head(batch)
<1>1. /\ c \in Calls /\ Terminate(c) /\ CloseSession(c)
      /\ UNCHANGED <<events, offer, silent>>
  BY DEF TypeOK, LoopTypeOK, Calls, RunClosure, TaskStep
<1> HIDE DEF c
<1>2. OneSessionPerType' /\ MediaInv'
  BY <1>1, CloseMedia DEF Safe
<1>3. \A types, d : Queued(types, d)' <=> Queued(types, d)
  BY <1>1 DEF Queued
<1>4. \A d \in Calls : Invited(d)' => call'[d] = call[d] /\ call[d] \in {"ringing", "over"} /\ Fresh(d)'
  <2> SUFFICES ASSUME NEW d \in Calls, Invited(d)'
               PROVE  call'[d] = call[d] /\ call[d] \in {"ringing", "over"} /\ Fresh(d)'
    OBVIOUS
  <2>1. call[d] \in {"ringing", "over"} /\ Fresh(d)
    BY <1>3 DEF Safe, InviteInv, Invited
  <2> QED BY <1>1, <2>1, TerminateCall, CloseFresh DEF Safe
<1>5. \A d \in Calls : call'[d] = "new" => Fresh(d)' /\ ~Queued(EventTypes, d)'
  <2> SUFFICES ASSUME NEW d \in Calls, call'[d] = "new"
               PROVE  Fresh(d)' /\ ~Queued(EventTypes, d)'
    OBVIOUS
  <2>1. call[d] = "new"
    BY <1>1, TerminateCall
  <2>2. Fresh(d) /\ ~Queued(EventTypes, d)
    BY <2>1 DEF Safe, InviteInv
  <2> QED BY <1>1, <1>3, <2>2, CloseFresh DEF Safe
<1>6. InviteInv'
  BY <1>1, <1>4, <1>5 DEF Safe, InviteInv
<1>7. EndInv'
  <2> SUFFICES ASSUME NEW d \in Calls, call'[d] = "over", d \in sessions' \/ Invited(d)'
               PROVE  Ending(d)'
    BY DEF EndInv
  <2>1. call[d] = "over" /\ (d \in sessions \/ Invited(d))
    BY <1>1, <1>3, <1>4, TerminateCall, CloseFacts DEF Safe, Invited
  <2> QED BY <1>1, <1>3, <2>1 DEF Safe, EndInv, Ending
<1> QED BY <1>2, <1>6, <1>7 DEF Safe

-----------------------------------------------------------------------------
(* processEvent().                                                         *)

\* What every event that is taken from the queue has in common.
Taken(type, c) ==
  /\ events # <<>> /\ events' = Tail(events)
  /\ Head(events).type = type /\ Head(events).cid = c
  /\ c \in Calls
  /\ UNCHANGED <<offer, silent>>

LEMMA EndingTail ==
  ASSUME TypeOK, NEW type, NEW c, Taken(type, c), NEW d \in Calls, Ending(d),
         type \notin {"cancelled", "closed"} \/ d # c
  PROVE  Ending(d)'
BY QueuedTail DEF Taken, Ending

\* Nothing of a call is queued in front of its INVITE.
LEMMA TakenInvited ==
  ASSUME TypeOK, Safe, NEW type, NEW c, Taken(type, c)
  PROVE  /\ \A d \in Calls : Invited(d)' => /\ Invited(d) /\ d # c
                                            /\ call[d] \in {"ringing", "over"} /\ Fresh(d)
         /\ \A i, j \in 1..Len(events') :
              i < j /\ events'[j].type = "invite" => events'[i].cid # events'[j].cid
         /\ \A d \in Calls : Queued(EventTypes, d)' => Queued(EventTypes, d)
BY InvitedTail DEF Taken, Safe, InviteInv

\* onEventInvite() that refuses: the call may be answered, nothing else changes.
LEMMA RefusedStep ==
  ASSUME TypeOK, Safe, NEW c, Taken("invite", c), FinalAnswer(c, "over"), UNCHANGED sessionVars
  PROVE  Safe'
<1>1. UNCHANGED <<offer, sessions, client, started, stopped>>
  BY DEF Taken, sessionVars
<1>2. c \in Calls /\ Invited(c)
  BY TailIndex DEF Taken, Invited, Queued
<1>3. \A d \in Calls : d # c => call'[d] = call[d]
  BY <1>2 DEF FinalAnswer, TypeOK
<1>4. call'[c] \in {"ringing", "over"} /\ Fresh(c)
  BY <1>2 DEF FinalAnswer, TypeOK, Safe, InviteInv
<1>5. \A d \in Calls : Fresh(d)' <=> Fresh(d)
  BY <1>1 DEF Fresh
<1>6. InviteInv'
  BY <1>3, <1>4, <1>5, TakenInvited DEF Safe, InviteInv
<1>7. EndInv'
  <2> SUFFICES ASSUME NEW d \in Calls, call'[d] = "over", d \in sessions' \/ Invited(d)'
               PROVE  Ending(d)'
    BY DEF EndInv
  <2>1. d # c
    BY <1>1, <1>4, TakenInvited DEF Fresh
  <2> QED BY <1>1, <1>3, <2>1, TakenInvited, EndingTail DEF Safe, EndInv
<1> QED BY <1>1, <1>6, <1>7, SessionStutter DEF Safe

\* onEventInvite() that accepts: the session is new, and if the call is over, its
\* CANCEL is queued behind the INVITE.
LEMMA AcceptedStep ==
  ASSUME TypeOK, Safe, NEW c, Taken("invite", c), NEW p, Acceptable(c, p),
         sessions' = sessions \cup {c}, FinalAnswer(c, "answered"),
         UNCHANGED <<client, started, stopped>>
  PROVE  Safe'
<1>1. c \in Calls /\ Invited(c) /\ offer' = offer
  BY TailIndex DEF Taken, Invited, Queued
<1>2. \A d \in Calls : d # c => call'[d] = call[d]
  BY <1>1 DEF FinalAnswer, TypeOK
<1>3. /\ call'[c] \in {"answered", "ringing", "over"} /\ Fresh(c)
      /\ call'[c] = "over" => call[c] = "over"
  BY <1>1 DEF FinalAnswer, TypeOK, Safe, InviteInv
<1>4. \A d \in Calls : d # c => (Fresh(d)' <=> Fresh(d))
  BY DEF Fresh
<1>5. OneSessionPerType'
  BY <1>1 DEF Safe, OneSessionPerType, Acceptable
<1>6. MediaInv'
  BY <1>1, <1>3 DEF Safe, MediaInv, Fresh
<1>7. InviteInv'
  BY <1>2, <1>3, <1>4, TakenInvited DEF Safe, InviteInv
<1>8. EndInv'
  <2> SUFFICES ASSUME NEW d \in Calls, call'[d] = "over", d \in sessions' \/ Invited(d)'
               PROVE  Ending(d)'
    BY DEF EndInv
  <2>1. CASE d = c
    BY <1>1, <1>3, <2>1, EndingTail DEF Safe, EndInv
  <2>2. CASE d # c
    BY <1>2, <2>2, TakenInvited, EndingTail DEF Safe, EndInv
  <2> QED BY <2>1, <2>2
<1> QED BY <1>5, <1>6, <1>7, <1>8 DEF Safe

\* onEventInviteAck()
LEMMA AckStep ==
  ASSUME TypeOK, Safe, NEW c, Taken("ack", c), HandleAck(c)
  PROVE  Safe'
<1>1. c \in Calls /\ offer' = offer /\ sessions' = sessions /\ stopped' = stopped
  BY DEF Taken, HandleAck, sessionVars
<1>2. /\ \A d \in Calls : d # c => call'[d] = call[d] /\ started'[d] = started[d]
      /\ \A d \in Calls : d # c => (d \in client' <=> d \in client)
  BY <1>1, TerminateCall DEF HandleAck, OpenSocket, sessionVars, TypeOK, Incr
<1>3. \/ c \notin sessions /\ client' = client /\ started' = started
      \/ /\ c \in sessions \ client /\ client' = client \cup {c}
         /\ started'[c] = started[c] + 1 /\ call' = call
      \/ c \in sessions /\ client' = client /\ started' = started /\ call' = call
  BY <1>1 DEF HandleAck, OpenSocket, sessionVars, TypeOK, Incr, Safe, MediaInv
<1>4. call'[c] = call[c] \/ (call[c] \in {"answered", "confirmed"} /\ call'[c] = "over" /\ c \notin sessions)
  BY <1>1, TerminateCall DEF HandleAck
<1>5. OneSessionPerType' /\ MediaInv'
  BY <1>1, <1>2, <1>3 DEF Safe, OneSessionPerType, MediaInv
<1>6. \A d \in Calls : Fresh(d) => Fresh(d)'
  BY <1>1, <1>2, <1>3 DEF Fresh
<1>7. \A d \in Calls : Invited(d)' => call'[d] = call[d]
  BY <1>2, <1>4, TakenInvited
<1>8. \A d \in Calls : call'[d] = "new" => call[d] = "new"
  BY <1>2, <1>4
<1>9. InviteInv'
  BY <1>6, <1>7, <1>8, TakenInvited DEF Safe, InviteInv
<1>10. EndInv'
  <2> SUFFICES ASSUME NEW d \in Calls, call'[d] = "over", d \in sessions' \/ Invited(d)'
               PROVE  Ending(d)'
    BY DEF EndInv
  <2>1. call[d] = "over"
    BY <1>1, <1>2, <1>4, <1>7
  <2> QED BY <1>1, <2>1, TakenInvited, EndingTail DEF Safe, EndInv
<1> QED BY <1>5, <1>9, <1>10 DEF Safe

\* closeCall() for CANCEL and BYE.
LEMMA ClosedStep ==
  ASSUME TypeOK, Safe, NEW type, NEW c, Taken(type, c), CloseSession(c), call' = call
  PROVE  Safe'
<1>1. c \in Calls /\ offer' = offer
  BY DEF Taken
<1>2. OneSessionPerType' /\ MediaInv'
  BY <1>1, CloseMedia DEF Safe
<1>3. \A d \in Calls : Fresh(d) => Fresh(d)'
  BY <1>1, CloseFresh DEF Safe
<1>4. InviteInv'
  BY <1>3, TakenInvited DEF Safe, InviteInv
<1>5. EndInv'
  <2> SUFFICES ASSUME NEW d \in Calls, call'[d] = "over", d \in sessions' \/ Invited(d)'
               PROVE  Ending(d)'
    BY DEF EndInv
  <2>1. d # c /\ (d \in sessions \/ Invited(d))
    BY <1>1, TakenInvited, CloseFacts DEF Safe
  <2> QED BY <2>1, EndingTail DEF Safe, EndInv
<1> QED BY <1>2, <1>4, <1>5 DEF Safe

\* A released call: only the queue changes.
LEMMA ReleasedStep ==
  ASSUME TypeOK, Safe, NEW c, Taken("released", c), UNCHANGED <<call, sessionVars>>
  PROVE  Safe'
<1>1. UNCHANGED <<call, offer, sessions, client, started, stopped>>
  BY DEF Taken, sessionVars
<1>2. \A d \in Calls : Fresh(d)' <=> Fresh(d)
  BY <1>1 DEF Fresh
<1>3. InviteInv'
  BY <1>1, <1>2, TakenInvited DEF Safe, InviteInv
<1>4. EndInv'
  BY <1>1, TakenInvited, EndingTail DEF Safe, EndInv
<1> QED BY <1>1, <1>3, <1>4, SessionStutter DEF Safe

LEMMA PollStep == ASSUME TypeOK, Safe, PollEvent PROVE Safe'
<1> DEFINE e == Head(events)
<1>1. Taken(e.type, e.cid)
  <2> DEFINE S == [type : EventTypes, cid : Calls]
  <2>1. events \in Seq(S) /\ events # <<>> /\ events' = Tail(events)
    BY DEF TypeOK, PollEvent
  <2>2. e \in S
    <3> HIDE DEF S
    <3> QED BY <2>1
  <2> QED BY <2>1, <2>2 DEF PollEvent, Taken
<1>2. ProcessEvent(e)
  BY DEF PollEvent
<1> HIDE DEF e
<1>3. CASE e.type = "invite" /\ HandleInvite(e.cid)
  <2>1. PICK p \in Ports \cup {NoPort} :
          \/ /\ Acceptable(e.cid, p)
             /\ sessions' = sessions \cup {e.cid}
             /\ FinalAnswer(e.cid, "answered")
             /\ UNCHANGED <<client, started, stopped>>
          \/ FinalAnswer(e.cid, "over") /\ UNCHANGED sessionVars
    BY <1>3 DEF HandleInvite
  <2> QED BY <1>1, <1>3, <2>1, AcceptedStep, RefusedStep
<1>4. CASE e.type = "ack" /\ HandleAck(e.cid)
  BY <1>1, <1>4, AckStep
<1>5. CASE CloseSession(e.cid) /\ call' = call
  BY <1>1, <1>5, ClosedStep
<1>6. CASE e.type = "released" /\ UNCHANGED <<call, sessionVars>>
  BY <1>1, <1>6, ReleasedStep
<1> QED BY <1>2, <1>3, <1>4, <1>5, <1>6 DEF ProcessEvent

-----------------------------------------------------------------------------

LEMMA SafeStep == TypeOK /\ Safe /\ [Next]_vars => Safe'
<1> SUFFICES ASSUME TypeOK, Safe, [Next]_vars PROVE Safe'
  OBVIOUS
<1>1. CASE PollEvent
  BY <1>1, PollStep
<1>2. CASE RunClosure
  BY <1>2, RunStep
<1>3. CASE LoopTest \/ PollTimeout \/ Collect \/ LoopEnd
  BY <1>3, StutterStep DEF LoopTest, PollTimeout, Collect, LoopEnd, envVars, sessionVars
<1>4. CASE InitClient \/ StartRegister \/ StopCalled
  BY <1>4, StutterStep DEF InitClient, StartRegister, StopCalled, envVars, sessionVars
<1>5. CASE StopQuits
  BY <1>5, QuitStep
<1>6. CASE Peer
  BY <1>6, InviteStep, LaterPeerStep DEF Peer
<1>7. CASE Poller
  BY <1>7, StutterStep DEF Poller, SocketError, Push, envVars, sessionVars
<1>8. CASE UNCHANGED vars
  BY <1>8, StutterStep DEF vars, envVars, sessionVars
<1> QED
  BY <1>1, <1>2, <1>3, <1>4, <1>5, <1>6, <1>7, <1>8 DEF Next, EventThread, Control

\* The inductive invariant holds in every reachable state.
THEOREM Invariance == Spec => []IInv
<1>1. IInv /\ [Next]_vars => IInv'
  BY TypeStep, SafeStep DEF IInv, Safe
<1> QED BY <1>1, InitInv, PTL DEF Spec

\* The variables have their types, whatever the number of calls and ports.
THEOREM TypeCorrect == Spec => []TypeOK
<1>1. IInv => TypeOK
  BY DEF IInv
<1> QED BY <1>1, Invariance, PTL

\* Two sessions never have the same type (SipBClient.cpp:1010).
THEOREM OneSessionCorrect == Spec => []OneSessionPerType
<1>1. IInv => OneSessionPerType
  BY DEF IInv
<1> QED BY <1>1, Invariance, PTL

\* The application is told to start and to stop once, and to stop whenever a
\* session it was told to start is gone (SipBClient.cpp:877, 969).
THEOREM MediaCorrect == Spec => []MediaFollowsSession
<1>1. IInv => MediaFollowsSession
  <2> SUFFICES ASSUME IInv, NEW c \in Calls
               PROVE  /\ started[c] <= 1 /\ stopped[c] <= 1
                      /\ c \in sessions => stopped[c] = 0
                      /\ started[c] > stopped[c] => c \in sessions
    BY DEF MediaFollowsSession
  <2>1. started[c] \in Nat /\ stopped[c] \in Nat
    BY DEF IInv, TypeOK
  <2>2. /\ c \in sessions => stopped[c] = 0 /\ started[c] \in {0, 1}
        /\ c \notin sessions => started[c] <= stopped[c] /\ stopped[c] <= 1
    BY DEF IInv, MediaInv
  <2> QED BY <2>1, <2>2
<1> QED BY <1>1, Invariance, PTL

\* A session whose call has ended is about to be closed, except for the ends the
\* client is not told of (SipBClient.cpp:762).
THEOREM StaleCorrect == Spec => []NoStaleSession
<1>1. IInv => NoStaleSession
  BY DEF IInv, TypeOK, EndInv, Ending, NoStaleSession
<1> QED BY <1>1, Invariance, PTL

-----------------------------------------------------------------------------
(* The implementation of CallPromise.                                      *)

\* A step that touches the session of one call moves that call alone.
LEMMA PhaseOfOne ==
  ASSUME NEW c \in Calls,
         \A d \in Calls : d # c => /\ (d \in sessions') = (d \in sessions)
                               /\ started'[d] = started[d] /\ stopped'[d] = stopped[d]
  PROVE  \A s : Phase'[c] = s => Phase' = [Phase EXCEPT ![c] = s]
BY DEF Phase

LEMMA PhaseStutter ==
  ASSUME UNCHANGED <<offer, sessions, started, stopped>>
  PROVE  UNCHANGED Promise!vars
BY DEF Phase, Promise!vars

LEMMA PromiseOpen ==
  ASSUME IInv, NEW c \in Calls, HandleInvite(c), Invited(c), offer' = offer
  PROVE  Promise!Open(c) \/ UNCHANGED Promise!vars
<1>1. CASE UNCHANGED sessionVars
  BY <1>1, PhaseStutter DEF sessionVars
<1>2. CASE \E p : Acceptable(c, p) /\ sessions' = sessions \cup {c} /\ UNCHANGED <<started, stopped>>
  <2>1. c \notin sessions /\ started[c] = 0 /\ stopped[c] = 0
    BY DEF IInv, InviteInv, Fresh
  <2>2. Phase[c] = "idle" /\ Phase'[c] = "open"
    BY <1>2, <2>1 DEF Phase
  <2>3. Phase' = [Phase EXCEPT ![c] = "open"]
    BY <1>2, <2>2, PhaseOfOne
  <2>4. \A d \in Promise!Opened : d \in sessions
    BY DEF Promise!Opened, Phase
  <2>5. \A d \in Promise!Opened : offer[d] # offer[c]
    BY <1>2, <2>4 DEF Acceptable
  <2> QED BY <2>2, <2>3, <2>5 DEF Promise!Open, Promise!Step
<1> QED BY <1>1, <1>2 DEF HandleInvite

LEMMA PromisePlay ==
  ASSUME IInv, NEW c \in Calls, HandleAck(c), offer' = offer
  PROVE  Promise!Play(c) \/ UNCHANGED Promise!vars
<1>1. CASE UNCHANGED sessionVars
  BY <1>1, PhaseStutter DEF sessionVars
<1>2. CASE c \in sessions \ client /\ started' = Incr(started, c) /\ UNCHANGED <<sessions, stopped>>
  <2>1. started[c] = 0 /\ started'[c] = 1 /\ \A d \in Calls : d # c => started'[d] = started[d]
    BY <1>2 DEF IInv, TypeOK, MediaInv, Incr
  <2>2. Phase[c] = "open" /\ Phase'[c] = "playing"
    BY <1>2, <2>1 DEF Phase
  <2>3. Phase' = [Phase EXCEPT ![c] = "playing"]
    BY <1>2, <2>1, <2>2, PhaseOfOne
  <2> QED BY <2>2, <2>3 DEF Promise!Play, Promise!Step
<1> QED BY <1>1, <1>2 DEF HandleAck

LEMMA PromiseClose ==
  ASSUME IInv, NEW c \in Calls, CloseSession(c), offer' = offer
  PROVE  Promise!Close(c) \/ UNCHANGED Promise!vars
<1>1. CASE c \notin sessions
  <2>1. sessions' = sessions /\ UNCHANGED <<started, stopped>>
    BY <1>1 DEF CloseSession
  <2> QED BY <2>1, PhaseStutter
<1>2. CASE c \in sessions
  <2>1. sessions' = sessions \ {c} /\ started' = started /\ stopped' = Incr(stopped, c)
    BY <1>2 DEF CloseSession
  <2>2. stopped'[c] = 1 /\ \A d \in Calls : d # c => stopped'[d] = stopped[d]
    BY <1>2, <2>1 DEF IInv, TypeOK, MediaInv, Incr
  <2>3. Phase[c] \in {"open", "playing"} /\ Phase'[c] = "closed"
    BY <1>2, <2>1, <2>2 DEF Phase
  <2>4. Phase' = [Phase EXCEPT ![c] = "closed"]
    BY <2>1, <2>2, <2>3, PhaseOfOne
  <2> QED BY <2>3, <2>4 DEF Promise!Close, Promise!Step
<1> QED BY <1>1, <1>2

\* Every step of the client is a step of CallPromise or leaves it alone.
LEMMA PromiseStep == IInv /\ [Next]_vars => [Promise!Next]_(Promise!vars)
<1> SUFFICES ASSUME IInv, [Next]_vars PROVE Promise!Next \/ UNCHANGED Promise!vars
  OBVIOUS
<1>1. CASE PollEvent
  <2> DEFINE e == Head(events)
  <2>1. /\ e \in [type : EventTypes, cid : Calls]
        /\ e = events[1] /\ 1 \in 1..Len(events)
    <3> DEFINE S == [type : EventTypes, cid : Calls]
    <3>1. events \in Seq(S) /\ events # <<>>
      BY <1>1 DEF PollEvent, IInv, TypeOK
    <3>2. e \in S /\ e = events[1] /\ 1 \in 1..Len(events)
      <4> HIDE DEF S
      <4> QED BY <3>1
    <3> QED BY <3>2
  <2>2. e.cid \in Calls /\ offer' = offer /\ ProcessEvent(e)
    BY <1>1, <2>1 DEF PollEvent
  <2>3. CASE e.type = "invite" /\ HandleInvite(e.cid)
    <3>1. Invited(e.cid)
      BY <2>1, <2>3 DEF Invited, Queued
    <3> QED BY <2>2, <2>3, <3>1, PromiseOpen DEF Promise!Next
  <2>4. CASE HandleAck(e.cid)
    BY <2>2, <2>4, PromisePlay DEF Promise!Next
  <2>5. CASE CloseSession(e.cid)
    BY <2>2, <2>5, PromiseClose DEF Promise!Next
  <2>6. CASE UNCHANGED sessionVars
    BY <2>2, <2>6, PhaseStutter DEF sessionVars
  <2> QED BY <2>2, <2>3, <2>4, <2>5, <2>6 DEF ProcessEvent
<1>2. CASE RunClosure
  <2>1. Head(batch) \in Calls /\ CloseSession(Head(batch)) /\ offer' = offer
    BY <1>2 DEF RunClosure, TaskStep, IInv, TypeOK, LoopTypeOK, Calls
  <2> QED BY <2>1, PromiseClose DEF Promise!Next
<1>3. CASE LoopTest \/ PollTimeout \/ Collect \/ LoopEnd
  BY <1>3, PhaseStutter DEF LoopTest, PollTimeout, Collect, LoopEnd, envVars, sessionVars
<1>4. CASE Control
  BY <1>4, PhaseStutter
  DEF Control, InitClient, StartRegister, StopCalled, StopQuits, envVars, sessionVars
<1>5. CASE Peer \/ Poller
  BY <1>5, PhaseStutter DEF Peer, Invite, Ack, Cancel, Bye, Release, PeerStep, Poller,
     SocketError, Push, envVars, sessionVars
<1>6. CASE UNCHANGED vars
  BY <1>6, PhaseStutter DEF vars, envVars, sessionVars
<1> QED BY <1>1, <1>2, <1>3, <1>4, <1>5, <1>6 DEF Next, EventThread

\* The client implements CallPromise: onEventInvite(), onEventInviteAck() and
\* closeCall() together give each call one session, one start and one stop,
\* and one open session per type (SipBClient.cpp:831, 867, 957).
THEOREM CallsKeepPromise == Spec => KeepsCallPromise
<1>1. Init => Promise!Init
  BY DEF Init, Promise!Init, Phase
<1>2. Spec => Promise!Init /\ [][Promise!Next]_(Promise!vars)
  BY <1>1, PromiseStep, Invariance, PTL DEF Spec
<1> QED BY <1>2 DEF KeepsCallPromise, Promise!Spec

=============================================================================
