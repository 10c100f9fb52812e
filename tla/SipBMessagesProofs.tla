-------------------------- MODULE SipBMessagesProofs --------------------------
(***************************************************************************)
(* What SipBMessages promises for any number of workers and requests, any  *)
(* number of contexts and any length of the queues.                        *)
(***************************************************************************)
EXTENDS SipBMessages, TLAPS

\* The queue of eXosip hands every MESSAGE over once.
QueueInv ==
  /\ \A t \in handled : kind[t] # "none"
  /\ \A i \in 1..Len(events) :
       events[i] \in Requests => kind[events[i]] # "none" /\ events[i] \notin handled
  /\ \A i, j \in 1..Len(events) :
       i # j /\ events[i] \in Requests => events[i] # events[j]

\* Where the event of a request is, and that only its release answers it.
OwnershipInv ==
  \A t \in Requests :
    /\ t \notin handled => t \notin waiting /\ freed[t] = 0
    /\ t \in handled => (t \in waiting /\ freed[t] = 0) \/ (t \notin waiting /\ freed[t] = 1)
    /\ answered[t] <= freed[t]

IInv == TypeOK /\ EventThreadHasContext /\ QueueInv /\ OwnershipInv

-----------------------------------------------------------------------------

\* Counting up keeps the type of a counter.
LEMMA IncrNat ==
  ASSUME NEW count \in [Requests -> Nat], NEW t \in Requests
  PROVE  Incr(count, t) \in [Requests -> Nat]
BY DEF Incr

LEMMA IncrBounded ==
  ASSUME NEW N \in Nat, NEW count \in [Requests -> 0..N], NEW t \in Requests,
         count[t] < N
  PROVE  Incr(count, t) \in [Requests -> 0..N]
BY DEF Incr

\* A sent answer is counted once.
LEMMA AnswerNat ==
  ASSUME TypeOK, NEW t \in Requests, Answer(t)
  PROVE  answered' \in [Requests -> Nat]
<1>1. answered \in [Requests -> Nat]
  BY DEF TypeOK
<1>2. Incr(answered, t) \in [Requests -> Nat]
  BY <1>1, IncrNat
<1> QED BY <1>1, <1>2 DEF Answer

LEMMA InitInv == Init => IInv
<1> SUFFICES ASSUME Init PROVE IInv
  OBVIOUS
<1> USE LoopAssumption, MessagesAssumption DEF Init, LoopInit, Requests
<1>1. LoopTypeOK
  <2>1. running \in BOOLEAN /\ stopping \in BOOLEAN
    OBVIOUS
  <2> QED BY <2>1 DEF LoopTypeOK, ThreadStates, Faults
<1>2. TypeOK
  <2>1. /\ regPending \in BOOLEAN /\ resourceReported \in BOOLEAN /\ reportHeld \in BOOLEAN
        /\ callbacks \subseteq Callbacks
    OBVIOUS
  <2> QED BY <1>1, <2>1 DEF TypeOK, ClientStatus, Kinds, Many
<1>3. EventThreadHasContext
  BY DEF EventThreadHasContext
<1>4. QueueInv /\ OwnershipInv
  BY DEF QueueInv, OwnershipInv
<1> QED BY <1>2, <1>3, <1>4 DEF IInv

\* Every variable keeps its type.
LEMMA TypeStep == TypeOK /\ [Next]_vars => TypeOK'
<1> SUFFICES ASSUME TypeOK, [Next]_vars PROVE TypeOK'
  OBVIOUS
<1> USE LoopAssumption, MessagesAssumption DEF TypeOK, LoopTypeOK, Requests
<1>1. CASE LoopTest
  BY <1>1 DEF LoopTest, LoopHead, ThreadStates, regVars, arrivalVars, requestVars
<1>2. CASE PollEvent
  <2>1. LoopTypeOK' /\ events' \in Seq(Requests \cup RegReplies)
    BY <1>2 DEF PollEvent, Polled, ThreadStates
  <2>2. CASE ProcessMessage(Head(events)) /\ Head(events) \in Requests
    <3>1. answered' \in [Requests -> Nat]
      BY <2>2, AnswerNat DEF ProcessMessage, HandleMessage, HandleQuery, HandleSnap
    <3>2. freed' \in [Requests -> Nat]
      BY <2>2, IncrNat DEF ProcessMessage
    <3>3. waiting' \subseteq Requests /\ asked' \subseteq Requests /\ handled' \subseteq Requests
      BY <2>2 DEF ProcessMessage, HandleMessage, HandleQuery, HandleSnap
    <3> QED
      BY <1>2, <2>1, <2>2, <3>1, <3>2, <3>3
      DEF PollEvent, ProcessMessage, regVars, arrivalVars
  <2>3. CASE ProcessRegisterReply(Head(events)) /\ Head(events) \in RegReplies
    BY <1>2, <2>1, <2>3 DEF PollEvent, ProcessRegisterReply, RegReplies, ClientStatus,
       requestVars, arrivalVars
  <2> QED BY <1>2, <2>2, <2>3 DEF PollEvent
<1>3. CASE PollTimeout
  BY <1>3 DEF PollTimeout, Polled, ThreadStates, regVars, arrivalVars, requestVars
<1>4. CASE Collect
  BY <1>4 DEF Collect, TakeTasks, ThreadStates, arrivalVars, requestVars
<1>5. CASE RunClosure
  <2>1. LoopTypeOK' /\ Head(batch) \in Requests
    BY <1>5 DEF RunClosure, TaskStep
  <2>2. CASE RunAnswer(Head(batch))
    <3>1. answered' \in [Requests -> Nat] /\ freed' \in [Requests -> Nat]
      <4>1. Incr(freed, Head(batch)) \in [Requests -> Nat]
        BY <2>1, IncrNat
      <4>2. CASE Answer(Head(batch)) /\ freed' = Incr(freed, Head(batch))
        BY <2>1, <4>1, <4>2, AnswerNat
      <4> QED BY <2>2, <4>2 DEF RunAnswer
    <3> QED BY <1>5, <2>1, <2>2, <3>1 DEF RunClosure, RunAnswer, regVars, arrivalVars
  <2>3. CASE RunNotify(Head(batch))
    <3>1. notified' \in [Requests -> 0..Many]
      <4>1. Many \in Nat
        BY DEF Many
      <4>2. notified[Head(batch)] < Many => Incr(notified, Head(batch)) \in [Requests -> 0..Many]
        BY <2>1, <4>1, IncrBounded
      <4> QED BY <2>3, <4>2 DEF RunNotify
    <3> QED BY <1>5, <2>1, <2>3, <3>1 DEF RunClosure, RunNotify, regVars, arrivalVars
  <2> QED BY <1>5, <2>2, <2>3 DEF RunClosure
<1>6. CASE LoopEnd
  BY <1>6 DEF LoopEnd, BatchDone, ThreadStates, regVars, arrivalVars, requestVars
<1>7. CASE InitClient
  BY <1>7 DEF InitClient, InitContext, ClientStatus, arrivalVars, requestVars
<1>8. CASE StartRegister
  BY <1>8 DEF StartRegister, StartLoop, ClientStatus, ThreadStates, Faults,
     arrivalVars, requestVars
<1>9. CASE StopCalled
  BY <1>9 DEF StopCalled, StopBegin, regVars, arrivalVars, requestVars
<1>10. CASE StopQuits
  <2>1. running' \in BOOLEAN /\ stopping' \in BOOLEAN /\ regPending' \in BOOLEAN
    BY <1>10 DEF StopQuits, StopEnd
  <2>2. LoopTypeOK'
    BY <1>10, <2>1 DEF StopQuits, StopEnd, ThreadStates
  <2> QED BY <1>10, <2>1, <2>2 DEF StopQuits, arrivalVars, requestVars
<1>11. ASSUME NEW t \in Requests, NEW k \in Kinds, Arrive(t, k) PROVE TypeOK'
  BY <1>11 DEF Arrive, loopVars, regVars, requestVars
<1>12. ASSUME NEW reply \in RegReplies, RegisterReply(reply) PROVE TypeOK'
  <2>1. regPending' \in BOOLEAN /\ LoopTypeOK'
    BY <1>12 DEF RegisterReply, loopVars
  <2> QED BY <1>12, <2>1 DEF RegisterReply, loopVars, arrivalVars, requestVars
<1>13. ASSUME NEW w \in Workers, NEW t \in Requests, Complete(w, t) PROVE TypeOK'
  BY <1>13 DEF Complete, AsyncTest, Incr, regVars, arrivalVars, requestVars
<1>14. ASSUME NEW w \in Workers, Push(w) PROVE TypeOK'
  BY <1>14 DEF Push, AsyncPush, Faults, regVars, arrivalVars, requestVars
<1>15. CASE InvokeReport
  BY <1>15 DEF InvokeReport, Faults, arrivalVars, requestVars
<1>16. CASE UNCHANGED vars
  BY <1>16 DEF vars, loopVars, regVars, arrivalVars, requestVars
<1> QED
  BY <1>1, <1>2, <1>3, <1>4, <1>5, <1>6, <1>7, <1>8, <1>9, <1>10, <1>11, <1>12,
     <1>13, <1>14, <1>15, <1>16 DEF Next, EventThread, Control, Peer, Application

-----------------------------------------------------------------------------

\* stop() joins before it quits the context.
LEMMA ContextStep == TypeOK /\ EventThreadHasContext /\ [Next]_vars => EventThreadHasContext'
<1> SUFFICES ASSUME TypeOK, EventThreadHasContext, [Next]_vars
             PROVE  EventThreadHasContext'
  OBVIOUS
<1> USE DEF EventThreadHasContext
<1>1. CASE EventThread
  BY <1>1 DEF EventThread, LoopTest, LoopHead, PollEvent, PollTimeout, Polled, Collect,
     TakeTasks, RunClosure, TaskStep, LoopEnd, BatchDone
<1>2. CASE InitClient
  BY <1>2 DEF InitClient, InitContext, TypeOK, LoopTypeOK
<1>3. CASE StartRegister \/ StopCalled \/ StopQuits
  BY <1>3 DEF StartRegister, StartLoop, StopCalled, StopBegin, StopQuits, StopEnd
<1>4. CASE Peer \/ Application
  BY <1>4 DEF Peer, Application, Arrive, RegisterReply, Complete, AsyncTest, Push,
     AsyncPush, InvokeReport, loopVars
<1> QED BY <1>1, <1>2, <1>3, <1>4 DEF Next, Control, vars, loopVars

\* Neither the queue nor the event of a request is touched by a step that leaves
\* these variables alone.
LEMMA RequestStutter ==
  ASSUME QueueInv, OwnershipInv,
         UNCHANGED <<events, kind, handled, waiting, answered, freed>>
  PROVE  QueueInv' /\ OwnershipInv'
BY DEF QueueInv, OwnershipInv

\* A step that takes the head of the queue keeps the rest of it in order.
LEMMA QueueTail ==
  ASSUME TypeOK, QueueInv, events # <<>>, events' = Tail(events), kind' = kind,
         handled' = handled \/ (Head(events) \in Requests /\ handled' = handled \cup {Head(events)})
  PROVE  QueueInv'
<1>1. /\ Len(events') = Len(events) - 1 /\ Len(events) \in Nat
      /\ \A i \in 1..Len(events') : i + 1 \in 1..Len(events) /\ events'[i] = events[i + 1]
      /\ Head(events) = events[1] /\ 1 \in 1..Len(events)
  BY DEF TypeOK
<1>2. \A t \in handled' : kind'[t] # "none"
  BY <1>1 DEF QueueInv
<1>3. \A i \in 1..Len(events') :
        events'[i] \in Requests => kind'[events'[i]] # "none" /\ events'[i] \notin handled'
  <2> SUFFICES ASSUME NEW i \in 1..Len(events'), events'[i] \in Requests
               PROVE  kind'[events'[i]] # "none" /\ events'[i] \notin handled'
    OBVIOUS
  <2>1. i + 1 # 1 /\ i + 1 \in 1..Len(events) /\ events'[i] = events[i + 1]
    BY <1>1
  <2>2. events[i + 1] # events[1]
    BY <1>1, <2>1 DEF QueueInv
  <2> QED BY <1>1, <2>1, <2>2 DEF QueueInv
<1>4. \A i, j \in 1..Len(events') :
        i # j /\ events'[i] \in Requests => events'[i] # events'[j]
  <2> SUFFICES ASSUME NEW i \in 1..Len(events'), NEW j \in 1..Len(events'), i # j,
                      events'[i] \in Requests
               PROVE  events'[i] # events'[j]
    OBVIOUS
  <2>1. i + 1 # j + 1
    OBVIOUS
  <2> QED BY <1>1, <2>1 DEF QueueInv
<1> QED BY <1>2, <1>3, <1>4 DEF QueueInv

\* Answering adds at most one to one request's count.
LEMMA AnswerBy ==
  ASSUME TypeOK, NEW t \in Requests, Answer(t)
  PROVE  \A u \in Requests : answered'[u] <= answered[u] + (IF u = t THEN 1 ELSE 0)
BY DEF TypeOK, Answer, Incr

LEMMA PollStep ==
  ASSUME TypeOK, QueueInv, OwnershipInv, PollEvent
  PROVE  QueueInv' /\ OwnershipInv'
<1> DEFINE e == Head(events)
<1>1. events # <<>> /\ events' = Tail(events) /\ kind' = kind
  BY DEF PollEvent, arrivalVars
<1>2. CASE e \in Requests /\ ProcessMessage(e)
  <2>1. QueueInv'
    BY <1>1, <1>2, QueueTail DEF ProcessMessage
  <2>2. e \notin handled /\ kind[e] # "none"
    BY <1>1, <1>2 DEF QueueInv, TypeOK
  <2>3. e \notin waiting /\ freed[e] = 0 /\ answered[e] <= 0
    BY <1>2, <2>2 DEF OwnershipInv
  <2>4. CASE kind[e] = "query" /\ "query" \in callbacks
    <3>1. /\ waiting' = waiting \cup {e} /\ handled' = handled \cup {e}
          /\ e \in waiting' /\ UNCHANGED <<answered, freed>>
      BY <1>2, <2>4 DEF ProcessMessage, HandleMessage, HandleQuery, HandleSnap
    <3>2. OwnershipInv'
      BY <1>2, <2>3, <3>1 DEF OwnershipInv
    <3> QED BY <2>1, <3>2
  <2>5. CASE ~(kind[e] = "query" /\ "query" \in callbacks)
    <3>1. waiting' = waiting
      BY <1>2, <2>5 DEF ProcessMessage, HandleMessage, HandleQuery, HandleSnap
    <3>2. freed' = Incr(freed, e) /\ handled' = handled \cup {e}
      BY <1>2, <2>3, <3>1 DEF ProcessMessage
    <3>3. answered' = answered \/ Answer(e)
      BY <1>2, <2>5 DEF ProcessMessage, HandleMessage, HandleQuery, HandleSnap
    <3>4. answered \in [Requests -> Nat] /\ freed \in [Requests -> Nat]
      BY DEF TypeOK
    <3>5. \A u \in Requests : answered'[u] <= answered[u] + (IF u = e THEN 1 ELSE 0)
      <4>1. CASE answered' = answered
        BY <3>4, <4>1
      <4>2. CASE Answer(e)
        BY <1>2, <4>2, AnswerBy
      <4> QED BY <3>3, <4>1, <4>2
    <3>6. answered' \in [Requests -> Nat]
      BY <1>2, <3>3, <3>4, AnswerNat
    <3>7. OwnershipInv'
      BY <1>2, <2>3, <3>1, <3>2, <3>4, <3>5, <3>6 DEF OwnershipInv, Incr
    <3> QED BY <2>1, <3>7
  <2> QED BY <2>1, <2>4, <2>5
<1>3. CASE ProcessRegisterReply(e)
  <2>1. UNCHANGED <<handled, waiting, answered, freed>>
    BY <1>3 DEF ProcessRegisterReply, requestVars
  <2> QED BY <1>1, <2>1, QueueTail DEF OwnershipInv
<1> QED BY <1>2, <1>3 DEF PollEvent

LEMMA RunStep ==
  ASSUME TypeOK, QueueInv, OwnershipInv, RunClosure
  PROVE  QueueInv' /\ OwnershipInv'
<1> DEFINE t == Head(batch)
<1>1. t \in Requests
  BY DEF RunClosure, TaskStep, TypeOK, LoopTypeOK, Requests
<1>2. UNCHANGED <<events, kind, handled>>
  BY DEF RunClosure, arrivalVars
<1>3. QueueInv'
  BY <1>2 DEF QueueInv
<1>4. CASE UNCHANGED <<waiting, answered, freed>>
  BY <1>2, <1>4, RequestStutter
<1>5. CASE RunAnswer(t) /\ t \in waiting
  <2>1. waiting' = waiting \ {t} /\ freed' = Incr(freed, t) /\ Answer(t)
    BY <1>5 DEF RunAnswer
  <2>2. \A u \in Requests : answered'[u] <= answered[u] + (IF u = t THEN 1 ELSE 0)
    BY <1>1, <2>1, AnswerBy
  <2>3. answered' \in [Requests -> Nat]
    BY <1>1, <2>1, AnswerNat
  <2>4. t \in handled /\ freed[t] = 0 /\ answered[t] <= 0
    BY <1>1, <1>5 DEF OwnershipInv
  <2>5. OwnershipInv'
    <3>1. answered \in [Requests -> Nat] /\ freed \in [Requests -> Nat]
      BY DEF TypeOK
    <3> QED BY <1>1, <1>2, <2>1, <2>2, <2>3, <2>4, <3>1 DEF OwnershipInv, Incr
  <2> QED BY <1>3, <2>5
<1>6. CASE RunAnswer(t) /\ t \notin waiting
  <2>1. waiting' = waiting /\ UNCHANGED <<answered, freed>>
    BY <1>6 DEF RunAnswer, TypeOK
  <2> QED BY <1>2, <2>1, RequestStutter
<1>7. CASE RunNotify(t)
  BY <1>4, <1>7 DEF RunNotify
<1> QED BY <1>5, <1>6, <1>7 DEF RunClosure

\* A new request is queued behind the others and has not been handled.
LEMMA ArriveStep ==
  ASSUME TypeOK, QueueInv, OwnershipInv, NEW t \in Requests, NEW k \in Kinds, Arrive(t, k)
  PROVE  QueueInv' /\ OwnershipInv'
<1>1. /\ kind[t] = "none" /\ kind' = [kind EXCEPT ![t] = k] /\ k # "none"
      /\ events' = Append(events, t)
      /\ UNCHANGED <<handled, waiting, answered, freed>>
  BY DEF Arrive, requestVars, Kinds
<1>2. /\ Len(events') = Len(events) + 1 /\ Len(events) \in Nat
      /\ \A i \in 1..Len(events) : events'[i] = events[i]
      /\ events'[Len(events')] = t
      /\ \A i \in 1..Len(events') : i \in 1..Len(events) \/ i = Len(events')
  BY <1>1 DEF TypeOK
<1>3. t \notin handled /\ \A i \in 1..Len(events) : events[i] # t
  BY <1>1 DEF QueueInv
<1>4. \A u \in Requests : u # t => kind'[u] = kind[u]
  BY <1>1 DEF TypeOK
<1>5. kind'[t] # "none"
  BY <1>1 DEF TypeOK
<1>6. \A u \in handled' : kind'[u] # "none"
  BY <1>1, <1>4, <1>5 DEF QueueInv, TypeOK
<1>7. \A i \in 1..Len(events') :
        events'[i] \in Requests => kind'[events'[i]] # "none" /\ events'[i] \notin handled'
  BY <1>1, <1>2, <1>3, <1>4, <1>5 DEF QueueInv
<1>8. \A i, j \in 1..Len(events') :
        i # j /\ events'[i] \in Requests => events'[i] # events'[j]
  BY <1>2, <1>3 DEF QueueInv
<1>9. OwnershipInv'
  BY <1>1 DEF OwnershipInv
<1> QED BY <1>6, <1>7, <1>8, <1>9 DEF QueueInv

\* A REGISTER reply is not a request.
LEMMA ReplyStep ==
  ASSUME TypeOK, QueueInv, OwnershipInv, NEW reply \in RegReplies, RegisterReply(reply)
  PROVE  QueueInv' /\ OwnershipInv'
<1>1. /\ events' = Append(events, reply) /\ reply \notin Requests
      /\ UNCHANGED <<kind, handled, waiting, answered, freed>>
  BY EventNames DEF RegisterReply, arrivalVars, requestVars
<1>2. /\ Len(events') = Len(events) + 1 /\ Len(events) \in Nat
      /\ \A i \in 1..Len(events) : events'[i] = events[i]
      /\ events'[Len(events')] = reply
      /\ \A i \in 1..Len(events') : i \in 1..Len(events) \/ i = Len(events')
  BY <1>1 DEF TypeOK
<1>3. QueueInv'
  BY <1>1, <1>2 DEF QueueInv
<1>4. OwnershipInv'
  BY <1>1 DEF OwnershipInv
<1> QED BY <1>3, <1>4

LEMMA RequestStep ==
  TypeOK /\ QueueInv /\ OwnershipInv /\ [Next]_vars => QueueInv' /\ OwnershipInv'
<1> SUFFICES ASSUME TypeOK, QueueInv, OwnershipInv, [Next]_vars
             PROVE  QueueInv' /\ OwnershipInv'
  OBVIOUS
<1>1. CASE PollEvent
  BY <1>1, PollStep
<1>2. CASE RunClosure
  BY <1>2, RunStep
<1>3. CASE LoopTest \/ PollTimeout \/ Collect \/ LoopEnd
  BY <1>3, RequestStutter DEF LoopTest, PollTimeout, Collect, LoopEnd, arrivalVars, requestVars
<1>4. CASE InitClient \/ StartRegister \/ StopCalled
  BY <1>4, RequestStutter DEF InitClient, StartRegister, StopCalled, arrivalVars, requestVars
<1>5. CASE StopQuits
  <2>1. events' = <<>> /\ UNCHANGED <<kind, handled, waiting, answered, freed>>
    BY <1>5 DEF StopQuits, arrivalVars, requestVars
  <2> QED BY <2>1 DEF QueueInv, OwnershipInv
<1>6. CASE Peer
  BY <1>6, ArriveStep, ReplyStep DEF Peer
<1>7. CASE Application
  BY <1>7, RequestStutter DEF Application, Complete, Push, InvokeReport, arrivalVars, requestVars
<1>8. CASE UNCHANGED vars
  BY <1>8, RequestStutter DEF vars, arrivalVars, requestVars
<1> QED
  BY <1>1, <1>2, <1>3, <1>4, <1>5, <1>6, <1>7, <1>8 DEF Next, EventThread, Control

-----------------------------------------------------------------------------

\* The inductive invariant holds in every reachable state.
THEOREM Invariance == Spec => []IInv
<1>1. IInv /\ [Next]_vars => IInv'
  BY TypeStep, ContextStep, RequestStep DEF IInv
<1> QED BY <1>1, InitInv, PTL DEF Spec

\* The variables have their types, whatever the number of workers and requests.
THEOREM TypeCorrect == Spec => []TypeOK
<1>1. IInv => TypeOK
  BY DEF IInv
<1> QED BY <1>1, Invariance, PTL

\* The event of a request is freed once and not lost (SipBClient.cpp:777, 663).
THEOREM OwnershipCorrect == Spec => []EventOwnership
<1>1. IInv => EventOwnership
  BY DEF IInv, TypeOK, OwnershipInv, EventOwnership
<1> QED BY <1>1, Invariance, PTL

\* A request is answered at most once although closures run again and again.
THEOREM AnsweredOnceCorrect == Spec => []AnsweredOnce
<1>1. IInv => AnsweredOnce
  <2> SUFFICES ASSUME IInv, NEW t \in Requests PROVE answered[t] <= 1
    BY DEF AnsweredOnce
  <2>1. answered[t] \in Nat /\ freed[t] \in Nat
    BY DEF IInv, TypeOK
  <2>2. answered[t] <= freed[t] /\ (freed[t] = 0 \/ freed[t] = 1)
    BY DEF IInv, OwnershipInv
  <2> QED BY <2>1, <2>2
<1> QED BY <1>1, Invariance, PTL

\* The event thread runs on a context that stop() has not quit.
THEOREM ContextCorrect == Spec => []EventThreadHasContext
<1>1. IInv => EventThreadHasContext
  BY DEF IInv
<1> QED BY <1>1, Invariance, PTL

-----------------------------------------------------------------------------
(* The implementation of RequestPromise.                                   *)

\* A closure exists only for a request the application was asked about and has
\* completed, wherever the closure is.
Called(t) == t \in handled /\ completions[t] > 0

ClosureInv ==
  /\ asked \subseteq handled
  /\ \A w \in Workers : posting[w] # Idle => Called(posting[w])
  /\ \A i \in 1..Len(runList) : Called(runList[i])
  /\ \A i \in 1..Len(batch) : Called(batch[i])

LEMMA ClosureInit == Init => ClosureInv
BY DEF Init, LoopInit, ClosureInv

\* A completion stays called.
LEMMA CalledStays ==
  ASSUME TypeOK, handled \subseteq handled',
         completions' = completions \/ \E t \in Requests : completions' = Incr(completions, t)
  PROVE  \A t \in Requests : Called(t) => Called(t)'
<1>1. \A t \in Requests : completions[t] \in Nat
  BY MessagesAssumption DEF TypeOK
<1>2. \A t \in Requests : completions'[t] = completions[t] \/ completions'[t] = completions[t] + 1
  BY DEF TypeOK, Incr
<1> QED BY <1>1, <1>2 DEF Called

LEMMA ClosureStutter ==
  ASSUME ClosureInv,
         UNCHANGED <<handled, asked, completions, posting, runList, batch>>
  PROVE  ClosureInv'
BY DEF ClosureInv, Called

LEMMA ClosurePoll == ASSUME TypeOK, ClosureInv, PollEvent PROVE ClosureInv'
<1>1. UNCHANGED <<completions, posting, runList, batch>>
  BY DEF PollEvent, Polled
<1>2. handled \subseteq handled' /\ asked' \subseteq handled'
  BY DEF PollEvent, ProcessMessage, HandleMessage, ProcessRegisterReply, requestVars, ClosureInv
<1> QED BY <1>1, <1>2 DEF ClosureInv, Called

LEMMA ClosureComplete ==
  ASSUME TypeOK, ClosureInv, NEW w \in Workers, NEW t \in Requests, Complete(w, t)
  PROVE  ClosureInv'
<1>1. UNCHANGED <<handled, asked, runList, batch>> /\ completions' = Incr(completions, t)
  BY DEF Complete, AsyncTest, requestVars
<1>2. \A u \in Requests : Called(u) => Called(u)'
  BY <1>1, CalledStays
<1>3. Called(t)'
  BY <1>1 DEF Complete, ClosureInv, Called, TypeOK, Incr
<1>4. /\ \A i \in 1..Len(runList) : runList[i] \in Requests
      /\ \A i \in 1..Len(batch) : batch[i] \in Requests
  <2>1. runList \in Seq(Requests) /\ batch \in Seq(Requests)
    BY DEF TypeOK, LoopTypeOK, Requests
  <2> QED BY <2>1
<1>5. \A v \in Workers : posting'[v] # Idle => (Called(posting[v]))'
  <2> SUFFICES ASSUME NEW v \in Workers, posting'[v] # Idle
               PROVE  posting'[v] \in handled' /\ completions'[posting'[v]] > 0
    BY DEF Called
  <2>1. posting[v] \in Requests \cup {Idle} /\ posting \in [Workers -> Tasks \cup {Idle}]
    BY DEF TypeOK, LoopTypeOK, Requests
  <2>2. posting'[v] = posting[v] \/ posting'[v] = t
    BY <2>1 DEF Complete, AsyncTest
  <2>3. CASE posting'[v] = t
    BY <1>3, <2>3 DEF Called
  <2>4. CASE posting'[v] = posting[v]
    <3>1. posting[v] \in Requests /\ Called(posting[v])
      BY <2>1, <2>4 DEF ClosureInv
    <3> QED BY <1>2, <2>4, <3>1 DEF Called
  <2> QED BY <2>2, <2>3, <2>4
<1>6. /\ \A i \in 1..Len(runList) : Called(runList[i])'
      /\ \A i \in 1..Len(batch) : Called(batch[i])'
  <2>1. \A u \in Requests : Called(u) => u \in handled' /\ completions'[u] > 0
    BY <1>2 DEF Called
  <2> QED BY <1>1, <1>4, <2>1 DEF ClosureInv, Called
<1>7. asked' \subseteq handled'
  BY <1>1 DEF ClosureInv
<1> QED BY <1>1, <1>5, <1>6, <1>7 DEF ClosureInv

LEMMA ClosurePush == ASSUME TypeOK, ClosureInv, NEW w \in Workers, Push(w) PROVE ClosureInv'
<1>1. /\ UNCHANGED <<handled, asked, completions, batch>>
      /\ runList' = Append(runList, posting[w]) /\ posting[w] # Idle
      /\ posting' = [posting EXCEPT ![w] = Idle]
  BY DEF Push, AsyncPush, requestVars
<1>2. \A v \in Workers : posting'[v] # Idle => posting'[v] = posting[v]
  BY <1>1 DEF TypeOK, LoopTypeOK
<1>3. \A i \in 1..Len(runList') : Called(runList'[i])
  <2>1. runList \in Seq(Tasks) /\ posting[w] \in Tasks
    BY <1>1 DEF TypeOK, LoopTypeOK
  <2>2. \A i \in 1..Len(runList') : (i \in 1..Len(runList) /\ runList'[i] = runList[i])
                                   \/ runList'[i] = posting[w]
    BY <1>1, <2>1
  <2> QED BY <1>1, <2>2 DEF ClosureInv
<1> QED BY <1>1, <1>2, <1>3 DEF ClosureInv, Called

LEMMA ClosureRun == ASSUME TypeOK, ClosureInv, RunClosure PROVE ClosureInv'
<1>1. UNCHANGED <<handled, asked, completions, posting, runList>> /\ batch' = Tail(batch)
  BY DEF RunClosure, TaskStep
<1>2. batch \in Seq(Tasks) /\ batch # <<>>
  BY DEF RunClosure, TaskStep, TypeOK, LoopTypeOK
<1>3. \A i \in 1..Len(batch') : i + 1 \in 1..Len(batch) /\ batch'[i] = batch[i + 1]
  BY <1>1, <1>2
<1> QED BY <1>1, <1>3 DEF ClosureInv, Called

LEMMA ClosureStep == TypeOK /\ ClosureInv /\ [Next]_vars => ClosureInv'
<1> SUFFICES ASSUME TypeOK, ClosureInv, [Next]_vars PROVE ClosureInv'
  OBVIOUS
<1>1. CASE PollEvent
  BY <1>1, ClosurePoll
<1>2. CASE RunClosure
  BY <1>2, ClosureRun
<1>3. CASE Collect
  BY <1>3 DEF Collect, TakeTasks, requestVars, ClosureInv, Called
<1>4. CASE LoopTest \/ PollTimeout \/ LoopEnd
  BY <1>4, ClosureStutter DEF LoopTest, LoopHead, PollTimeout, Polled, LoopEnd, BatchDone, requestVars
<1>5. CASE Control
  BY <1>5, ClosureStutter DEF Control, InitClient, InitContext, StartRegister, StartLoop,
     StopCalled, StopBegin, StopQuits, StopEnd, requestVars
<1>6. CASE Peer \/ InvokeReport
  BY <1>6, ClosureStutter DEF Peer, Arrive, RegisterReply, InvokeReport, loopVars, requestVars
<1>7. CASE Application /\ ~InvokeReport
  BY <1>7, ClosureComplete, ClosurePush DEF Application
<1>8. CASE UNCHANGED vars
  BY <1>8, ClosureStutter DEF vars, loopVars, requestVars
<1> QED
  BY <1>1, <1>2, <1>3, <1>4, <1>5, <1>6, <1>7, <1>8 DEF Next, EventThread, Application

\* Every closure was posted by a completion of the application.
THEOREM ClosuresAreCompletions == Spec => []ClosureInv
<1>1. TypeOK /\ ClosureInv /\ [Next]_vars => ClosureInv'
  BY ClosureStep
<1> QED BY <1>1, ClosureInit, TypeCorrect, PTL DEF Spec

LEMMA PhaseOfOne ==
  ASSUME NEW t \in Requests,
         \A u \in Requests : u # t => /\ (u \in waiting') = (u \in waiting)
                                  /\ (u \in handled') = (u \in handled)
  PROVE  \A s : Phase'[t] = s => Phase' = [Phase EXCEPT ![t] = s]
BY DEF Phase

LEMMA PhaseStutter ==
  ASSUME UNCHANGED <<waiting, handled, answered, completions>>
  PROVE  UNCHANGED Promise!vars
BY DEF Phase, Completed, Promise!vars

LEMMA AnswerPromise ==
  ASSUME NEW t \in Requests, Answer(t)
  PROVE  answered' \in {answered, [answered EXCEPT ![t] = @ + 1]}
BY DEF Answer, Incr

LEMMA PromisePoll == ASSUME IInv, PollEvent PROVE Promise!Next \/ UNCHANGED Promise!vars
<1> DEFINE e == Head(events)
<1>1. events # <<>> /\ completions' = completions /\ Completed' = Completed
  BY DEF PollEvent, Completed
<1>2. CASE e \in Requests /\ ProcessMessage(e)
  <2>1. e \notin handled /\ e \notin waiting
    BY <1>1, <1>2 DEF IInv, TypeOK, QueueInv, OwnershipInv
  <2>2. handled' = handled \cup {e} /\ HandleMessage(e)
    BY <1>2 DEF ProcessMessage
  <2>3. Phase[e] = "new"
    BY <1>2, <2>1 DEF Phase
  <2>4. CASE waiting' = waiting \cup {e} /\ answered' = answered
    <3>1. Phase'[e] = "held"
      BY <1>2, <2>4 DEF Phase
    <3>2. Phase' = [Phase EXCEPT ![e] = "held"]
      BY <1>2, <2>2, <2>4, <3>1, PhaseOfOne
    <3> QED BY <1>1, <1>2, <2>3, <2>4, <3>2 DEF Promise!Next, Promise!Hold
  <2>5. CASE waiting' = waiting /\ (Answer(e) \/ answered' = answered)
    <3>1. Phase'[e] = "settled"
      BY <1>2, <2>1, <2>2, <2>5 DEF Phase
    <3>2. Phase' = [Phase EXCEPT ![e] = "settled"]
      BY <1>2, <2>2, <2>5, <3>1, PhaseOfOne
    <3>3. answered' \in {answered, [answered EXCEPT ![e] = @ + 1]}
      BY <1>2, <2>5, AnswerPromise
    <3> QED BY <1>1, <1>2, <2>3, <3>2, <3>3 DEF Promise!Next, Promise!Settle
  <2> QED BY <2>2, <2>4, <2>5 DEF HandleMessage, HandleQuery, HandleSnap
<1>3. CASE ProcessRegisterReply(e)
  BY <1>1, <1>3, PhaseStutter DEF ProcessRegisterReply, requestVars
<1> QED BY <1>2, <1>3 DEF PollEvent

LEMMA PromiseRun ==
  ASSUME IInv, ClosureInv, RunClosure
  PROVE  Promise!Next \/ UNCHANGED Promise!vars
<1> DEFINE t == Head(batch)
<1>1. t \in Requests /\ t = batch[1] /\ 1 \in 1..Len(batch)
  BY DEF RunClosure, TaskStep, IInv, TypeOK, LoopTypeOK, Requests
<1>2. UNCHANGED <<completions, handled>> /\ Completed' = Completed
  BY DEF RunClosure, Completed
<1>3. CASE RunAnswer(t) /\ t \in waiting
  <2>1. t \in handled /\ t \in Completed
    BY <1>1 DEF ClosureInv, Called, Completed
  <2>2. waiting' = waiting \ {t} /\ Answer(t)
    BY <1>3 DEF RunAnswer
  <2>3. Phase[t] = "held" /\ Phase'[t] = "settled"
    BY <1>1, <1>2, <1>3, <2>1, <2>2 DEF Phase
  <2>4. Phase' = [Phase EXCEPT ![t] = "settled"]
    BY <1>1, <1>2, <2>2, <2>3, PhaseOfOne
  <2>5. answered' \in {answered, [answered EXCEPT ![t] = @ + 1]}
    BY <1>1, <2>2, AnswerPromise
  <2> QED BY <1>1, <1>2, <2>1, <2>3, <2>4, <2>5 DEF Promise!Next, Promise!Settle
<1>4. CASE RunAnswer(t) /\ t \notin waiting
  <2>1. waiting' = waiting /\ answered' = answered
    BY <1>4 DEF RunAnswer, IInv, TypeOK
  <2> QED BY <1>2, <2>1, PhaseStutter
<1>5. CASE RunNotify(t)
  BY <1>2, <1>5, PhaseStutter DEF RunNotify
<1> QED BY <1>3, <1>4, <1>5 DEF RunClosure

LEMMA PromiseComplete ==
  ASSUME IInv, ClosureInv, NEW w \in Workers, NEW t \in Requests, Complete(w, t)
  PROVE  Promise!Next \/ UNCHANGED Promise!vars
<1>1. completions' = Incr(completions, t) /\ t \in handled /\ UNCHANGED <<waiting, handled, answered>>
  BY DEF Complete, ClosureInv, requestVars
<1>2. Phase' = Phase /\ Phase[t] # "new"
  BY <1>1 DEF Phase
<1>3. Completed' = Completed \cup {t}
  BY <1>1 DEF Completed, Incr, IInv, TypeOK
<1> QED BY <1>1, <1>2, <1>3 DEF Promise!Next, Promise!Complete

\* Every step of the client is a step of RequestPromise or leaves it alone.
LEMMA PromiseStep == IInv /\ ClosureInv /\ [Next]_vars => [Promise!Next]_(Promise!vars)
<1> SUFFICES ASSUME IInv, ClosureInv, [Next]_vars PROVE Promise!Next \/ UNCHANGED Promise!vars
  OBVIOUS
<1>1. CASE PollEvent
  BY <1>1, PromisePoll
<1>2. CASE RunClosure
  BY <1>2, PromiseRun
<1>3. CASE LoopTest \/ PollTimeout \/ Collect \/ LoopEnd
  BY <1>3, PhaseStutter DEF LoopTest, PollTimeout, Collect, LoopEnd, requestVars
<1>4. CASE Control
  BY <1>4, PhaseStutter
  DEF Control, InitClient, StartRegister, StopCalled, StopQuits, requestVars
<1>5. CASE Peer \/ InvokeReport \/ \E w \in Workers : Push(w)
  BY <1>5, PhaseStutter DEF Peer, Arrive, RegisterReply, InvokeReport, Push, requestVars
<1>6. CASE \E w \in Workers, t \in Requests : Complete(w, t)
  BY <1>6, PromiseComplete
<1>7. CASE UNCHANGED vars
  BY <1>7, PhaseStutter DEF vars, requestVars
<1> QED BY <1>1, <1>2, <1>3, <1>4, <1>5, <1>6, <1>7 DEF Next, EventThread, Application

\* The client implements RequestPromise: of a request held in _wait_answer_event
\* only a completion of the application leads to an answer, and to one only
\* (SipBClient.cpp:576, 663, 1073).
THEOREM RequestsKeepPromise == Spec => KeepsRequestPromise
<1>1. Init => Promise!Init
  BY DEF Init, Promise!Init, Phase, Completed
<1>2. Spec => Promise!Init /\ [][Promise!Next]_(Promise!vars)
  BY <1>1, PromiseStep, Invariance, ClosuresAreCompletions, PTL DEF Spec
<1> QED BY <1>2 DEF KeepsRequestPromise, Promise!Spec

=============================================================================
