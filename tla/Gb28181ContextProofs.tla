------------------------- MODULE Gb28181ContextProofs -------------------------
(***************************************************************************)
(* Proofs about Gb28181Context for every value of its constants: who uses  *)
(* the context finds one, apart from late completions, and a response      *)
(* follows the 200 of its query.                                           *)
(***************************************************************************)
EXTENDS Gb28181Context, TLAPS

\* The control thread knows where the event thread is, and holds the lock only to
\* build the REGISTER.
ControlInv ==
  /\ control \in {"register", "build", "launch"} => thread = "none" /\ exCtx # 0 /\ running
  /\ control \in {"join", "quit"} => ~running
  /\ control = "quit" => thread = "none"
  /\ control = "idle" /\ ~running => thread = "none"
  /\ control = "build" <=> lock = "control"

\* Only an acknowledged query is asked, and only what was asked is completed.
AskInv ==
  /\ thread \in {"ack", "ask", "reply"} => held \in Queries
  /\ thread \in {"ask", "reply"} => held \in acknowledged
  /\ \A q \in Queries : query[q] = "asked" \/ completing[q] # "no" => q \in acknowledged
  /\ responded \subseteq acknowledged

IInv == TypeOK /\ ControlInv /\ AskInv /\ fault # "event"

LEMMA InitInv == Init => IInv
<1> SUFFICES ASSUME Init PROVE IInv
  OBVIOUS
<1> USE ContextAssumption DEF Init, None
<1>1. TypeOK
  <2>1. <<>> \in Seq(Queries \cup Replies) /\ Len(<<>>) = 0
    OBVIOUS
  <2>2. \A q \in Queries : completing[q] = "send" <=> lock = q
    OBVIOUS
  <2>3. /\ query \in [Queries -> {"unsent", "queued", "taken", "asked", "lost"}]
        /\ completing \in [Queries -> {"no", "lock", "send"}]
    OBVIOUS
  <2>4. exCtx \in 0..inits /\ inits \in 0..MaxInits /\ completions \in 0..MaxCompletions
    OBVIOUS
  <2>5. events \in Seq(Queries \cup Replies) /\ Len(events) <= MaxEvents
    BY <2>1
  <2>6. QED
    BY <2>2, <2>3, <2>4, <2>5 DEF TypeOK, ThreadStates
<1>2. ControlInv /\ AskInv /\ fault # "event"
  BY DEF ControlInv, AskInv
<1>3. QED
  BY <1>1, <1>2 DEF IInv

-----------------------------------------------------------------------------
(* The control thread.                                                     *)

Control == InitContext \/ StartRegister \/ Stop \/ Release \/ Starting \/ Stopping

LEMMA ControlTypes == IInv /\ Control => TypeOK'
<1> SUFFICES ASSUME IInv, Control PROVE TypeOK'
  OBVIOUS
<1> USE ContextAssumption DEF Idle, Alive, threadVars, askVars, completeVars, None, ThreadStates
<1>1. TypeOK /\ ControlInv
  BY DEF IInv
<1>2. CASE InitContext
  BY <1>1, <1>2 DEF InitContext, TypeOK
<1>3. CASE StartRegister
  BY <1>1, <1>3 DEF StartRegister, TypeOK
<1>4. CASE LockToRegister
  BY <1>1, <1>4 DEF LockToRegister, TypeOK
<1>5. CASE SendInitialRegister
  BY <1>1, <1>5 DEF SendInitialRegister, TypeOK, ControlInv
<1>6. CASE Launch
  BY <1>1, <1>6 DEF Launch, TypeOK, ControlInv
<1>7. CASE Stop
  BY <1>1, <1>7 DEF Stop, TypeOK
<1>8. CASE Join
  BY <1>1, <1>8 DEF Join, TypeOK
<1>9. CASE Quit
  BY <1>1, <1>9 DEF Quit, TypeOK, ControlInv
<1>10. CASE Release
  BY <1>1, <1>10 DEF Release, TypeOK
<1>11. QED
  BY <1>2, <1>3, <1>4, <1>5, <1>6, <1>7, <1>8, <1>9, <1>10 DEF Control, Starting, Stopping

LEMMA ControlKeeps == IInv /\ Control => ControlInv' /\ AskInv' /\ fault' # "event"
<1> SUFFICES ASSUME IInv, Control PROVE ControlInv' /\ AskInv' /\ fault' # "event"
  OBVIOUS
<1> USE ContextAssumption DEF Idle, Alive, threadVars, askVars, completeVars, None
<1>1. CASE InitContext
  BY <1>1 DEF InitContext, IInv, TypeOK, ControlInv, AskInv
<1>2. CASE StartRegister
  BY <1>2 DEF StartRegister, IInv, ControlInv, AskInv
<1>3. CASE LockToRegister
  BY <1>3 DEF LockToRegister, IInv, ControlInv, AskInv
<1>4. CASE SendInitialRegister
  BY <1>4 DEF SendInitialRegister, IInv, ControlInv, AskInv
<1>5. CASE Launch
  BY <1>5 DEF Launch, IInv, ControlInv, AskInv
<1>6. CASE Stop
  BY <1>6 DEF Stop, IInv, ControlInv, AskInv
<1>7. CASE Join
  BY <1>7 DEF Join, IInv, ControlInv, AskInv
<1>8. CASE Quit
  BY <1>8 DEF Quit, IInv, TypeOK, ControlInv, AskInv
<1>9. CASE Release
  BY <1>9 DEF Release, IInv, ControlInv, AskInv
<1>10. QED
  BY <1>1, <1>2, <1>3, <1>4, <1>5, <1>6, <1>7, <1>8, <1>9 DEF Control, Starting, Stopping

-----------------------------------------------------------------------------
(* eXosip's thread and the application's.                                  *)

LEMMA BringInv ==
  ASSUME IInv, NEW event \in Queries \cup Replies, Bring(event),
         \/ UNCHANGED query
         \/ query' = [query EXCEPT ![event] = "queued"]
  PROVE  IInv'
<1> USE DEF controlVars, completeVars
<1>1. events' \in Seq(Queries \cup Replies) /\ Len(events') <= MaxEvents
  <2>1. events \in Seq(Queries \cup Replies) /\ Len(events) < MaxEvents /\ MaxEvents \in Nat
    BY ContextAssumption DEF IInv, TypeOK, Bring
  <2>2. events' = Append(events, event)
    BY DEF Bring
  <2>3. QED
    BY <2>1, <2>2
<1>2. TypeOK'
  BY <1>1 DEF IInv, TypeOK, Bring
<1>3. ControlInv' /\ AskInv' /\ fault' # "event"
  BY DEF IInv, TypeOK, ControlInv, AskInv, Bring
<1>4. QED
  BY <1>2, <1>3 DEF IInv

LEMMA CompleteInv ==
  ASSUME IInv, NEW q \in Queries, Complete(q) \/ Completing(q)
  PROVE  IInv'
<1> USE ContextAssumption DEF controlVars, threadVars, askVars, None, Alive
<1>1. CASE Complete(q)
  <2>1. TypeOK'
    BY <1>1 DEF Complete, IInv, TypeOK
  <2>2. QED
    BY <1>1, <2>1 DEF Complete, IInv, TypeOK, ControlInv, AskInv
<1>2. CASE LockToSend(q)
  <2>1. TypeOK'
    BY <1>2 DEF LockToSend, IInv, TypeOK
  <2>2. QED
    BY <1>2, <2>1 DEF LockToSend, IInv, TypeOK, ControlInv, AskInv
<1>3. CASE SendMessage(q)
  <2>1. TypeOK'
    BY <1>3 DEF SendMessage, Respond, IInv, TypeOK
  <2>2. QED
    BY <1>3, <2>1 DEF SendMessage, Respond, IInv, TypeOK, ControlInv, AskInv
<1>4. QED
  BY <1>1, <1>2, <1>3 DEF Completing

-----------------------------------------------------------------------------
(* The event thread.                                                       *)

LEMMA EventThreadTypes == IInv /\ EventThread => TypeOK'
<1> SUFFICES ASSUME IInv, EventThread PROVE TypeOK'
  OBVIOUS
<1> USE ContextAssumption
    DEF At, GoTo, UseContext, Alive, controlVars, threadVars, askVars, completeVars, None, ThreadStates
<1>1. TypeOK /\ AskInv
  BY DEF IInv
<1>2. CASE LoopHead
  BY <1>1, <1>2 DEF LoopHead, TypeOK
<1>3. CASE WaitEvent
  <2>1. /\ held' \in Queries \cup Replies \cup {None}
        /\ events' \in Seq(Queries \cup Replies) /\ Len(events') <= MaxEvents
    <3>1. events \in Seq(Queries \cup Replies) /\ Len(events) <= MaxEvents /\ MaxEvents \in Nat
      BY <1>1 DEF TypeOK
    <3>2. CASE events = <<>> /\ held' = None /\ UNCHANGED events
      BY <3>1, <3>2
    <3>3. CASE events # <<>> /\ held' = Head(events) /\ events' = Tail(events)
      <4>1. /\ Head(events) \in Queries \cup Replies /\ Tail(events) \in Seq(Queries \cup Replies)
            /\ Len(Tail(events)) = Len(events) - 1 /\ Len(events) \in Nat
        BY <3>1, <3>3
      <4>2. QED
        BY <3>1, <3>3, <4>1
    <3>4. QED
      BY <1>3, <3>2, <3>3 DEF WaitEvent
  <2>2. thread' \in ThreadStates /\ thread' # "none" /\ thread # "none"
    BY <1>3 DEF WaitEvent
  <2>3. UNCHANGED <<controlVars, askVars, completeVars, status, lock, fault>>
    BY <1>3 DEF WaitEvent
  <2>4. QED
    BY <1>1, <2>1, <2>2, <2>3 DEF TypeOK
<1>4. CASE Checks
  BY <1>1, <1>4 DEF Checks, TypeOK
<1>5. CASE DefaultAction
  BY <1>1, <1>5 DEF DefaultAction, TypeOK
<1>6. CASE HandleQuery
  BY <1>1, <1>6 DEF HandleQuery, TypeOK
<1>7. CASE HandleReply
  BY <1>1, <1>7 DEF HandleReply, TypeOK
<1>8. CASE Acknowledge
  BY <1>1, <1>8 DEF Acknowledge, TypeOK, AskInv
<1>9. CASE Ask
  BY <1>1, <1>9 DEF Ask, TypeOK, AskInv
<1>10. CASE Reply
  BY <1>1, <1>10 DEF Reply, Respond, TypeOK, AskInv
<1>11. QED
  BY <1>2, <1>3, <1>4, <1>5, <1>6, <1>7, <1>8, <1>9, <1>10 DEF EventThread

LEMMA EventThreadKeeps == IInv /\ EventThread => ControlInv' /\ AskInv' /\ fault' # "event"
<1> SUFFICES ASSUME IInv, EventThread PROVE ControlInv' /\ AskInv' /\ fault' # "event"
  OBVIOUS
<1> USE DEF At, GoTo, UseContext, Alive, controlVars, threadVars, askVars, completeVars, None
<1>1. thread # "none" => exCtx # 0
  BY DEF IInv, TypeOK
<1>2. ControlInv' /\ fault' # "event"
  <2>1. UNCHANGED <<controlVars, lock, fault>> /\ thread \notin {"none", "exited"}
    BY <1>1 DEF EventThread, LoopHead, WaitEvent, Checks, DefaultAction, HandleQuery, HandleReply,
                Acknowledge, Ask, Reply
  <2>2. QED
    BY <2>1 DEF IInv, ControlInv
<1> SUFFICES AskInv'
  BY <1>2
<1>3. TypeOK /\ AskInv
  BY DEF IInv
<1>4. CASE LoopHead
  BY <1>3, <1>4 DEF LoopHead, AskInv
<1>5. CASE WaitEvent
  BY <1>3, <1>5 DEF WaitEvent, AskInv
<1>6. CASE Checks
  BY <1>3, <1>6 DEF Checks, AskInv
<1>7. CASE DefaultAction
  BY <1>3, <1>7 DEF DefaultAction, AskInv
<1>8. CASE HandleQuery
  BY <1>3, <1>8 DEF HandleQuery, TypeOK, AskInv
<1>9. CASE HandleReply
  BY <1>3, <1>9 DEF HandleReply, AskInv
<1>10. CASE Acknowledge
  BY <1>3, <1>10 DEF Acknowledge, AskInv
<1>11. CASE Ask
  BY <1>3, <1>11 DEF Ask, TypeOK, AskInv
<1>12. CASE Reply
  BY <1>3, <1>12 DEF Reply, Respond, AskInv
<1>13. QED
  BY <1>4, <1>5, <1>6, <1>7, <1>8, <1>9, <1>10, <1>11, <1>12 DEF EventThread

-----------------------------------------------------------------------------

LEMMA NextInv == IInv /\ [Next]_vars => IInv'
<1> SUFFICES ASSUME IInv, [Next]_vars PROVE IInv'
  OBVIOUS
<1>1. CASE Control
  BY <1>1, ControlTypes, ControlKeeps DEF IInv
<1>2. CASE EventThread
  BY <1>2, EventThreadTypes, EventThreadKeeps DEF IInv
<1>3. ASSUME NEW reply \in Replies, BringReply(reply) PROVE IInv'
  BY <1>3, BringInv DEF BringReply
<1>4. ASSUME NEW q \in Queries, BringQuery(q) PROVE IInv'
  BY <1>4, BringInv DEF BringQuery
<1>5. ASSUME NEW q \in Queries, Complete(q) \/ Completing(q) PROVE IInv'
  BY <1>5, CompleteInv
<1>6. CASE UNCHANGED vars
  BY <1>6 DEF vars, controlVars, threadVars, askVars, completeVars, IInv, TypeOK, ControlInv, AskInv
<1>7. QED
  BY <1>1, <1>2, <1>3, <1>4, <1>5, <1>6 DEF Next, Control

\* Every reachable state satisfies the inductive invariant (Gb28181Client.cpp:99-182,
\* 420-558, 575-656).
THEOREM Invariance == Spec => []IInv
<1>1. QED
  BY InitInv, NextInv, PTL DEF Spec

\* The variables keep their types; there is a context while there is an event thread.
THEOREM TypeCorrect == Spec => []TypeOK
<1>1. IInv => TypeOK
  BY DEF IInv
<1>2. QED
  BY <1>1, Invariance, PTL

\* The event thread never uses a context that stop() has quit (Gb28181Client.cpp:110-125).
THEOREM FaultsAreLate == Spec => []OnlyLateCompletionsFault
<1>1. IInv => OnlyLateCompletionsFault
  BY DEF IInv, OnlyLateCompletionsFault
<1>2. QED
  BY <1>1, Invariance, PTL

\* A response is sent only after the 200 of its query, on whatever thread the
\* application completes it (Gb28181Client.cpp:439-520).
THEOREM ResponsesFollow == Spec => []RespondedAfterAcknowledged
<1>1. IInv => RespondedAfterAcknowledged
  BY DEF IInv, AskInv, RespondedAfterAcknowledged
<1>2. QED
  BY <1>1, Invariance, PTL

=============================================================================
