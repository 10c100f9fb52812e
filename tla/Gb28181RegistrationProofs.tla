----------------------- MODULE Gb28181RegistrationProofs -----------------------
(***************************************************************************)
(* Proofs about Gb28181Registration for every value of its constants: the  *)
(* type invariant and that the binding is refreshed before it ends.        *)
(***************************************************************************)
EXTENDS Gb28181Registration, TLAPS

\* The event that is handled, and those behind it.
Waiting(event) == held = event \/ \E i \in 1..Len(events) : events[i] = event

\* A second ends only when its events are handled and no REGISTER is overdue, so that
\* what the platform grants is no older than a transaction when the client hears of it.
LoopInv ==
  /\ thread = "wait" => held = NoEvent
  /\ ~running => events = <<>> /\ thread = "wait"
  /\ pending # "none" =>
       running /\ pendingSince <= now /\ now <= pendingSince + TransactionTimeout
  /\ accepted => pending # "none" /\ (bound = 0 \/ pendingSince + Expires <= bound)
  /\ Waiting("regOk") => bound = 0 \/ now + Expires <= bound + TransactionTimeout

TwoThirds == (Expires * 2) \div 3

InTime == 2 * TransactionTimeout + 1 < Expires - TwoThirds

\* When the refresh of a binding is due at the latest: two thirds of Expires after an
\* answer that may be a transaction younger than the binding.
DueBy(time) == time + Expires <= bound + TwoThirds + TransactionTimeout

\* A binding that counts has when its refresh is due either a REGISTER under way, or a
\* failure that is about to be handled, or is not that old.
UnderWay == pending # "none" /\ DueBy(pendingSince)
Failing == Waiting("regFail") /\ now + Expires <= bound + TwoThirds + 2 * TransactionTimeout
Young ==
  /\ pending = "none"
  /\ lastRegister + Expires <= bound + TransactionTimeout
  /\ DueBy(now)
  /\ looped => now + Expires < bound + TwoThirds + TransactionTimeout

Counting == running /\ status = "REGISTERED" /\ bound # 0 /\ ~refused

BindInv == InTime /\ Counting => UnderWay \/ Failing \/ Young

\* The keepalives since the last answer are sent in time: the first within an interval
\* of the answer, the second within an interval of the first.
AliveInv ==
  running /\ keptAlive =>
    /\ status = "REGISTERED"
    /\ unanswered = 0 =>
         /\ lastKeepAlive <= lastResponse
         /\ now <= lastResponse + KeepAliveInterval
         /\ looped => now < lastResponse + KeepAliveInterval
    /\ unanswered = 1 =>
         /\ lastKeepAlive <= lastResponse + KeepAliveInterval
         /\ now <= lastKeepAlive + KeepAliveInterval
         /\ looped => now < lastKeepAlive + KeepAliveInterval

IInv == TypeOK /\ LoopInv /\ BindInv /\ AliveInv

-----------------------------------------------------------------------------
(* Lemmas.                                                                 *)

LEMMA Numbers ==
  /\ TwoThirds \in Nat /\ Expires \in Nat \ {0} /\ TransactionTimeout \in Nat
  /\ KeepAliveInterval \in Nat /\ MaxTime \in Nat /\ MaxUnanswered \in Nat
  /\ InTime => TwoThirds > 0 /\ TwoThirds + 2 * TransactionTimeout < Expires
BY RegistrationAssumption DEF TwoThirds, InTime

\* What was asked by the time of an answer is no later than the refresh after it.
LEMMA WithinRefresh ==
  ASSUME NEW since \in Nat, NEW time \in Nat, NEW e \in Nat, NEW b \in Nat, NEW t \in Nat,
         NEW d \in Nat, since <= time, time + e <= b + d
  PROVE  since + e <= b + t + d
OBVIOUS

LEMMA Slack ==
  ASSUME NEW a \in Nat, NEW b \in Nat, NEW t \in Nat, NEW d \in Nat, a <= b
  PROVE  a <= b + t + d
OBVIOUS

LEMMA TypedNumbers ==
  ASSUME TypeOK
  PROVE  /\ now \in 0..MaxTime /\ now \in Nat /\ bound \in Nat /\ pendingSince \in Nat
         /\ lastRegister \in Nat /\ lastKeepAlive \in Nat /\ lastResponse \in Nat
         /\ events \in Seq(Events) /\ Len(events) \in Nat
BY RegistrationAssumption DEF TypeOK, Times

\* An event that arrives waits, and so do those that did before.
LEMMA Arrives ==
  ASSUME TypeOK, NEW e \in Events, Receive(e), held' = held, NEW x
  PROVE  Waiting(x)' <=> Waiting(x) \/ x = e
<1>1. events \in Seq(Events) /\ Len(events) \in Nat /\ events' = Append(events, e)
  BY DEF TypeOK, Receive
<1>2. /\ Len(events') = Len(events) + 1 /\ events'[Len(events) + 1] = e
      /\ \A i \in 1..Len(events) : events'[i] = events[i]
  BY <1>1
<1>3. \A i \in 1..Len(events') : i \in 1..Len(events) \/ i = Len(events) + 1
  BY <1>1, <1>2
<1>4. 1..Len(events) \subseteq 1..Len(events') /\ Len(events) + 1 \in 1..Len(events')
  BY <1>1, <1>2
<1>5. QED
  BY <1>2, <1>3, <1>4 DEF Waiting

\* Waiting for an event takes none away.
LEMMA Taken ==
  ASSUME TypeOK, LoopInv, WaitEvent, NEW x \in Events
  PROVE  Waiting(x)' <=> Waiting(x)
<1>1. held = NoEvent /\ x # NoEvent /\ events \in Seq(Events)
  BY DEF WaitEvent, LoopInv, TypeOK, Events, NoEvent
<1>2. CASE events # <<>> /\ held' = Head(events) /\ events' = Tail(events)
  <2>1. /\ Len(events) \in Nat \ {0} /\ Len(events') = Len(events) - 1
        /\ Head(events) = events[1]
        /\ \A i \in 1..Len(events') : events'[i] = events[i + 1]
    BY <1>1, <1>2
  <2>2. ASSUME Waiting(x)' PROVE Waiting(x)
    <3>1. CASE held' = x
      BY <1>2, <2>1, <3>1 DEF Waiting
    <3>2. CASE \E i \in 1..Len(events') : events'[i] = x
      <4>1. PICK i \in 1..Len(events') : events'[i] = x
        BY <3>2
      <4>2. i + 1 \in 1..Len(events) /\ events[i + 1] = x
        BY <2>1, <4>1
      <4>3. QED
        BY <4>2 DEF Waiting
    <3>3. QED
      BY <2>2, <3>1, <3>2 DEF Waiting
  <2>3. ASSUME Waiting(x) PROVE Waiting(x)'
    <3>1. PICK i \in 1..Len(events) : events[i] = x
      BY <1>1, <2>3 DEF Waiting
    <3>2. CASE i = 1
      BY <1>2, <2>1, <3>1, <3>2 DEF Waiting
    <3>3. CASE i # 1
      <4>1. i - 1 \in 1..Len(events') /\ events'[i - 1] = x
        BY <2>1, <3>1, <3>3
      <4>2. QED
        BY <4>1 DEF Waiting
    <3>4. QED
      BY <3>2, <3>3
  <2>4. QED
    BY <2>2, <2>3
<1>3. CASE events = <<>> /\ held' = NoEvent /\ UNCHANGED events
  BY <1>1, <1>3 DEF Waiting
<1>4. QED
  BY <1>2, <1>3 DEF WaitEvent

\* Nothing waits at the end of a second.
LEMMA Quiet ==
  ASSUME LoopInv, Tick, NEW x \in Events
  PROVE  ~Waiting(x) /\ ~Waiting(x)'
<1>1. events = <<>> /\ held = NoEvent /\ UNCHANGED <<events, held>>
  BY DEF LoopInv, Tick
<1>2. QED
  BY <1>1 DEF Waiting, Events, NoEvent

LEMMA InitInv == Init => IInv
<1> SUFFICES ASSUME Init PROVE IInv
  OBVIOUS
<1>1. TypeOK
  <2>1. <<>> \in Seq(Events) /\ 0 \in Counts /\ now \in Times /\ 1 \in 1..MaxStarts
    BY RegistrationAssumption DEF Counts, Times, Init
  <2>2. 0 \in 0..now /\ 0 \in 0..(MaxTime + Expires)
    BY RegistrationAssumption DEF Init
  <2>3. QED
    BY <2>1, <2>2 DEF Init, TypeOK, Registers
<1>2. LoopInv
  BY RegistrationAssumption DEF Init, LoopInv, Waiting, NoEvent
<1>3. QED
  BY <1>1, <1>2 DEF Init, IInv, BindInv, Counting, AliveInv

-----------------------------------------------------------------------------
(* What the loop body sends.                                               *)

LEMMA KeepAliveTypes ==
  ASSUME TypeOK, SendKeepAlive
  PROVE  lastKeepAlive' \in 0..now /\ awaiting' \in Counts /\ unanswered' \in Counts
BY RegistrationAssumption DEF TypeOK, SendKeepAlive, Counts, Times

LEMMA RegisterTypes ==
  ASSUME TypeOK, NEW kind \in Registers, SendRegister(kind)
  PROVE  pending' \in Registers /\ pendingSince' \in Times
BY DEF TypeOK, SendRegister

\* A REGISTER is sent unless another is pending.
LEMMA RegisterSent ==
  ASSUME TypeOK, NEW kind \in Registers, SendRegister(kind)
  PROVE  /\ pending # "none" => UNCHANGED <<pending, pendingSince>>
         /\ pending' # "none" => pending # "none" \/ pendingSince' = now
         /\ pending = "none" /\ kind # "none" => pending' # "none" /\ pendingSince' = now
         /\ pending = "none" /\ kind = "none" => pending' = "none"
BY DEF SendRegister

-----------------------------------------------------------------------------

\* While fewer than two keepalives are unanswered the platform is not given up, so
\* that the next one is sent when it is due.
LEMMA AliveSent ==
  ASSUME TypeOK, AliveInv, running, keptAlive, SendKeepAlive,
         UNCHANGED <<now, running, lastResponse, keptAlive>>, status' = "REGISTERED"
  PROVE  AliveInv' /\ (unanswered <= 1 => ~TimedOut)
<1>1. /\ now \in Nat /\ lastKeepAlive \in Nat /\ lastResponse \in Nat /\ unanswered \in Nat
      /\ KeepAliveInterval \in Nat /\ KeepAliveInterval > 0
      /\ MaxUnanswered \in Nat /\ MaxUnanswered >= 3 /\ unanswered <= MaxUnanswered
      /\ lastKeepAlive <= now /\ lastResponse <= now
  BY TypedNumbers, RegistrationAssumption DEF TypeOK, Counts
<1>2. unanswered <= 1 => now <= lastResponse + 2 * KeepAliveInterval
  BY <1>1 DEF AliveInv
<1>3. unanswered <= 1 => ~TimedOut
  BY <1>1, <1>2 DEF TimedOut
<1>4. CASE KeepAliveDue
  <2>1. lastKeepAlive' = now /\ unanswered' >= 1 /\ (unanswered >= 1 => unanswered' >= 2)
        /\ unanswered' \in Nat
    BY <1>1, <1>4 DEF SendKeepAlive
  <2>2. unanswered = 0 => now <= lastResponse + KeepAliveInterval
    BY DEF AliveInv
  <2>3. QED
    BY <1>1, <1>3, <2>1, <2>2 DEF AliveInv
<1>5. CASE ~KeepAliveDue
  <2>1. UNCHANGED <<lastKeepAlive, unanswered>>
    BY <1>5 DEF SendKeepAlive
  <2>2. unanswered <= 1 => now < lastKeepAlive + KeepAliveInterval
    BY <1>1, <1>3, <1>5 DEF KeepAliveDue
  <2>3. QED
    BY <1>1, <1>3, <2>1, <2>2 DEF AliveInv
<1>6. QED
  BY <1>4, <1>5

LEMMA TickInv == IInv /\ Tick => IInv'
<1> SUFFICES ASSUME IInv, Tick PROVE IInv'
  OBVIOUS
<1>1. TypeOK /\ LoopInv /\ BindInv /\ AliveInv /\ now' = now + 1 /\ looped' = FALSE
  BY DEF IInv, Tick
<1>2. /\ UNCHANGED <<starts, running, thread, held, events, status, lastRegister, lastKeepAlive,
                     lastResponse, pending, pendingSince, awaiting, unanswered, keptAlive,
                     bound, refused, accepted>>
  BY DEF Tick, clientVars, requestVars, historyVars, platformVars
<1>3. now' \in Times /\ now \in Nat /\ now' > now
  BY <1>1, TypedNumbers, Numbers DEF Tick, Times
<1>4. TypeOK'
  <2>1. lastRegister' \in 0..now' /\ lastKeepAlive' \in 0..now' /\ lastResponse' \in 0..now'
    BY <1>1, <1>2, <1>3 DEF TypeOK
  <2>2. QED
    BY <1>1, <1>2, <1>3, <2>1 DEF TypeOK
<1>5. LoopInv'
  <2>1. ~Waiting("regOk")'
    BY <1>1, Quiet DEF Events
  <2>2. pending # "none" => pendingSince <= now' /\ now' <= pendingSince + TransactionTimeout
    BY <1>1, <1>3, TypedNumbers, Numbers DEF LoopInv, Tick
  <2>3. QED
    BY <1>1, <1>2, <2>1, <2>2 DEF LoopInv
<1>6. BindInv'
  <2> SUFFICES ASSUME InTime, Counting PROVE UnderWay' \/ Young'
    BY <1>2 DEF BindInv, Counting, InTime, TwoThirds
  <2>1. ~Failing /\ looped
    BY <1>1, Quiet DEF DueBy, Failing, Events, Counting, Tick
  <2>2. CASE UnderWay
    BY <1>2, <2>2 DEF UnderWay, DueBy, TwoThirds
  <2>3. CASE Young
    <3>1. now + Expires < bound + TwoThirds + TransactionTimeout
      BY <2>1, <2>3 DEF Young
    <3>2. now' + Expires <= bound + TwoThirds + TransactionTimeout
      <4>1. bound \in Nat /\ TwoThirds \in Nat /\ TransactionTimeout \in Nat /\ Expires \in Nat
        BY <1>1, TypedNumbers, Numbers
      <4>2. QED
        BY <1>1, <1>3, <3>1, <4>1
    <3>3. QED
      BY <1>1, <1>2, <2>3, <3>2 DEF Young, DueBy, TwoThirds
  <2>4. QED
    BY <1>1, <2>1, <2>2, <2>3 DEF BindInv
<1>7. AliveInv'
  <2>1. running => looped
    BY DEF Tick
  <2>2. /\ lastResponse \in Nat /\ lastKeepAlive \in Nat /\ KeepAliveInterval \in Nat
    BY <1>1, TypedNumbers, Numbers
  <2>3. QED
    BY <1>1, <1>2, <1>3, <2>1, <2>2 DEF AliveInv
<1>8. QED
  BY <1>4, <1>5, <1>6, <1>7 DEF IInv

LEMMA AcceptInv == IInv /\ Accept => IInv'
<1> SUFFICES ASSUME IInv, Accept PROVE IInv'
  OBVIOUS
<1>1. TypeOK /\ LoopInv /\ BindInv /\ AliveInv
  BY DEF IInv
<1>2. /\ UNCHANGED <<now, starts, running, looped, thread, held, events, status, lastRegister,
                     lastKeepAlive, lastResponse, pending, pendingSince, awaiting, unanswered,
                     keptAlive>>
      /\ pending # "none" /\ bound' \in {0, now + Expires}
      /\ accepted' = TRUE /\ refused' = FALSE
  BY DEF Accept, loopVars, clientVars, requestVars, historyVars
<1>3. \A x : Waiting(x)' <=> Waiting(x)
  BY <1>2 DEF Waiting
<1>4. bound' = 0 \/ (bound' = now + Expires /\ pendingSince + Expires <= bound')
  BY <1>1, <1>2, TypedNumbers, Numbers DEF LoopInv
<1>5. TypeOK'
  <2>1. accepted' \in BOOLEAN /\ refused' \in BOOLEAN
    BY <1>2
  <2>2. bound' \in 0..(MaxTime + Expires)
    BY <1>1, <1>2, TypedNumbers, Numbers
  <2>3. QED
    BY <1>1, <1>2, <2>1, <2>2 DEF TypeOK
<1>6. LoopInv'
  <2>1. bound' = 0 \/ now + Expires <= bound' + TransactionTimeout
    BY <1>1, <1>4, TypedNumbers, Numbers
  <2>2. QED
    BY <1>1, <1>2, <1>3, <1>4, <2>1 DEF LoopInv
<1>7. BindInv'
  <2> SUFFICES ASSUME Counting' PROVE UnderWay'
    BY DEF BindInv
  <2>1. pendingSince + Expires <= bound' + TwoThirds + TransactionTimeout
    <3>1. /\ pendingSince \in Nat /\ Expires \in Nat /\ now \in Nat
          /\ TwoThirds \in Nat /\ TransactionTimeout \in Nat
      BY <1>1, TypedNumbers, Numbers
    <3>2. bound' \in Nat /\ pendingSince + Expires <= bound'
      BY <1>4, <3>1 DEF Counting
    <3>3. pendingSince + Expires \in Nat
      BY <3>1
    <3>4. QED
      BY <3>1, <3>2, <3>3, Slack
  <2>2. QED
    BY <1>2, <2>1 DEF UnderWay, DueBy, TwoThirds
<1>8. AliveInv'
  BY <1>1, <1>2 DEF AliveInv
<1>9. QED
  BY <1>5, <1>6, <1>7, <1>8 DEF IInv

LEMMA RegisterAnswerInv == IInv /\ RegisterAnswer => IInv'
<1> SUFFICES ASSUME IInv, RegisterAnswer PROVE IInv'
  OBVIOUS
<1>1. TypeOK /\ LoopInv /\ BindInv /\ AliveInv
  BY DEF IInv
<1>2. /\ UNCHANGED <<now, starts, running, looped, thread, held, status, lastRegister,
                     lastKeepAlive, lastResponse, awaiting, unanswered, keptAlive>>
      /\ running /\ pending # "none" /\ pending' = "none" /\ pendingSince' = 0
      /\ accepted' = FALSE /\ UNCHANGED bound
  BY DEF RegisterAnswer, loopVars, clientVars, historyVars
<1>3. PICK e \in {"regOk", "reg401", "regFail"} :
        /\ Receive(e)
        /\ e = "regOk" => accepted
        /\ e = "reg401" => refused' = TRUE
        /\ e # "reg401" => refused' = refused
  BY DEF RegisterAnswer
<1>4. e \in Events /\ events' \in Seq(Events)
  BY <1>1, <1>3 DEF Events, Receive, TypeOK
<1>5. \A x : Waiting(x)' <=> Waiting(x) \/ x = e
  BY <1>1, <1>2, <1>3, <1>4, Arrives
<1>6. TypeOK'
  <2>1. refused' \in BOOLEAN
    BY <1>1, <1>3 DEF TypeOK
  <2>2. accepted' \in BOOLEAN
    BY <1>2
  <2>3. 0 \in Times /\ "none" \in Registers
    BY Numbers DEF Times, Registers
  <2>4. QED
    BY <1>1, <1>2, <1>4, <2>1, <2>2, <2>3 DEF TypeOK
<1>7. LoopInv'
  <2>1. accepted => bound = 0 \/ now + Expires <= bound + TransactionTimeout
    BY <1>1, TypedNumbers, Numbers DEF LoopInv
  <2>2. Waiting("regOk")' => bound = 0 \/ now + Expires <= bound + TransactionTimeout
    BY <1>1, <1>3, <1>5, <2>1 DEF LoopInv
  <2>3. QED
    BY <1>1, <1>2, <2>2 DEF LoopInv
<1>8. BindInv'
  <2> SUFFICES ASSUME InTime, Counting' PROVE Failing' \/ Young'
    BY DEF BindInv, InTime, TwoThirds
  <2>1. CASE e = "regOk"
    <3>1. now + Expires <= bound + TransactionTimeout
      BY <1>2, <1>5, <1>7, <2>1 DEF LoopInv, Counting
    <3>2. Young'
      BY <1>1, <1>2, <3>1, TypedNumbers, Numbers DEF Young, TypeOK, DueBy, TwoThirds
    <3>3. QED
      BY <3>2
  <2>2. CASE e = "reg401"
    BY <1>3, <2>2 DEF Counting
  <2>3. CASE e = "regFail"
    <3>1. Waiting("regFail")' /\ bound' = bound /\ Counting
      BY <1>2, <1>3, <1>5, <2>3 DEF Counting
    <3>2. UnderWay \/ Failing
      BY <1>1, <1>2, <3>1 DEF BindInv, DueBy, Young
    <3>3. now + Expires <= bound + TwoThirds + 2 * TransactionTimeout
      BY <1>1, <1>2, <3>2, TypedNumbers, Numbers DEF DueBy, UnderWay, Failing, LoopInv
    <3>4. QED
      BY <1>2, <3>1, <3>3 DEF Failing, DueBy, TwoThirds
  <2>4. QED
    BY <1>3, <2>1, <2>2, <2>3
<1>9. AliveInv'
  BY <1>1, <1>2 DEF AliveInv
<1>10. QED
  BY <1>6, <1>7, <1>8, <1>9 DEF IInv

LEMMA KeepAliveAnswerInv == IInv /\ KeepAliveAnswer => IInv'
<1> SUFFICES ASSUME IInv, KeepAliveAnswer PROVE IInv'
  OBVIOUS
<1>1. TypeOK /\ LoopInv /\ BindInv /\ AliveInv
  BY DEF IInv
<1>2. UNCHANGED <<now, starts, running, looped, thread, held, status, lastRegister, lastKeepAlive,
                  lastResponse, pending, pendingSince, unanswered, keptAlive, bound, refused, accepted>>
  BY DEF KeepAliveAnswer, loopVars, clientVars, historyVars, platformVars
<1>3. PICK e \in {"kaOk", "kaFail"} : Receive(e)
  BY DEF KeepAliveAnswer
<1>4. e \in Events /\ events' \in Seq(Events)
  BY <1>1, <1>3 DEF Events, Receive, TypeOK
<1>5. \A x : Waiting(x)' <=> Waiting(x) \/ x = e
  BY <1>1, <1>2, <1>3, <1>4, Arrives
<1>6. TypeOK'
  <2>1. awaiting' \in Counts
    BY <1>1, Numbers DEF TypeOK, KeepAliveAnswer, Counts
  <2>2. QED
    BY <1>1, <1>2, <1>4, <2>1 DEF TypeOK
<1>7. LoopInv'
  BY <1>1, <1>2, <1>3, <1>5 DEF LoopInv, KeepAliveAnswer
<1>8. BindInv'
  BY <1>1, <1>2, <1>5 DEF BindInv, Counting, UnderWay, Failing, Young, InTime, DueBy, TwoThirds
<1>9. AliveInv'
  BY <1>1, <1>2 DEF AliveInv
<1>10. QED
  BY <1>6, <1>7, <1>8, <1>9 DEF IInv

LEMMA WaitEventInv == IInv /\ WaitEvent => IInv'
<1> SUFFICES ASSUME IInv, WaitEvent PROVE IInv'
  OBVIOUS
<1> DEFINE kind == IF TimedOut THEN "unregister" ELSE IF RefreshDue THEN "register" ELSE "none"
<1>1. TypeOK /\ LoopInv /\ BindInv /\ AliveInv
  BY DEF IInv
<1>2. /\ UNCHANGED <<now, starts, running, status, lastResponse, keptAlive, bound, refused, accepted>>
      /\ running /\ thread = "wait" /\ thread' = "event" /\ looped' = TRUE
  BY DEF WaitEvent, platformVars
<1>3. \A x \in Events : Waiting(x)' <=> Waiting(x)
  BY <1>1, Taken
<1>4. held' \in Events \cup {NoEvent} /\ events' \in Seq(Events)
  <2>1. events \in Seq(Events)
    BY <1>1 DEF TypeOK
  <2>2. events # <<>> => Head(events) \in Events /\ Tail(events) \in Seq(Events)
    BY <2>1
  <2>3. QED
    BY <2>1, <2>2 DEF WaitEvent
<1>5. kind \in Registers
  BY DEF Registers
<1>6. CASE status = "REGISTERED"
  <2>1. /\ SendKeepAlive /\ SendRegister(kind)
        /\ lastRegister' = IF RefreshDue THEN now ELSE lastRegister
    BY <1>6 DEF WaitEvent, Checks
  <2>2. TypeOK'
    <3>1. lastRegister' \in 0..now
      BY <1>1, <2>1, TypedNumbers DEF TypeOK
    <3>2. QED
      BY <1>1, <1>2, <1>4, <1>5, <2>1, <3>1, KeepAliveTypes, RegisterTypes DEF TypeOK
  <2>3. LoopInv'
    <3>1. pending' # "none" =>
            pendingSince' <= now /\ now <= pendingSince' + TransactionTimeout
      BY <1>1, <1>5, <2>1, RegisterSent, TypedNumbers, Numbers DEF LoopInv
    <3>2. Waiting("regOk")' => bound = 0 \/ now + Expires <= bound + TransactionTimeout
      BY <1>1, <1>3 DEF LoopInv, Events
    <3>3. accepted => pending' # "none" /\ (bound = 0 \/ pendingSince' + Expires <= bound)
      BY <1>1, <1>5, <2>1, RegisterSent DEF LoopInv
    <3>4. QED
      BY <1>2, <3>1, <3>2, <3>3 DEF LoopInv
  <2>4. BindInv'
    <3> SUFFICES ASSUME InTime, Counting PROVE UnderWay' \/ Failing' \/ Young'
      BY <1>2 DEF BindInv, Counting, InTime, TwoThirds
    <3>1. CASE UnderWay
      BY <1>2, <1>5, <2>1, <3>1, <1>1, RegisterSent DEF UnderWay, DueBy, TwoThirds
    <3>2. CASE Failing
      BY <1>2, <1>3, <3>2 DEF Failing, Events, DueBy, TwoThirds
    <3>3. CASE Young /\ kind # "none"
      BY <1>1, <1>2, <1>5, <2>1, <3>3, RegisterSent DEF Young, UnderWay, DueBy, TwoThirds
    <3>4. CASE Young /\ kind = "none"
      <4>1. pending' = "none" /\ ~RefreshDue
        BY <1>1, <1>5, <2>1, <3>4, RegisterSent DEF DueBy, Young
      <4>2. now - lastRegister < TwoThirds /\ lastRegister' = lastRegister
        BY <1>1, <2>1, <4>1, TypedNumbers, Numbers DEF RefreshDue, TwoThirds
      <4>3. now + Expires < bound + TwoThirds + TransactionTimeout
        BY <1>1, <3>4, <4>2, TypedNumbers, Numbers DEF DueBy, Young
      <4>4. QED
        BY <1>2, <3>4, <4>1, <4>2, <4>3 DEF Young, DueBy, TwoThirds
    <3>5. QED
      BY <1>1, <3>1, <3>2, <3>3, <3>4 DEF BindInv
  <2>5. AliveInv'
    <3>1. CASE keptAlive
      BY <1>1, <1>2, <1>6, <2>1, <3>1, AliveSent
    <3>2. CASE ~keptAlive
      BY <1>2, <3>2 DEF AliveInv
    <3>3. QED
      BY <3>1, <3>2
  <2>6. QED
    BY <2>2, <2>3, <2>4, <2>5 DEF IInv
<1>7. CASE status # "REGISTERED"
  <2>1. UNCHANGED <<lastKeepAlive, lastRegister, pending, pendingSince, awaiting, unanswered>>
    BY <1>7 DEF WaitEvent, Checks, requestVars
  <2>2. TypeOK'
    BY <1>1, <1>2, <1>4, <2>1 DEF TypeOK
  <2>3. LoopInv'
    BY <1>1, <1>2, <1>3, <2>1 DEF LoopInv, Events
  <2>4. BindInv'
    BY <1>2, <1>7 DEF BindInv, Counting
  <2>5. AliveInv'
    BY <1>1, <1>2, <1>7 DEF AliveInv
  <2>6. QED
    BY <2>2, <2>3, <2>4, <2>5 DEF IInv
<1>8. QED
  BY <1>6, <1>7

LEMMA ProcessEventInv == IInv /\ ProcessEvent => IInv'
<1> SUFFICES ASSUME IInv, ProcessEvent PROVE IInv'
  OBVIOUS
<1> DEFINE kind == IF TimedOut THEN "unregister" ELSE "none"
<1>1. TypeOK /\ LoopInv /\ BindInv /\ AliveInv
  BY DEF IInv
<1>2. /\ UNCHANGED <<now, starts, running, looped, events, bound, refused, accepted>>
      /\ running /\ thread' = "wait" /\ held' = NoEvent
  BY <1>1 DEF ProcessEvent, platformVars, LoopInv
<1>3. /\ \A x \in Events : Waiting(x)' => Waiting(x)
      /\ \A x \in Events : Waiting(x) /\ held # x => Waiting(x)'
  BY <1>2 DEF Waiting, Events, NoEvent
<1>4. kind \in Registers
  BY DEF Registers
<1>5. NoEvent \in Events \cup {NoEvent}
  OBVIOUS
<1>6. CASE Registered
  <2>1. /\ held = "regOk" /\ status' = "REGISTERED" /\ lastRegister' = now
        /\ SendKeepAlive /\ SendRegister(kind)
        /\ UNCHANGED <<lastResponse, keptAlive>>
    BY <1>6 DEF Registered
  <2>2. TypeOK'
    <3>1. now \in 0..now
      BY <1>1, TypedNumbers
    <3>2. QED
      BY <1>1, <1>2, <1>4, <2>1, <3>1, KeepAliveTypes, RegisterTypes DEF TypeOK
  <2>3. pending' # "none" =>
          pendingSince' <= now /\ now <= pendingSince' + TransactionTimeout
    BY <1>1, <1>4, <2>1, RegisterSent, TypedNumbers, Numbers DEF LoopInv
  <2>4. bound = 0 \/ now + Expires <= bound + TransactionTimeout
    BY <1>1, <2>1 DEF LoopInv, Waiting
  <2>5. LoopInv'
    <3>1. accepted => pending' # "none" /\ (bound = 0 \/ pendingSince' + Expires <= bound)
      BY <1>1, <1>4, <2>1, RegisterSent DEF LoopInv
    <3>2. QED
      BY <1>2, <2>3, <2>4, <3>1 DEF LoopInv
  <2>6. BindInv'
    <3> SUFFICES ASSUME InTime, bound # 0 PROVE UnderWay' \/ Young'
      BY <1>2 DEF BindInv, Counting, InTime, TwoThirds
    <3>1. now + Expires <= bound + TransactionTimeout
      BY <2>4
    <3>2. CASE pending' # "none"
      <4>1. pendingSince' \in Nat
        BY <2>2 DEF TypeOK, Times
      <4>2. pendingSince' <= now
        BY <2>3, <3>2
      <4>3. now \in Nat /\ bound \in Nat /\ Expires \in Nat /\ TwoThirds \in Nat
            /\ TransactionTimeout \in Nat
        BY <1>1, TypedNumbers, Numbers
      <4>4. pendingSince' + Expires <= bound + TwoThirds + TransactionTimeout
        BY <3>1, <4>1, <4>2, <4>3, WithinRefresh
      <4>5. QED
        BY <1>2, <3>2, <4>4 DEF UnderWay, DueBy, TwoThirds
    <3>3. CASE pending' = "none"
      <4>1. now + Expires < bound + TwoThirds + TransactionTimeout
        BY <1>1, <3>1, TypedNumbers, Numbers
      <4>2. QED
        BY <1>1, <1>2, <2>1, <3>1, <3>3, <4>1, TypedNumbers, Numbers DEF Young, DueBy, TwoThirds
    <3>4. QED
      BY <3>2, <3>3
  <2>7. AliveInv'
    <3>1. CASE keptAlive
      BY <1>1, <1>2, <2>1, <3>1, AliveSent
    <3>2. CASE ~keptAlive
      BY <2>1, <3>2 DEF AliveInv
    <3>3. QED
      BY <3>1, <3>2
  <2>8. QED
    BY <2>2, <2>5, <2>6, <2>7 DEF IInv
<1>7. CASE Failed
  <2>1. status' = "UNREGISTER"
        /\ keptAlive' = FALSE
        /\ UNCHANGED <<lastRegister, lastKeepAlive, lastResponse, pending, pendingSince, awaiting,
                       unanswered>>
    BY <1>7 DEF Failed, requestVars
  <2>2. TypeOK'
    BY <1>1, <1>2, <2>1 DEF TypeOK
  <2>3. LoopInv'
    BY <1>1, <1>2, <1>3, <2>1 DEF LoopInv, Events
  <2>4. BindInv' /\ AliveInv'
    BY <2>1 DEF BindInv, Counting, AliveInv
  <2>5. QED
    BY <2>2, <2>3, <2>4 DEF IInv
<1>8. CASE Answered \/ Ignored
  <2>1. /\ held # "regFail"
        /\ UNCHANGED <<status, lastRegister, lastKeepAlive, pending, pendingSince, awaiting>>
        /\ lastResponse' \in {lastResponse, now} /\ unanswered' \in {unanswered, 0}
        /\ keptAlive' \in {keptAlive, status = "REGISTERED"}
    BY <1>8 DEF Answered, Ignored, clientVars, requestVars, historyVars, NoEvent
  <2>2. TypeOK'
    <3>1. now \in 0..now /\ 0 \in Counts
      BY <1>1, TypedNumbers, Numbers DEF Counts
    <3>2. lastResponse' \in 0..now /\ unanswered' \in Counts /\ keptAlive' \in BOOLEAN
      BY <1>1, <2>1, <3>1 DEF TypeOK
    <3>3. QED
      BY <1>1, <1>2, <2>1, <3>2 DEF TypeOK
  <2>3. LoopInv'
    BY <1>1, <1>2, <1>3, <2>1 DEF LoopInv, Events
  <2>4. Failing => Failing'
    BY <1>2, <1>3, <2>1 DEF Failing, Events, DueBy, TwoThirds
  <2>5. BindInv'
    BY <1>1, <1>2, <2>1, <2>4 DEF BindInv, Counting, UnderWay, Young, InTime, DueBy, TwoThirds
  <2>6. AliveInv'
    <3>1. CASE Answered
      <4>1. now \in Nat /\ KeepAliveInterval \in Nat /\ KeepAliveInterval > 0 /\ lastKeepAlive <= now
        BY <1>1, TypedNumbers, RegistrationAssumption DEF TypeOK
      <4>2. lastResponse' = now /\ unanswered' = 0 /\ (keptAlive' => status = "REGISTERED")
        BY <3>1 DEF Answered
      <4>3. QED
        BY <1>2, <2>1, <4>1, <4>2 DEF AliveInv
    <3>2. CASE Ignored
      BY <1>1, <1>2, <3>2 DEF AliveInv, Ignored, clientVars, historyVars
    <3>3. QED
      BY <1>8, <3>1, <3>2
  <2>7. QED
    BY <2>2, <2>3, <2>5, <2>6 DEF IInv
<1>9. QED
  BY <1>6, <1>7, <1>8 DEF ProcessEvent

LEMMA StopInv == IInv /\ (Stop \/ Restart) => IInv'
<1> SUFFICES ASSUME IInv, Stop \/ Restart PROVE IInv'
  OBVIOUS
<1>1. TypeOK /\ LoopInv
  BY DEF IInv
<1>2. <<>> \in Seq(Events) /\ 0 \in Times /\ 0 \in Counts /\ "none" \in Registers
      /\ "register" \in Registers /\ 0 \in 0..(MaxTime + Expires)
  BY Numbers DEF Times, Counts, Registers
<1>3. CASE Stop
  <2>1. TypeOK'
    BY <1>1, <1>2, <1>3 DEF Stop, TypeOK, clientVars, historyVars
  <2>2. ~Waiting("regOk")'
    BY <1>1, <1>3 DEF Stop, LoopInv, Waiting, NoEvent
  <2>3. LoopInv'
    BY <1>1, <1>3, <2>2 DEF Stop, LoopInv
  <2>4. BindInv' /\ AliveInv'
    BY <1>3 DEF Stop, BindInv, Counting, AliveInv
  <2>5. QED
    BY <2>1, <2>3, <2>4 DEF IInv
<1>4. CASE Restart
  <2>1. starts' \in 1..MaxStarts
    BY <1>1, <1>4, RegistrationAssumption DEF Restart, TypeOK
  <2>2. TypeOK'
    BY <1>1, <1>2, <1>4, <2>1 DEF Restart, TypeOK, platformVars
  <2>3. ~Waiting("regOk")'
    BY <1>1, <1>4 DEF Restart, LoopInv, Waiting, NoEvent
  <2>4. pendingSince' <= now /\ now <= pendingSince' + TransactionTimeout
    BY <1>1, <1>4, TypedNumbers, Numbers DEF Restart
  <2>5. LoopInv'
    <3>1. accepted = FALSE
      BY <1>1, <1>4 DEF Restart, LoopInv, TypeOK
    <3>2. /\ running' = TRUE /\ pending' = "register" /\ UNCHANGED <<now, thread, held, events>>
          /\ accepted' = FALSE
      BY <1>4, <3>1 DEF Restart, platformVars
    <3>3. thread' = "wait" => held' = NoEvent
      BY <1>1, <3>2 DEF LoopInv
    <3>4. QED
      BY <2>3, <2>4, <3>2, <3>3 DEF LoopInv
  <2>6. BindInv' /\ AliveInv'
    BY <1>4 DEF Restart, BindInv, Counting, AliveInv
  <2>7. QED
    BY <2>2, <2>5, <2>6 DEF IInv
<1>5. QED
  BY <1>3, <1>4

LEMMA NextInv == IInv /\ [Next]_vars => IInv'
<1> SUFFICES ASSUME IInv, [Next]_vars PROVE IInv'
  OBVIOUS
<1>1. CASE Tick
  BY <1>1, TickInv
<1>2. CASE Accept \/ RegisterAnswer
  BY <1>2, AcceptInv, RegisterAnswerInv
<1>3. CASE KeepAliveAnswer
  BY <1>3, KeepAliveAnswerInv
<1>4. CASE WaitEvent
  BY <1>4, WaitEventInv
<1>5. CASE ProcessEvent
  BY <1>5, ProcessEventInv
<1>6. CASE Stop \/ Restart
  BY <1>6, StopInv
<1>7. CASE UNCHANGED vars
  BY <1>7 DEF vars, loopVars, clientVars, requestVars, historyVars, platformVars, IInv, TypeOK,
              LoopInv, BindInv, Waiting, Counting, UnderWay, Failing, Young, DueBy, AliveInv
<1>8. QED
  BY <1>1, <1>2, <1>3, <1>4, <1>5, <1>6, <1>7 DEF Next

-----------------------------------------------------------------------------

\* Every reachable state satisfies the inductive invariant (Gb28181Client.cpp:214-290,
\* 575-656).
THEOREM Invariance == Spec => []IInv
<1>1. QED
  BY InitInv, NextInv, PTL DEF Spec

\* The types; no time is noted for the future (Gb28181Client.cpp:224, 230, 282).
THEOREM TypeCorrect == Spec => []TypeOK
<1>1. IInv => TypeOK
  BY DEF IInv
<1>2. QED
  BY <1>1, Invariance, PTL

\* Whatever Expires and the transaction timeout, as far as two transactions and a
\* second fit into a third of Expires, the refresh is accepted before the binding ends,
\* however early in its transaction a REGISTER is accepted and however late it is
\* answered (Gb28181Client.cpp:282, 606).
THEOREM BindingCorrect == Spec => []BindingRefreshed
<1>1. IInv => BindingRefreshed
  <2> SUFFICES ASSUME IInv, InTime, Counting PROVE now < bound
    BY DEF BindingRefreshed, InTime, Counting, TwoThirds
  <2>1. TypeOK /\ LoopInv /\ (UnderWay \/ Failing \/ Young)
    BY DEF IInv, BindInv
  <2>2. QED
    BY <2>1, TypedNumbers, Numbers DEF DueBy, UnderWay, Failing, Young, LoopInv
<1>2. QED
  BY <1>1, Invariance, PTL

\* The client gives up only a platform that left two keepalives unanswered for three
\* intervals, once a keepalive was answered since it was registered, for every
\* interval and every transaction timeout (Gb28181Client.cpp:222-226).
THEOREM TimeoutCorrect == Spec => TimeoutAfterTwo
<1> DEFINE GivenUp ==
      Unregisters /\ keptAlive =>
        unanswered >= 2 /\ now - lastResponse >= 3 * KeepAliveInterval
<1>1. ASSUME IInv, Next PROVE GivenUp
  <2> SUFFICES ASSUME Unregisters, keptAlive
               PROVE  unanswered >= 2 /\ now - lastResponse >= 3 * KeepAliveInterval
    OBVIOUS
  <2>1. TypeOK /\ LoopInv /\ AliveInv
    BY <1>1 DEF IInv
  <2>2. pending' = "unregister" /\ pending # "unregister"
    BY DEF Unregisters
  <2>3. /\ running /\ SendKeepAlive /\ TimedOut /\ status' = "REGISTERED"
        /\ UNCHANGED <<now, running, lastResponse, keptAlive>>
    <3>1. CASE WaitEvent
      BY <2>2, <3>1 DEF WaitEvent, Checks, SendRegister, requestVars
    <3>2. CASE ProcessEvent
      BY <2>1, <2>2, <3>2 DEF ProcessEvent, Registered, Failed, Answered, Ignored, SendRegister,
                              requestVars, LoopInv
    <3>3. ~(Tick \/ Accept \/ RegisterAnswer \/ KeepAliveAnswer \/ Stop \/ Restart)
      BY <2>2 DEF Tick, Accept, RegisterAnswer, KeepAliveAnswer, Stop, Restart, requestVars
    <3>4. QED
      BY <1>1, <3>1, <3>2, <3>3 DEF Next
  <2>4. ~(unanswered <= 1)
    BY <2>1, <2>3, AliveSent
  <2>5. unanswered \in Nat
    BY <2>1, RegistrationAssumption DEF TypeOK, Counts
  <2>6. now - lastResponse >= 3 * KeepAliveInterval
    BY <2>3 DEF TimedOut
  <2>7. QED
    BY <2>4, <2>5, <2>6
<1>2. IInv /\ [Next]_vars => [GivenUp]_vars
  BY <1>1
<1>3. QED
  BY <1>2, Invariance, PTL DEF TimeoutAfterTwo, Spec

=============================================================================
