----------------------- MODULE Gb28181SubscriptionProofs -----------------------
(***************************************************************************)
(* Proofs about Gb28181Subscription for every value of its constants: the  *)
(* type invariant, that reports are never late, and that they end with the *)
(* grace after the last grant.                                             *)
(***************************************************************************)
EXTENDS Gb28181Subscription, TLAPS

\* The entry of the position runs out with the grace after the last grant.
GrantInv ==
  MobilePosition \in DOMAIN subs => subs[MobilePosition].expiration = granted + Grace

\* In a second the event thread has iterated in, the position is not due.
DueInv ==
  looped /\ registered /\ MobilePosition \in Kept =>
    LET info == subs[MobilePosition]
    IN  info.lastReport = now \/ now - info.lastReport < info.interval \/ since = now

\* The entry's last report is the last that was sent, unless it had none.
SentInv ==
  MobilePosition \in DOMAIN subs => subs[MobilePosition].lastReport \in {0, lastNotify}

IInv == TypeOK /\ GrantInv /\ SentInv /\ DueInv /\ ReportedInTime

\* What the list holds; for the other kind of function, see TypeOK.
LEMMA ListTypes ==
  ASSUME TypeOK
  PROVE  /\ now \in Nat /\ granted \in Nat /\ since \in 0..now
         /\ subs = [c \in DOMAIN subs |-> subs[c]] /\ DOMAIN subs \subseteq CmdTypes
         /\ \A c \in DOMAIN subs :
              /\ subs[c] \in Subscriptions
              /\ subs[c].expiration \in Nat /\ subs[c].interval \in Nat
              /\ subs[c].lastReport \in 0..now
<1>1. now \in Nat /\ granted \in Nat /\ since \in 0..now
  BY SubscriptionAssumption DEF TypeOK, Times
<1>2. PICK cmds \in SUBSET CmdTypes : subs \in [cmds -> Subscriptions]
  BY DEF TypeOK
<1>3. DOMAIN subs = cmds /\ subs = [c \in DOMAIN subs |-> subs[c]]
  BY <1>2
<1>4. ASSUME NEW c \in DOMAIN subs
      PROVE  /\ subs[c] \in Subscriptions
             /\ subs[c].expiration \in Nat /\ subs[c].interval \in Nat
             /\ subs[c].lastReport \in 0..now
  <2>1. subs[c] \in Subscriptions
    BY <1>2, <1>3
  <2>2. PICK t \in Times, e \in Expirations : subs[c].expiration = t + e + Grace
    BY <2>1 DEF Subscriptions
  <2>3. subs[c].expiration \in Nat /\ subs[c].interval \in Nat
    BY <2>1, <2>2, SubscriptionAssumption DEF Subscriptions, Times, Grace
  <2>4. subs[c].lastReport \in 0..now
    BY <1>1, <2>1 DEF Subscriptions, Times, TypeOK
  <2>5. QED
    BY <2>1, <2>3, <2>4
<1>5. QED
  BY <1>1, <1>2, <1>3, <1>4

\* checkSubscribe() leaves entries as they are, but for the time of a report.
LEMMA CheckedEntries ==
  ASSUME TypeOK
  PROVE  /\ DOMAIN ListForEvent \subseteq DOMAIN subs
         /\ \A c \in DOMAIN ListForEvent :
              /\ ListForEvent[c] \in Subscriptions
              /\ ListForEvent[c].expiration = subs[c].expiration
              /\ ListForEvent[c].lastReport \in 0..now
         /\ registered => DOMAIN ListForEvent = Kept
         /\ registered /\ MobilePosition \in Kept =>
              LET info == ListForEvent[MobilePosition]
              IN  info.lastReport = now \/ now - info.lastReport < info.interval
<1>1. CASE ~registered
  BY <1>1, ListTypes DEF ListForEvent
<1>2. CASE registered
  <2>1. ListForEvent = Checked /\ DOMAIN Checked = Kept /\ Kept \subseteq DOMAIN subs
    BY <1>2 DEF ListForEvent, Checked, Kept
  <2>2. ASSUME NEW c \in Kept
        PROVE  /\ Checked[c] \in Subscriptions
               /\ Checked[c].expiration = subs[c].expiration
               /\ Checked[c].lastReport \in 0..now
               /\ c = MobilePosition =>
                    \/ Checked[c].lastReport = now
                    \/ now - Checked[c].lastReport < Checked[c].interval
    <3>1. /\ subs[c] \in Subscriptions /\ subs[c].interval \in Nat
          /\ subs[c].lastReport \in 0..now /\ now \in Times
      BY <2>1, <2>2, ListTypes DEF TypeOK
    <3>2. CASE c = MobilePosition /\ Reporting
      <4>1. Checked[c] = [subs[c] EXCEPT !.lastReport = now]
        BY <2>2, <3>2 DEF Checked
      <4>2. QED
        BY <3>1, <4>1 DEF Subscriptions, Times
    <3>3. CASE ~(c = MobilePosition /\ Reporting)
      <4>1. Checked[c] = subs[c]
        BY <2>2, <3>3 DEF Checked
      <4>2. c = MobilePosition => ~NeedReport(subs[c])
        BY <1>2, <2>2, <3>3 DEF Reporting
      <4>3. QED
        BY <3>1, <4>1, <4>2 DEF NeedReport, Times
    <3>4. QED
      BY <3>2, <3>3
  <2>3. QED
    BY <1>2, <2>1, <2>2
<1>3. QED
  BY <1>1, <1>2

-----------------------------------------------------------------------------

LEMMA InitInv == Init => IInv
<1> SUFFICES ASSUME Init PROVE IInv
  OBVIOUS
<1>1. DOMAIN subs = {} /\ subs \in [{} -> Subscriptions]
  BY DEF Init
<1>2. TypeOK
  <2>1. \E cmds \in SUBSET CmdTypes : subs \in [cmds -> Subscriptions]
    BY <1>1
  <2>2. now \in Times /\ 0 \in 0..now
    BY SubscriptionAssumption DEF Init, Times
  <2>3. /\ events \in Seq(Requests \cup RegReplies)
        /\ lastNotify \in 0..now /\ since \in 0..now /\ granted \in Nat
    <3>1. <<>> \in Seq(Requests \cup RegReplies)
      OBVIOUS
    <3>2. QED
      BY <2>2, <3>1 DEF Init
  <2>4. \A c \in DOMAIN subs : subs[c].lastReport <= now
    BY <1>1
  <2>5. QED
    BY <2>1, <2>2, <2>3, <2>4 DEF Init, TypeOK
<1>3. QED
  BY <1>1, <1>2 DEF Init, IInv, GrantInv, SentInv, DueInv, ReportedInTime, Kept

LEMMA TickInv == IInv /\ Tick => IInv'
<1> SUFFICES ASSUME IInv, Tick PROVE IInv'
  OBVIOUS
<1>1. TypeOK /\ now' = now + 1 /\ looped /\ ~looped'
  BY DEF IInv, Tick
<1>2. UNCHANGED <<events, registered, subs, lastNotify, granted, since>>
  BY DEF Tick, historyVars
<1>3. now' \in Times /\ now \in Nat
  BY <1>1, ListTypes, SubscriptionAssumption DEF Tick, Times
<1>4. TypeOK'
  <2>1. \A c \in DOMAIN subs' : subs'[c].lastReport <= now'
    BY <1>1, <1>2, ListTypes
  <2>2. lastNotify' \in 0..now' /\ since' \in 0..now'
    BY <1>1, <1>2, <1>3 DEF TypeOK
  <2>3. looped' \in BOOLEAN
    BY DEF Tick
  <2>4. QED
    BY <1>1, <1>2, <1>3, <2>1, <2>2, <2>3 DEF TypeOK
<1>5. GrantInv' /\ SentInv' /\ DueInv'
  BY <1>1, <1>2 DEF IInv, GrantInv, SentInv, DueInv
<1>6. ReportedInTime'
  <2> SUFFICES ASSUME registered, MobilePosition \in Kept', ~(now' - since <= 1)
               PROVE  LET info == subs[MobilePosition]
                      IN  \/ /\ info.lastReport = lastNotify /\ lastNotify # 0
                             /\ now' - lastNotify <= info.interval \/ now' - lastNotify <= 1
                          \/ info.lastReport = 0 /\ now' <= info.interval
    BY <1>2 DEF ReportedInTime
  <2>1. MobilePosition \in Kept
    BY <1>1, <1>2, <1>3, ListTypes DEF Kept, Overdue
  <2>2. \/ subs[MobilePosition].lastReport = now
        \/ now - subs[MobilePosition].lastReport < subs[MobilePosition].interval
        \/ since = now
    BY <1>1, <2>1 DEF IInv, DueInv
  <2>3. MobilePosition \in DOMAIN subs
    BY <2>1 DEF Kept
  <2>4. subs[MobilePosition].lastReport \in {0, lastNotify}
    BY <2>3 DEF IInv, SentInv
  <2>5. /\ subs[MobilePosition].lastReport \in 0..now /\ since \in 0..now
        /\ subs[MobilePosition].interval \in Nat /\ lastNotify \in 0..now
    BY <1>1, <2>3, ListTypes DEF TypeOK
  <2>6. since # now /\ now # 0
    BY <1>1, <1>3, <2>5
  <2>7. QED
    BY <1>1, <1>3, <2>2, <2>4, <2>5, <2>6
<1>7. QED
  BY <1>4, <1>5, <1>6 DEF IInv

LEMMA ArriveInv ==
  ASSUME IInv, NEW event \in Requests \cup RegReplies, Arrive(event)
  PROVE  IInv'
<1>1. UNCHANGED <<now, looped, registered, subs, lastNotify, granted, since>>
  BY DEF Arrive, historyVars
<1>2. events' \in Seq(Requests \cup RegReplies)
  BY DEF Arrive, IInv, TypeOK
<1>3. TypeOK'
  BY <1>1, <1>2 DEF IInv, TypeOK
<1>4. GrantInv' /\ SentInv' /\ DueInv' /\ ReportedInTime'
  BY <1>1 DEF IInv, GrantInv, SentInv, DueInv, ReportedInTime, Kept, Overdue
<1>5. QED
  BY <1>3, <1>4 DEF IInv

\* The event: either the list found stays, or something to report has changed now.
LEMMA IterationList ==
  ASSUME TypeOK, Iteration
  PROVE  \/ /\ subs' = ListForEvent
            /\ granted' = granted
            /\ \/ UNCHANGED <<registered, since>>
               \/ registered' \in BOOLEAN /\ since' = now
         \/ \E e \in Requests :
              /\ subs' = Entered(ListForEvent, e)
              /\ granted' = IF e.cmd = MobilePosition THEN now + e.expires ELSE granted
              /\ registered' = registered /\ since' = now
<1>1. CASE events # <<>>
  <2>1. Head(events) \in Requests \cup RegReplies
    BY <1>1 DEF TypeOK
  <2>2. CASE Head(events).type = "subscribe"
    <3>1. Head(events) \in Requests
      BY <2>1, <2>2 DEF RegReplies
    <3>2. HandleSubscribe(Head(events))
      BY <1>1, <2>2 DEF Iteration
    <3>3. QED
      BY <3>1, <3>2 DEF HandleSubscribe
  <2>3. CASE Head(events).type # "subscribe"
    <3>1. HandleRegister(Head(events))
      BY <1>1, <2>3 DEF Iteration
    <3>2. QED
      BY <3>1 DEF HandleRegister
  <2>4. QED
    BY <2>2, <2>3
<1>2. CASE events = <<>>
  BY <1>2 DEF Iteration
<1>3. QED
  BY <1>1, <1>2

\* An entry that a SUBSCRIBE makes or renews.
LEMMA EnteredEntries ==
  ASSUME TypeOK, NEW e \in Requests
  PROVE  LET list == Entered(ListForEvent, e)
         IN  /\ DOMAIN list = DOMAIN ListForEvent \cup {e.cmd}
             /\ e.cmd \in CmdTypes /\ e.expires \in Nat
             /\ list[e.cmd] \in Subscriptions
             /\ list[e.cmd].expiration = now + e.expires + Grace
             /\ list[e.cmd].lastReport \in 0..now
             /\ \A c \in DOMAIN ListForEvent \ {e.cmd} : list[c] = ListForEvent[c]
<1> DEFINE list == Entered(ListForEvent, e)
           last == IF e.cmd \in DOMAIN ListForEvent THEN ListForEvent[e.cmd].lastReport ELSE 0
<1>1. /\ e.cmd \in CmdTypes /\ e.expires \in Expirations /\ e.interval \in Intervals
      /\ e.expires \in Nat /\ now \in Times /\ now \in Nat
  BY SubscriptionAssumption, ListTypes DEF Requests, TypeOK
<1>2. last \in 0..now /\ last \in Times
  <2>1. last \in 0..now
    <3>1. CASE e.cmd \in DOMAIN ListForEvent
      BY <3>1, CheckedEntries
    <3>2. CASE e.cmd \notin DOMAIN ListForEvent
      BY <1>1, <3>2
    <3>3. QED
      BY <3>1, <3>2
  <2> HIDE DEF last
  <2>2. QED
    BY <1>1, <2>1, SubscriptionAssumption DEF Times
<1>3. list[e.cmd] = [expiration |-> now + e.expires + Grace, interval |-> e.interval,
                     lastReport |-> last]
  BY DEF Entered
<1>4. now + e.expires + Grace \in {t + x + Grace : t \in Times, x \in Expirations}
  BY <1>1
<1>5. list[e.cmd] \in Subscriptions
  BY <1>1, <1>2, <1>3, <1>4 DEF Subscriptions
<1>6. DOMAIN list = DOMAIN ListForEvent \cup {e.cmd}
  BY DEF Entered
<1>7. \A c \in DOMAIN ListForEvent \ {e.cmd} : list[c] = ListForEvent[c]
  BY DEF Entered
<1>8. QED
  BY <1>1, <1>2, <1>3, <1>5, <1>6, <1>7

LEMMA IterationInv == IInv /\ Iteration => IInv'
<1> SUFFICES ASSUME IInv, Iteration PROVE IInv'
  OBVIOUS
<1>1. TypeOK /\ now' = now /\ looped' = TRUE /\ now \in Nat
  BY ListTypes DEF IInv, Iteration
<1>2. events' \in Seq(Requests \cup RegReplies)
  BY <1>1 DEF Iteration, TypeOK
<1>3. lastNotify' \in 0..now /\ now \in Times
  BY <1>1 DEF Iteration, TypeOK
<1>4. DOMAIN ListForEvent \subseteq CmdTypes
  BY <1>1, CheckedEntries, ListTypes
<1>5. /\ subs' = [c \in DOMAIN subs' |-> subs'[c]] /\ DOMAIN subs' \subseteq CmdTypes
      /\ \A c \in DOMAIN subs' : subs'[c] \in Subscriptions /\ subs'[c].lastReport \in 0..now
      /\ registered' \in BOOLEAN /\ granted' \in Nat /\ since' \in 0..now
  <2>1. CASE /\ subs' = ListForEvent
             /\ granted' = granted
             /\ \/ UNCHANGED <<registered, since>>
                \/ registered' \in BOOLEAN /\ since' = now
    <3>1. ListForEvent = [c \in DOMAIN ListForEvent |-> ListForEvent[c]]
      BY <1>1, ListTypes DEF ListForEvent, Checked
    <3>2. QED
      BY <1>1, <1>4, <2>1, <3>1, CheckedEntries DEF TypeOK
  <2>2. ASSUME NEW e \in Requests,
               subs' = Entered(ListForEvent, e),
               granted' = IF e.cmd = MobilePosition THEN now + e.expires ELSE granted,
               registered' = registered, since' = now
        PROVE  /\ subs' = [c \in DOMAIN subs' |-> subs'[c]] /\ DOMAIN subs' \subseteq CmdTypes
               /\ \A c \in DOMAIN subs' : subs'[c] \in Subscriptions /\ subs'[c].lastReport \in 0..now
               /\ registered' \in BOOLEAN /\ granted' \in Nat /\ since' \in 0..now
    <3>1. subs' = [c \in DOMAIN subs' |-> subs'[c]]
      BY <2>2 DEF Entered
    <3>2. /\ DOMAIN subs' = DOMAIN ListForEvent \cup {e.cmd}
          /\ e.cmd \in CmdTypes /\ e.expires \in Nat
          /\ subs'[e.cmd] \in Subscriptions /\ subs'[e.cmd].lastReport \in 0..now
          /\ \A c \in DOMAIN ListForEvent \ {e.cmd} : subs'[c] = ListForEvent[c]
      BY <1>1, <2>2, EnteredEntries
    <3>3. ASSUME NEW c \in DOMAIN subs'
          PROVE  subs'[c] \in Subscriptions /\ subs'[c].lastReport \in 0..now
      BY <1>1, <3>2, <3>3, CheckedEntries
    <3>4. registered' \in BOOLEAN /\ granted' \in Nat /\ since' \in 0..now
      BY <1>1, <2>2, <3>2 DEF TypeOK
    <3>5. QED
      BY <1>4, <3>1, <3>2, <3>3, <3>4
  <2>3. QED
    BY <1>1, <2>1, <2>2, IterationList
<1>6. TypeOK'
  <2>1. subs' \in [DOMAIN subs' -> Subscriptions]
    BY <1>5
  <2>2. \E cmds \in SUBSET CmdTypes : subs' \in [cmds -> Subscriptions]
    BY <1>5, <2>1
  <2>3. QED
    BY <1>1, <1>2, <1>3, <1>5, <2>2 DEF TypeOK
<1>7. GrantInv'
  <2>1. CASE subs' = ListForEvent /\ granted' = granted
    BY <1>1, <2>1, CheckedEntries DEF IInv, GrantInv
  <2>2. ASSUME NEW e \in Requests,
               subs' = Entered(ListForEvent, e),
               granted' = IF e.cmd = MobilePosition THEN now + e.expires ELSE granted
        PROVE  GrantInv'
    BY <1>1, <2>2, CheckedEntries, EnteredEntries DEF IInv, GrantInv
  <2>3. QED
    BY <1>1, <2>1, <2>2, IterationList
<1>8. DueInv'
  <2> SUFFICES ASSUME registered', MobilePosition \in Kept', since' # now
               PROVE  \/ subs'[MobilePosition].lastReport = now
                      \/ now - subs'[MobilePosition].lastReport < subs'[MobilePosition].interval
    BY <1>1 DEF DueInv
  <2>1. subs' = ListForEvent /\ registered
    BY <1>1, IterationList
  <2>2. MobilePosition \in Kept
    BY <1>1, <2>1, CheckedEntries DEF Kept
  <2>3. QED
    BY <1>1, <2>1, <2>2, CheckedEntries
<1>9. SentInv'
  <2>1. /\ lastNotify' = IF Reporting THEN now ELSE lastNotify
        /\ lastNotify \in 0..now
    BY <1>1 DEF Iteration, TypeOK
  <2>2. MobilePosition \in DOMAIN ListForEvent =>
          ListForEvent[MobilePosition].lastReport \in {0, lastNotify'}
    <3> SUFFICES ASSUME MobilePosition \in DOMAIN ListForEvent
                 PROVE  ListForEvent[MobilePosition].lastReport \in {0, lastNotify'}
      OBVIOUS
    <3>1. /\ MobilePosition \in DOMAIN subs /\ subs[MobilePosition] \in Subscriptions
          /\ subs[MobilePosition].lastReport \in {0, lastNotify}
      BY <1>1, CheckedEntries, ListTypes DEF IInv, SentInv
    <3>2. CASE Reporting
      <4>1. ListForEvent[MobilePosition] = [subs[MobilePosition] EXCEPT !.lastReport = now]
        BY <3>2 DEF ListForEvent, Checked, Reporting
      <4>2. QED
        BY <2>1, <3>1, <3>2, <4>1 DEF Subscriptions
    <3>3. CASE ~Reporting
      <4>1. ListForEvent[MobilePosition] = subs[MobilePosition]
        BY <3>3 DEF ListForEvent, Checked
      <4>2. QED
        BY <2>1, <3>1, <3>3, <4>1
    <3>4. QED
      BY <3>2, <3>3
  <2>3. CASE subs' = ListForEvent
    BY <2>2, <2>3 DEF SentInv
  <2>4. ASSUME NEW e \in Requests, subs' = Entered(ListForEvent, e)
        PROVE  SentInv'
    <3> SUFFICES ASSUME MobilePosition \in DOMAIN subs'
                 PROVE  subs'[MobilePosition].lastReport \in {0, lastNotify'}
      BY DEF SentInv
    <3>1. CASE MobilePosition = e.cmd
      BY <2>2, <2>4, <3>1 DEF Entered
    <3>2. CASE MobilePosition # e.cmd
      BY <2>2, <2>4, <3>2 DEF Entered
    <3>3. QED
      BY <3>1, <3>2
  <2>5. QED
    BY <1>1, <2>3, <2>4, IterationList
<1>10. ReportedInTime'
  <2> SUFFICES ASSUME registered', MobilePosition \in Kept', ~(now - since' <= 1)
               PROVE  LET info == subs'[MobilePosition]
                      IN  \/ /\ info.lastReport = lastNotify' /\ lastNotify' # 0
                             /\ now - lastNotify' <= info.interval \/ now - lastNotify' <= 1
                          \/ info.lastReport = 0 /\ now <= info.interval
    BY <1>1 DEF ReportedInTime
  <2>1. MobilePosition \in DOMAIN subs'
    BY DEF Kept
  <2>2. /\ subs'[MobilePosition].lastReport \in 0..now
        /\ subs'[MobilePosition] \in Subscriptions
        /\ since' \in 0..now /\ lastNotify' \in 0..now
    BY <1>3, <1>5, <2>1
  <2>3. subs'[MobilePosition].interval \in Nat
    <3>1. subs'[MobilePosition].interval \in Intervals
      BY <2>2 DEF Subscriptions
    <3>2. QED
      BY <3>1, SubscriptionAssumption
  <2>4. subs'[MobilePosition].lastReport \in {0, lastNotify'}
    BY <1>9, <2>1 DEF SentInv
  <2>5. since' # now /\ now # 0
    <3>1. \A n \in Nat : n - n <= 1
      OBVIOUS
    <3>2. since' # now
      BY <1>1, <3>1
    <3>3. now # 0
      BY <2>2, <3>2
    <3>4. QED
      BY <3>2, <3>3
  <2>6. \/ subs'[MobilePosition].lastReport = now
        \/ now - subs'[MobilePosition].lastReport < subs'[MobilePosition].interval
    BY <1>1, <1>8, <2>5 DEF DueInv
  <2>7. CASE subs'[MobilePosition].lastReport = now
    <3>1. lastNotify' = now
      BY <2>4, <2>5, <2>7
    <3>2. now - lastNotify' <= 1
      BY <1>1, <3>1
    <3>3. QED
      BY <2>5, <2>7, <3>1, <3>2
  <2>8. CASE now - subs'[MobilePosition].lastReport < subs'[MobilePosition].interval
    <3>1. now - subs'[MobilePosition].lastReport <= subs'[MobilePosition].interval
      BY <1>1, <2>2, <2>3, <2>8
    <3>2. CASE subs'[MobilePosition].lastReport = 0
      BY <1>1, <2>3, <3>1, <3>2
    <3>3. CASE subs'[MobilePosition].lastReport # 0
      BY <2>4, <3>1, <3>3
    <3>4. QED
      BY <3>2, <3>3
  <2>9. QED
    BY <2>6, <2>7, <2>8
<1>11. QED
  BY <1>6, <1>7, <1>8, <1>9, <1>10 DEF IInv

LEMMA NextInv == IInv /\ [Next]_vars => IInv'
<1> SUFFICES ASSUME IInv, [Next]_vars PROVE IInv'
  OBVIOUS
<1>1. CASE Tick
  BY <1>1, TickInv
<1>2. ASSUME NEW event \in Requests \cup RegReplies, Arrive(event) PROVE IInv'
  BY <1>2, ArriveInv
<1>3. CASE Iteration
  BY <1>3, IterationInv
<1>4. CASE UNCHANGED vars
  BY <1>4 DEF vars, historyVars, IInv, TypeOK, GrantInv, SentInv, DueInv, ReportedInTime,
               Kept, Overdue
<1>5. QED
  BY <1>1, <1>2, <1>3, <1>4 DEF Next

-----------------------------------------------------------------------------

\* Every reachable state satisfies the inductive invariant (Gb28181Client.cpp:292-418).
THEOREM Invariance == Spec => []IInv
<1>1. QED
  BY InitInv, NextInv, PTL DEF Spec

\* The types; needReport() never subtracts past zero (GB28181Def.cpp:131).
THEOREM TypeCorrect == Spec => []TypeOK
<1>1. IInv => TypeOK
  BY DEF IInv
<1>2. QED
  BY <1>1, Invariance, PTL

\* A report is never late, for any intervals and expirations and any start of the
\* client, but an entry's first, which waits until the program has run for its
\* interval (Gb28181Client.cpp:310, GB28181Def.cpp:132).
THEOREM ReportsInTime == Spec => []ReportedInTime
<1>1. IInv => ReportedInTime
  BY DEF IInv
<1>2. QED
  BY <1>1, Invariance, PTL

\* Reports end with the grace after the last grant (Gb28181Client.cpp:398).
THEOREM ReportsEnd == Spec => NotifiedWhileGranted
<1>1. IInv /\ [Next]_vars => [lastNotify' # lastNotify => lastNotify' <= granted + Grace]_vars
  <2> SUFFICES ASSUME IInv, Next, lastNotify' # lastNotify
               PROVE  lastNotify' <= granted + Grace
    OBVIOUS
  <2>1. lastNotify' = now /\ Reporting
    BY DEF Next, Tick, Arrive, Iteration, historyVars
  <2>2. MobilePosition \in DOMAIN subs /\ ~(subs[MobilePosition].expiration < now)
    BY <2>1 DEF Reporting, Kept, Overdue
  <2>3. subs[MobilePosition].expiration = granted + Grace
    BY <2>2 DEF IInv, GrantInv
  <2>4. now \in Nat /\ subs[MobilePosition].expiration \in Nat
    BY <2>2, ListTypes DEF IInv
  <2>5. QED
    BY <2>1, <2>2, <2>3, <2>4
<1>2. QED
  BY <1>1, Invariance, PTL DEF Spec, NotifiedWhileGranted

=============================================================================
