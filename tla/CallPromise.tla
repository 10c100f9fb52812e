----------------------------- MODULE CallPromise -----------------------------
(***************************************************************************)
(* What the application may rely on for the calls of a platform, whatever  *)
(* threads, queues and retransmissions it takes: a call opens at most one  *)
(* session; no two sessions of one type are open together; media starts at *)
(* most once, in an open session; and a call that was opened is closed, and *)
(* its media stopped, at most once and for good.                           *)
(***************************************************************************)
CONSTANTS Calls

VARIABLES
  phase,   \* per call: "idle", "open", "playing" or "closed"
  offer    \* per call, the session name offered

vars == <<phase, offer>>

Opened == {c \in Calls : phase[c] \in {"open", "playing"}}

Init == phase = [c \in Calls |-> "idle"]

Step(c, from, to) ==
  /\ phase[c] \in from
  /\ phase' = [phase EXCEPT ![c] = to]
  /\ UNCHANGED offer

Open(c) ==
  /\ \A d \in Opened : offer[d] # offer[c]
  /\ Step(c, {"idle"}, "open")

Play(c) == Step(c, {"open"}, "playing")

Close(c) == Step(c, {"open", "playing"}, "closed")

Next == \E c \in Calls : Open(c) \/ Play(c) \/ Close(c)

Spec == Init /\ [][Next]_vars

=============================================================================
