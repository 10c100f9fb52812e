--------------------------- MODULE RequestPromise ---------------------------
(***************************************************************************)
(* What the platform and the application may rely on for the MESSAGE       *)
(* requests of the platform, whatever threads, queues and closures it      *)
(* takes: a request is settled once; it may be held for the application in *)
(* between, and is then released only after the application completed it;  *)
(* and the step that settles it is the only one that may answer it.        *)
(***************************************************************************)
EXTENDS Naturals

CONSTANT Requests

VARIABLES
  phase,      \* per request: "new", "held" for the application, or "settled"
  answered,   \* per request, the answers sent
  completed   \* the requests the application has completed

vars == <<phase, answered, completed>>

Init ==
  /\ phase = [t \in Requests |-> "new"]
  /\ answered = [t \in Requests |-> 0]
  /\ completed = {}

Hold(t) ==
  /\ phase[t] = "new"
  /\ phase' = [phase EXCEPT ![t] = "held"]
  /\ UNCHANGED <<answered, completed>>

\* The answer may fail to be sent.
Settle(t) ==
  /\ phase[t] = "new" \/ (phase[t] = "held" /\ t \in completed)
  /\ phase' = [phase EXCEPT ![t] = "settled"]
  /\ answered' \in {answered, [answered EXCEPT ![t] = @ + 1]}
  /\ UNCHANGED completed

Complete(t) ==
  /\ phase[t] # "new"
  /\ completed' = completed \cup {t}
  /\ UNCHANGED <<phase, answered>>

Next == \E t \in Requests : Hold(t) \/ Settle(t) \/ Complete(t)

Spec == Init /\ [][Next]_vars

=============================================================================
