----------------------------- MODULE SipBCallsMC -----------------------------
(* A small instance of SipBCalls for TLC. *)
EXTENDS SipBCalls, TLC

\* Workers run the same code; calls differ only by the offer Init gives them.
Symmetry == Permutations(Workers) \cup Permutations(Tasks)

=============================================================================
