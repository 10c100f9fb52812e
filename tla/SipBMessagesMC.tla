--------------------------- MODULE SipBMessagesMC ---------------------------
(* A small instance of SipBMessages for TLC. *)
EXTENDS SipBMessages, TLC

\* Workers run the same code; so do requests.
Symmetry == Permutations(Workers) \cup Permutations(Tasks)

=============================================================================
