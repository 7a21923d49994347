----------------------------- MODULE MCMsgQueue -----------------------------
(* The message queue on small sets of threads and messages. *)
EXTENDS MsgQueue, TLC

(* Threads of one role, and messages, are told apart by nothing but their
   identity.  Used by the run without liveness properties only.            *)
Symmetry ==
    Permutations(Producers) \cup Permutations(Consumers) \cup Permutations(Messages)
=============================================================================
