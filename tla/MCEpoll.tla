------------------------------- MODULE MCEpoll -------------------------------
(* Instances of EpollProactor for TLC; the bounds are in the .cfg files. *)
EXTENDS EpollProactor, TLC

SendOnly == {"send"}
SendAndStop == {"send", "stop"}
ConnSymmetry == Permutations(Conns)    \* for runs without liveness properties
==============================================================================
