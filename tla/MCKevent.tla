------------------------------- MODULE MCKevent -------------------------------
(* Instances of KeventProactor for TLC; the bounds are in the .cfg files. *)
EXTENDS KeventProactor

ByLoop == {Loop}
SafeCalls == {"stop", "wake", "open", "start_receive", "start_send"}
SocketCalls == {"start_receive", "start_send"}
AnyCallback == CallbackStates \cup {"dispose_close_cb"}
===============================================================================
