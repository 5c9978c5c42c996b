------------------------------ MODULE EventLoop ------------------------------
(***************************************************************************)
(* What every proactor back end promises of its run / stop pair, seen from *)
(* the application:                                                        *)
(*   - the loop runs from a call of run until it returns,                  *)
(*   - it returns only after stop was called (never on its own),           *)
(*   - once stop was called, a running loop does return, unless the        *)
(*     process ends first (the back ends end it in handle_error),          *)
(*   - a stop is never taken back.                                         *)
(* The back ends are shown to implement this specification.                *)
(***************************************************************************)

VARIABLES
    running,   \* TRUE between the call of run and its return
    stopping,  \* TRUE once stop was called
    ended      \* TRUE once the process has ended

vars == <<running, stopping, ended>>

TypeOK ==
    /\ running \in BOOLEAN
    /\ stopping \in BOOLEAN
    /\ ended \in BOOLEAN

Init ==
    /\ running = FALSE
    /\ stopping = FALSE
    /\ ended = FALSE

Run ==
    /\ ~running
    /\ ~ended
    /\ running' = TRUE
    /\ UNCHANGED <<stopping, ended>>

Stop ==
    /\ stopping' = TRUE
    /\ UNCHANGED <<running, ended>>

Return ==
    /\ running
    /\ stopping
    /\ running' = FALSE
    /\ UNCHANGED <<stopping, ended>>

End ==
    /\ running' = FALSE
    /\ ended' = TRUE
    /\ UNCHANGED stopping

Next == Run \/ Stop \/ Return \/ End

Safety == Init /\ [][Next]_vars

Spec == Safety /\ WF_vars(Return)

==============================================================================
