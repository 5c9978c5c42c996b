------------------------------ MODULE SendSlot ------------------------------
(***************************************************************************)
(* The send slot of the epoll back end at the grain of its memory         *)
(* accesses.  proactor_tcp_epoll_send fills the global                     *)
(* current_send_request field by field, and handle_write_event of the      *)
(* loop's thread writes it out and frees it, neither under a lock.         *)
(* EpollProactor and its proofs take send for one step, which it is when   *)
(* the loop's own thread calls it; here other threads do.                  *)
(*                                                                         *)
(* Each thread sends one request; the memory it allocates for it bears its *)
(* name.  Every access goes through the global, as in the code.            *)
(***************************************************************************)
CONSTANT Senders   \* threads that call send

NULL == "NULL"
Garbage == "?"     \* what malloc leaves in a field

VARIABLES
    pc,       \* per sender: where in send it is
    current_send_request,  \* NULL, or the sender that has allocated it
    object,   \* per sender: its send_request_t; each field names the sender
              \*   whose data, length or offset it holds
    loop,     \* where the loop's thread is in handle_write_event
    sent,     \* the senders whose requests were written out
    crashed,  \* a NULL, freed or uninitialised pointer was followed
    exited    \* handle_error has ended the process

vars == <<pc, current_send_request, object, loop, sent, crashed, exited>>

Blank == [live |-> TRUE, data |-> Garbage, length |-> Garbage, offset |-> Garbage]
Freed == [Blank EXCEPT !.live = FALSE]

Init ==
    /\ pc = [t \in Senders |-> "call"]
    /\ current_send_request = NULL
    /\ object = [t \in Senders |-> Freed]
    /\ loop = "wait" /\ sent = {} /\ crashed = FALSE /\ exited = FALSE

-------------------------------------------------------------------------------
(* The test for a request in progress, and the return of -1. *)
test_slot(t) ==
    /\ pc[t] = "call"
    /\ pc' = [pc EXCEPT ![t] = IF current_send_request = NULL THEN "malloc" ELSE "-1"]
    /\ UNCHANGED <<current_send_request, object, loop, sent, crashed, exited>>

(* The memory of the request, or its data, cannot be had, or the socket not    *)
(* registered.                                                                 *)
handle_error(t) ==
    /\ pc[t] \in {"malloc", "data", "register"}
    /\ exited' = TRUE
    /\ UNCHANGED <<pc, current_send_request, object, loop, sent, crashed>>

publish(t) ==
    /\ pc[t] = "malloc"
    /\ current_send_request' = t
    /\ object' = [object EXCEPT ![t] = Blank]
    /\ pc' = [pc EXCEPT ![t] = "data"]
    /\ UNCHANGED <<loop, sent, crashed, exited>>

(* A field of what the global points to now, or a fault on what it does not. *)
Store(t, at, field, then) ==
    /\ pc[t] = at
    /\ pc' = [pc EXCEPT ![t] = then]
    /\ IF current_send_request # NULL /\ object[current_send_request].live
       THEN /\ object' = [object EXCEPT ![current_send_request][field] = t]
            /\ UNCHANGED crashed
       ELSE crashed' = TRUE /\ UNCHANGED object
    /\ UNCHANGED <<current_send_request, loop, sent, exited>>

(* malloc and memcpy of the data, the length, the offset. *)
fill(t) ==
    \/ Store(t, "data", "data", "length")
    \/ Store(t, "length", "length", "offset")
    \/ Store(t, "offset", "offset", "register")

(* The socket is registered for writing; 0 is returned. *)
register(t) ==
    /\ pc[t] = "register"
    /\ pc' = [pc EXCEPT ![t] = "0"]
    /\ UNCHANGED <<current_send_request, object, loop, sent, crashed, exited>>

(* The write of the loop's thread: all of the request (EpollProactor has the   *)
(* short and the failed writes and the callback), or a fault or a failed call  *)
(* when a field is not set.  The loop may get here before register: a socket   *)
(* of an earlier send stays registered and writable.                           *)
write(o) ==
    \/ /\ Garbage \notin {o.data, o.length, o.offset}
       /\ sent' = sent \cup {o.data} /\ loop' = "free" /\ UNCHANGED crashed
    \/ /\ Garbage \in {o.data, o.length, o.offset}
       /\ UNCHANGED <<sent, loop>> /\ crashed' \in BOOLEAN

handle_write_event ==
    /\ loop = "wait"
    /\ current_send_request # NULL
    /\ IF object[current_send_request].live
       THEN write(object[current_send_request])
       ELSE crashed' = TRUE /\ UNCHANGED <<sent, loop>>
    /\ UNCHANGED <<pc, current_send_request, object, exited>>

(* Send completed: the global is read again, what it points to is freed. *)
free_request ==
    /\ loop = "free"
    /\ loop' = "wait"
    /\ object' = [object EXCEPT ![current_send_request] = Freed]
    /\ current_send_request' = NULL
    /\ UNCHANGED <<pc, sent, crashed, exited>>

Next ==
    /\ ~crashed /\ ~exited
    /\ \/ \E t \in Senders :
             test_slot(t) \/ publish(t) \/ fill(t) \/ register(t) \/ handle_error(t)
       \/ handle_write_event \/ free_request

Spec == Init /\ [][Next]_vars

-------------------------------------------------------------------------------
(* "There is already a send request in progress" (proactor_net_epoll.c, line   *)
(* 287): while a request for which send has returned 0 is not yet sent, the    *)
(* slot holds it and refuses others.                                           *)
OneRequestInProgress ==
    \A t \in Senders : (pc[t] = "0" /\ t \notin sent) => current_send_request = t

===============================================================================
