---------------------------- MODULE EpollProactor ----------------------------
(***************************************************************************)
(* The Linux back end, src/util/proactor_net_epoll.c: one event loop with  *)
(* a wake pipe, a listening socket, connections and a single send slot.    *)
(*                                                                         *)
(* The thread that calls proactor_tcp_epoll_run (Loop) is a control state  *)
(* machine over pc; it runs application code when pc is "up" (outside run) *)
(* or one of the callback states.  Other application threads (Threads)     *)
(* call wake and stop at any time.  The kernel and the remote peers are    *)
(* the environment.  A connection stands for its file descriptor; bytes    *)
(* are counted, their values are left out.                                 *)
(***************************************************************************)
EXTENDS Naturals, Sequences, FiniteSets

CONSTANTS
    Threads,      \* application threads other than the one running the loop
    Conns,        \* connections, accepted or connected
    MAX_EVENTS,   \* events taken from the kernel by one epoll_wait
    BUFFER_SIZE,  \* bytes taken by one read in handle_data_event
    PipeCap,      \* bytes the wake pipe holds before a write blocks
    RcvBuf,       \* unread bytes the kernel holds for a connection
    SndBuf,       \* unsent bytes the kernel holds for a connection
    MaxLength,    \* bound: longest request given to proactor_tcp_epoll_send
    MaxInits,     \* bound: calls of proactor_tcp_epoll_init in one process
    LoopCalls     \* API functions the application calls inside callbacks

Loop == "loop"
Wake == "wakeup_fds[0]"
Server == "server_socket"
NONE == "-1"

ASSUME EpollAssumption ==
    /\ Loop \notin Threads
    /\ {Wake, Server, NONE} \cap Conns = {}
    /\ MAX_EVENTS \in Nat \ {0}
    /\ BUFFER_SIZE \in Nat \ {0}
    /\ PipeCap \in Nat \ {0}
    /\ RcvBuf \in Nat \ {0}
    /\ SndBuf \in Nat \ {0}
    /\ MaxLength \in Nat
    /\ MaxInits \in Nat
    /\ LoopCalls \subseteq {"send", "wake", "stop", "set_callback"}

Callers == Threads \cup {Loop}
Fds == Conns \cup {Wake, Server}
Events == {"EPOLLIN", "EPOLLOUT"}
CallbackStates == {"accept_cb", "receive_cb", "sent_cb"}
ExitReasons ==
    {"syscall", "wake", "send", "disconnect", "read", "SIGPIPE", "double free",
     "use after free"}
RunStates ==
    {"check", "wait", "dispatch", "write", "accepted", "sent"} \cup CallbackStates

VARIABLES
    pc,             \* where the loop's thread is
    cur,            \* the fd handled in a callback state or in "write"
    batch,          \* events[]: what is left of the last epoll_wait
    stop,
    calling,        \* per caller: "idle", or inside stop / wake before its write
    pipe,           \* bytes in the wake pipe
    wakeup_fds,     \* "unset" | "open" | "closed"
    server_socket,  \* NONE | Server
    client_socket,  \* NONE, or the last connection made by connect
    conn,           \* "none" | "pending" | "open" | "closed" | "leaked"
    mask,           \* epoll interest of each fd; {} is not registered
    eof,            \* the peer has closed its side
    rx,             \* unread bytes in the kernel
    snd,            \* bytes written and not yet read by the peer
    callbacks,      \* the callbacks that are set
    current_send_request,  \* pointer: "NULL" | "live" | "freed" (dangling)
    request,        \* what it points to; "to" is history: the code drops it
    wrote,          \* bytes the write in progress has handed to the kernel
    out,            \* history: positions of the request's bytes, as written
    inits,          \* calls of init so far
    exit            \* why the process ended: "no" while it runs

loopVars == <<pc, cur, batch>>
wakeVars == <<stop, calling, pipe, wakeup_fds>>
sockVars == <<server_socket, client_socket, conn, mask>>
netVars == <<eof, rx, snd>>
sendVars == <<current_send_request, request, wrote, out>>
confVars == <<callbacks, inits, exit>>
vars == <<loopVars, wakeVars, sockVars, netVars, sendVars, confVars>>

NoEvents == [fd \in Fds |-> {}]
NoRequest == [to |-> NONE, length |-> 0, offset |-> 0]

Init ==
    /\ pc = "down" /\ cur = NONE /\ batch = NoEvents
    /\ stop = FALSE /\ calling = [t \in Callers |-> "idle"]
    /\ pipe = 0 /\ wakeup_fds = "unset"
    /\ server_socket = NONE /\ client_socket = NONE
    /\ conn = [c \in Conns |-> "none"] /\ mask = NoEvents
    /\ eof = [c \in Conns |-> FALSE]
    /\ rx = [c \in Conns |-> 0] /\ snd = [c \in Conns |-> 0]
    /\ callbacks = {}
    /\ current_send_request = "NULL" /\ request = NoRequest
    /\ wrote = 0 /\ out = <<>>
    /\ inits = 0 /\ exit = "no"

-------------------------------------------------------------------------------
(* The process ends: handle_error after a failed call, or a fatal signal.  *)

handle_error(why) ==
    /\ pc' = "exited" /\ exit' = why
    /\ UNCHANGED <<cur, batch, callbacks, inits, wakeVars, sockVars, netVars, sendVars>>

(* The loop's thread executes application code, outside any API call. *)
InApplication ==
    /\ pc \in {"up"} \cup CallbackStates
    /\ calling[Loop] = "idle"

(* Caller t is free to call API function f. *)
CanCall(t, f) ==
    /\ pc # "exited"
    /\ calling[t] = "idle"
    /\ IF t = Loop THEN InApplication /\ (pc # "up" => f \in LoopCalls)
                   ELSE wakeup_fds = "open"

-------------------------------------------------------------------------------
(* Setting up and tearing down, by the loop's thread outside run. *)

proactor_tcp_epoll_init ==
    /\ pc = "down"
    /\ inits < MaxInits
    /\ \/ /\ pc' = "up"
          /\ pipe' = 0 /\ wakeup_fds' = "open"
          /\ mask' = [NoEvents EXCEPT ![Wake] = {"EPOLLIN"}]
          /\ inits' = inits + 1
          /\ UNCHANGED <<cur, batch, stop, calling, callbacks, exit>>
          /\ UNCHANGED <<server_socket, client_socket, conn, netVars, sendVars>>
       \/ handle_error("syscall")

proactor_tcp_epoll_start_server ==
    /\ pc = "up" /\ InApplication
    /\ \/ /\ mask[Server] = {}      \* else bind finds the port in use
          /\ server_socket' = Server
          /\ mask' = [mask EXCEPT ![Server] = {"EPOLLIN"}]
          /\ UNCHANGED <<client_socket, conn>>
          /\ UNCHANGED <<loopVars, wakeVars, netVars, sendVars, confVars>>
       \/ handle_error("syscall")

proactor_tcp_epoll_connect(c) ==
    /\ pc = "up" /\ InApplication
    /\ conn[c] = "none"
    /\ \/ /\ client_socket' = c
          /\ conn' = [conn EXCEPT ![c] = "open"]
          /\ mask' = [mask EXCEPT ![c] = {"EPOLLIN", "EPOLLOUT"}]
          /\ UNCHANGED server_socket
          /\ UNCHANGED <<loopVars, wakeVars, netVars, sendVars, confVars>>
       \/ handle_error("syscall")

(* The three set_*_callback functions; a NULL callback unsets. *)
set_callback(k, given) ==
    /\ CanCall(Loop, "set_callback")
    /\ callbacks' = IF given THEN callbacks \cup {k} ELSE callbacks \ {k}
    /\ UNCHANGED <<inits, exit, loopVars, wakeVars, sockVars, netVars, sendVars>>

(* What becomes of a connection when its process tears the epoll down:    *)
(* only client_socket is closed; accepted sockets were kept in a local    *)
(* variable of handle_accept_event and stay open, known to nobody.        *)
AfterCleanup(c) ==
    IF conn[c] = "open" THEN IF c = client_socket THEN "closed" ELSE "leaked"
    ELSE IF conn[c] = "pending" THEN "closed" ELSE conn[c]

proactor_tcp_epoll_cleanup ==
    /\ pc = "up" /\ InApplication
    /\ \/ /\ current_send_request # "freed"
          /\ pc' = "down"
          /\ conn' = [c \in Conns |-> AfterCleanup(c)]
          /\ mask' = NoEvents
          /\ wakeup_fds' = "closed"
          /\ current_send_request' =
                IF current_send_request = "live" THEN "freed" ELSE "NULL"
          /\ pipe' = 0 /\ request' = NoRequest /\ out' = <<>>
          /\ UNCHANGED <<cur, batch, stop, calling>>
          /\ UNCHANGED <<server_socket, client_socket, wrote, netVars, confVars>>
       \/ /\ current_send_request = "freed"
          /\ handle_error("double free")

-------------------------------------------------------------------------------
(* Calls from any thread.  stop is two steps: the flag, then the wake write. *)

proactor_tcp_epoll_stop_without_wake(t) ==  \* mutant: the wake is forgotten
    /\ CanCall(t, "stop")
    /\ stop' = TRUE
    /\ UNCHANGED <<calling, pipe, wakeup_fds>>
    /\ UNCHANGED <<loopVars, sockVars, netVars, sendVars, confVars>>

proactor_tcp_epoll_stop(t) ==
    /\ CanCall(t, "stop")
    /\ stop' = TRUE
    /\ calling' = [calling EXCEPT ![t] = "stop"]
    /\ UNCHANGED <<pipe, wakeup_fds, loopVars, sockVars, netVars, sendVars, confVars>>

proactor_tcp_epoll_wake(t) ==
    /\ CanCall(t, "wake")
    /\ calling' = [calling EXCEPT ![t] = "wake"]
    /\ UNCHANGED <<stop, pipe, wakeup_fds>>
    /\ UNCHANGED <<loopVars, sockVars, netVars, sendVars, confVars>>

(* The write of wake: it blocks while the pipe is full, and fails on a      *)
(* descriptor that cleanup has closed.                                      *)
wake_write(t) ==
    /\ pc # "exited"
    /\ calling[t] # "idle"
    /\ \/ /\ wakeup_fds = "open"
          /\ pipe < PipeCap
          /\ pipe' = pipe + 1
          /\ calling' = [calling EXCEPT ![t] = "idle"]
          /\ UNCHANGED <<stop, wakeup_fds>>
          /\ UNCHANGED <<loopVars, sockVars, netVars, sendVars, confVars>>
       \/ /\ wakeup_fds = "closed"
          /\ handle_error("wake")

(* Sending, from the loop's own thread.  A request in progress refuses the  *)
(* call (-1, nothing changes).  The interest of the socket becomes EPOLLOUT *)
(* alone; changing a socket that is not registered ends the process.        *)
SendMaskReadOnly == {"EPOLLIN"}    \* mutant: the wrong event
SendMask == {"EPOLLOUT"}

SlotUnchecked == TRUE             \* mutant: no test for a request in progress
SlotFree == current_send_request = "NULL"

proactor_tcp_epoll_send(c, n) ==
    /\ CanCall(Loop, "send")
    /\ conn[c] = "open"
    /\ SlotFree
    /\ \/ /\ mask[c] # {}
          /\ current_send_request' = "live"
          /\ request' = [to |-> c, length |-> n, offset |-> 0]
          /\ out' = <<>>
          /\ mask' = [mask EXCEPT ![c] = SendMask]
          /\ UNCHANGED <<wrote, server_socket, client_socket, conn>>
          /\ UNCHANGED <<loopVars, wakeVars, netVars, confVars>>
       \/ /\ mask[c] = {}
          /\ handle_error("send")
       \/ handle_error("syscall")

-------------------------------------------------------------------------------
(* The loop. *)

proactor_tcp_epoll_run ==
    /\ pc = "up" /\ InApplication
    /\ pc' = "check"
    /\ UNCHANGED <<cur, batch, wakeVars, sockVars, netVars, sendVars, confVars>>

(* while (!stop) *)
run_check ==
    /\ pc = "check"
    /\ pc' = IF stop THEN "up" ELSE "wait"
    /\ UNCHANGED <<cur, batch, wakeVars, sockVars, netVars, sendVars, confVars>>

(* Kernel: what an fd is ready for, whatever it is registered for. *)
Readiness(fd) ==
    IF fd = Wake THEN {e \in {"EPOLLIN"} : pipe > 0}
    ELSE IF fd = Server
         THEN {e \in {"EPOLLIN"} : \E c \in Conns : conn[c] = "pending"}
    ELSE {e \in {"EPOLLIN"} : rx[fd] > 0 \/ eof[fd]}
         \cup {e \in {"EPOLLOUT"} : snd[fd] < SndBuf}

Ready(fd) == mask[fd] \cap Readiness(fd)

(* Kernel: level triggered, no timeout; all that is ready, up to MAX_EVENTS, *)
(* in no particular order.                                                   *)
epoll_wait ==
    /\ pc = "wait"
    /\ LET ready == {fd \in Fds : Ready(fd) # {}}
       IN  \E S \in (SUBSET ready) \ {{}} :
              /\ \/ S = ready /\ Cardinality(ready) <= MAX_EVENTS
                 \/ Cardinality(S) = MAX_EVENTS
              /\ batch' = [fd \in Fds |-> IF fd \in S THEN Ready(fd) ELSE {}]
    /\ pc' = "dispatch"
    /\ UNCHANGED <<cur, wakeVars, sockVars, netVars, sendVars, confVars>>

(* A signal: EINTR goes back to the loop's condition. *)
epoll_wait_interrupted ==
    /\ pc = "wait"
    /\ \/ /\ pc' = "check"
          /\ UNCHANGED <<cur, batch, wakeVars, sockVars, netVars, sendVars, confVars>>
       \/ handle_error("syscall")

(* The chain of ifs in proactor_tcp_epoll_run: which handler an event gets. *)
HandlerWriteFirst(fd) ==           \* mutant: EPOLLOUT is tested first
    IF fd = Wake THEN "wake"
    ELSE IF fd = server_socket THEN "accept"
    ELSE IF "EPOLLOUT" \in batch[fd] THEN "write" ELSE "data"

HandlerOf(fd) ==
    IF fd = Wake THEN "wake"
    ELSE IF fd = server_socket THEN "accept"
    ELSE IF "EPOLLIN" \in batch[fd] THEN "data" ELSE "write"

Take(fd, handler) ==
    /\ pc = "dispatch"
    /\ batch[fd] # {}
    /\ HandlerOf(fd) = handler

NotDone(fd) == UNCHANGED batch     \* mutant: the index is not advanced
Done(fd) == batch' = [batch EXCEPT ![fd] = {}]

events_done ==
    /\ pc = "dispatch"
    /\ batch = NoEvents
    /\ pc' = "check"
    /\ UNCHANGED <<cur, batch, wakeVars, sockVars, netVars, sendVars, confVars>>

(* One byte is read from the wake pipe. *)
wake_read ==
    /\ Take(Wake, "wake")
    /\ pipe > 0                        \* read blocks on an empty pipe
    /\ pipe' = pipe - 1
    /\ Done(Wake)
    /\ UNCHANGED <<pc, cur, stop, calling, wakeup_fds>>
    /\ UNCHANGED <<sockVars, netVars, sendVars, confVars>>

AcceptedUnregistered ==            \* mutant: no callback, no registration
    IF "accept" \in callbacks THEN "accept_cb" ELSE "dispatch"

Accepted == IF "accept" \in callbacks THEN "accept_cb" ELSE "accepted"

(* accept, then the callback, and only then the registration.  A failed    *)
(* accept leaves the connection in the backlog.                            *)
handle_accept_event ==
    /\ Take(Server, "accept")
    /\ Done(Server)
    /\ \/ \E c \in Conns :
             /\ conn[c] = "pending"
             /\ conn' = [conn EXCEPT ![c] = "open"]
             /\ cur' = c
             /\ pc' = Accepted
       \/ UNCHANGED <<pc, cur, conn>>
    /\ UNCHANGED <<server_socket, client_socket, mask>>
    /\ UNCHANGED <<wakeVars, netVars, sendVars, confVars>>

accept_register ==
    /\ pc = "accepted"
    /\ \/ /\ mask' = [mask EXCEPT ![cur] = {"EPOLLIN", "EPOLLOUT"}]
          /\ pc' = "dispatch" /\ cur' = NONE
          /\ UNCHANGED <<batch, server_socket, client_socket, conn>>
          /\ UNCHANGED <<wakeVars, netVars, sendVars, confVars>>
       \/ handle_error("syscall")

Min(a, b) == IF a < b THEN a ELSE b

(* read, then the callback.  At end of file, and when read fails, the       *)
(* descriptor is closed, which takes it out of the epoll set, and           *)
(* EPOLL_CTL_DEL then fails on it.                                          *)
handle_data_event(c) ==
    /\ Take(c, "data")
    /\ \/ /\ rx[c] > 0
          /\ rx' = [rx EXCEPT ![c] = @ - Min(@, BUFFER_SIZE)]
          /\ IF "receive" \in callbacks
             THEN pc' = "receive_cb" /\ cur' = c
             ELSE UNCHANGED <<pc, cur>>
          /\ Done(c)
          /\ UNCHANGED <<eof, snd, wakeVars, sockVars, sendVars, confVars>>
       \/ /\ rx[c] > 0 \/ eof[c]      \* a blocking read waits otherwise
          /\ conn' = [conn EXCEPT ![c] = "closed"]
          /\ mask' = [mask EXCEPT ![c] = {}]
          /\ pc' = "exited"
          /\ exit' = IF rx[c] = 0 THEN "disconnect" ELSE "read"
          /\ UNCHANGED <<cur, batch, server_socket, client_socket>>
          /\ UNCHANGED <<callbacks, inits, wakeVars, netVars, sendVars>>

(* Nothing to do without a request; otherwise the write of what is left of  *)
(* the request starts, on the fd of the event, whatever send was called for.*)
handle_write_event(c) ==
    /\ Take(c, "write")
    /\ \/ /\ current_send_request = "NULL"
          /\ Done(c)
          /\ UNCHANGED <<pc, cur, wakeVars, sockVars, netVars, sendVars, confVars>>
       \/ /\ current_send_request = "live"
          /\ Done(c)
          /\ pc' = "write" /\ cur' = c /\ wrote' = 0
          /\ UNCHANGED <<current_send_request, request, out>>
          /\ UNCHANGED <<wakeVars, sockVars, netVars, confVars>>
       \/ /\ current_send_request = "freed"
          /\ handle_error("use after free")

WholeLength == request.length                       \* mutant: the offset is not subtracted
Left == request.length - request.offset

WriteToAddressee == request.to     \* mutant: not the fd of the event
WriteFd == cur

(* Kernel: the blocking write takes the next byte as soon as there is room. *)
write_byte ==
    /\ pc = "write"
    /\ wrote < Left
    /\ snd[WriteFd] < SndBuf
    /\ snd' = [snd EXCEPT ![WriteFd] = @ + 1]
    /\ out' = Append(out, request.offset + wrote + 1)
    /\ wrote' = wrote + 1
    /\ UNCHANGED <<current_send_request, request, eof, rx>>
    /\ UNCHANGED <<loopVars, wakeVars, sockVars, confVars>>

(* write returns: all was taken, or a signal ends it early (a short count,  *)
(* or -1 when nothing was taken, which leaves the offset as it is).         *)
OffsetOverwritten == wrote                          \* mutant: = for +=
AdvancedOffset == request.offset + wrote

write_returned ==
    /\ request' = [to |-> request.to, length |-> request.length,
                   offset |-> AdvancedOffset]
    /\ IF AdvancedOffset >= request.length
       THEN /\ pc' = IF "sent" \in callbacks THEN "sent_cb" ELSE "sent"
            /\ UNCHANGED cur
       ELSE pc' = "dispatch" /\ cur' = NONE
    /\ wrote' = 0
    /\ UNCHANGED <<batch, current_send_request, out>>
    /\ UNCHANGED <<wakeVars, sockVars, netVars, confVars>>

write_completes == pc = "write" /\ wrote = Left /\ write_returned

write_interrupted == pc = "write" /\ wrote < Left /\ write_returned

(* The peer is gone: write returns -1, or its SIGPIPE ends the process. *)
write_error ==
    /\ pc = "write" /\ wrote = 0 /\ eof[cur]
    /\ \/ /\ pc' = "dispatch" /\ cur' = NONE
          /\ UNCHANGED <<batch, wakeVars, sockVars, netVars, sendVars, confVars>>
       \/ handle_error("SIGPIPE")

(* Send completed: the callback has run, the request is freed. *)
free_request ==
    /\ pc = "sent"
    /\ current_send_request' = "NULL" /\ request' = NoRequest /\ out' = <<>>
    /\ pc' = "dispatch" /\ cur' = NONE
    /\ UNCHANGED <<batch, wrote, wakeVars, sockVars, netVars, confVars>>

(* A callback returns to its handler. *)
callback_return ==
    /\ pc \in CallbackStates
    /\ calling[Loop] = "idle"
    /\ \/ pc = "accept_cb" /\ pc' = "accepted" /\ UNCHANGED cur
       \/ pc = "receive_cb" /\ pc' = "dispatch" /\ cur' = NONE
       \/ pc = "sent_cb" /\ pc' = "sent" /\ UNCHANGED cur
    /\ UNCHANGED <<batch, wakeVars, sockVars, netVars, sendVars, confVars>>

-------------------------------------------------------------------------------
(* The remote peers and the kernel's buffers. *)

peer_connect(c) ==
    /\ pc # "exited"
    /\ mask[Server] # {}
    /\ conn[c] = "none"
    /\ conn' = [conn EXCEPT ![c] = "pending"]
    /\ UNCHANGED <<server_socket, client_socket, mask>>
    /\ UNCHANGED <<loopVars, wakeVars, netVars, sendVars, confVars>>

peer_send(c) ==
    /\ pc # "exited"
    /\ conn[c] \in {"pending", "open"}
    /\ ~eof[c] /\ rx[c] < RcvBuf
    /\ rx' = [rx EXCEPT ![c] = @ + 1]
    /\ UNCHANGED <<eof, snd, loopVars, wakeVars, sockVars, sendVars, confVars>>

peer_close(c) ==
    /\ pc # "exited"
    /\ conn[c] \in {"pending", "open"}
    /\ ~eof[c]
    /\ eof' = [eof EXCEPT ![c] = TRUE]
    /\ UNCHANGED <<rx, snd, loopVars, wakeVars, sockVars, sendVars, confVars>>

(* The peer reads a byte, or its kernel discards it after a close. *)
peer_read(c) ==
    /\ pc # "exited"
    /\ snd[c] > 0
    /\ snd' = [snd EXCEPT ![c] = @ - 1]
    /\ UNCHANGED <<eof, rx, loopVars, wakeVars, sockVars, sendVars, confVars>>

-------------------------------------------------------------------------------
Setup ==
    \/ proactor_tcp_epoll_init
    \/ proactor_tcp_epoll_start_server
    \/ \E c \in Conns : proactor_tcp_epoll_connect(c)
    \/ \E k \in {"accept", "receive", "sent"}, given \in BOOLEAN :
          set_callback(k, given)
    \/ proactor_tcp_epoll_cleanup

Calls ==
    \/ \E t \in Callers : \/ proactor_tcp_epoll_stop(t)
                          \/ proactor_tcp_epoll_wake(t)
                          \/ wake_write(t)
    \/ \E c \in Conns, n \in 0..MaxLength : proactor_tcp_epoll_send(c, n)

(* What the loop's thread does inside run of its own accord. *)
LoopStep ==
    \/ run_check \/ epoll_wait \/ events_done \/ wake_read
    \/ handle_accept_event \/ accept_register
    \/ \E c \in Conns : handle_data_event(c) \/ handle_write_event(c)
    \/ write_byte \/ write_completes \/ write_error \/ free_request

Signals == epoll_wait_interrupted \/ write_interrupted

Peers ==
    \E c \in Conns : \/ peer_connect(c) \/ peer_send(c)
                     \/ peer_close(c) \/ peer_read(c)

Next ==
    \/ Setup \/ Calls
    \/ proactor_tcp_epoll_run \/ LoopStep \/ callback_return
    \/ Signals \/ Peers

Spec == Init /\ [][Next]_vars

(* Fairness.  The loop's thread is scheduled; callbacks return after        *)
(* finitely many calls; a blocked wake write proceeds once there is room;   *)
(* peers read what they are sent; signals do not interrupt every epoll_wait *)
(* or every write before it has done anything.  When more descriptors are   *)
(* ready than fit in MAX_EVENTS, the kernel serves them in turn: it puts a  *)
(* level-triggered one that it reports back at the end of its ready list.   *)
SystemFairness ==
    /\ WF_vars(LoopStep)
    /\ SF_vars(callback_return)
    /\ \A t \in Callers : WF_vars(wake_write(t))
    /\ SF_vars(epoll_wait)
    /\ \A fd \in Fds : SF_vars(epoll_wait /\ batch'[fd] # {})
    /\ SF_vars(write_byte)

PeerFairness == \A c \in Conns : WF_vars(peer_read(c))

FairSpec == Spec /\ SystemFairness /\ PeerFairness

-------------------------------------------------------------------------------
(* Properties. *)

LoopTypeOK ==
    /\ pc \in {"down", "up", "exited"} \cup RunStates
    /\ cur \in Conns \cup {NONE}
    /\ batch \in [Fds -> SUBSET Events]

WakeTypeOK ==
    /\ stop \in BOOLEAN
    /\ calling \in [Callers -> {"idle", "stop", "wake"}]
    /\ pipe \in 0..PipeCap
    /\ wakeup_fds \in {"unset", "open", "closed"}

SockTypeOK ==
    /\ server_socket \in {NONE, Server}
    /\ client_socket \in Conns \cup {NONE}
    /\ conn \in [Conns -> {"none", "pending", "open", "closed", "leaked"}]
    /\ mask \in [Fds -> SUBSET Events]

NetTypeOK ==
    /\ eof \in [Conns -> BOOLEAN]
    /\ rx \in [Conns -> 0..RcvBuf]
    /\ snd \in [Conns -> 0..SndBuf]

SendTypeOK ==
    /\ current_send_request \in {"NULL", "live", "freed"}
    /\ request \in [to : Conns \cup {NONE}, length : 0..MaxLength,
                    offset : 0..MaxLength]
    /\ wrote \in 0..MaxLength
    /\ out \in Seq(Nat)

ConfTypeOK ==
    /\ callbacks \subseteq {"accept", "receive", "sent"}
    /\ inits \in 0..MaxInits
    /\ exit \in {"no"} \cup ExitReasons

(* The shape of the state kept by proactor_net_epoll.c and its kernel: each *)
(* counter within its buffer, the offset within the longest request.        *)
TypeOK ==
    /\ LoopTypeOK /\ WakeTypeOK /\ SockTypeOK
    /\ NetTypeOK /\ SendTypeOK /\ ConfTypeOK

(* No lost wakeup (proactor_tcp_epoll_stop against the loop's test of stop *)
(* and its wait without a timeout): when stop is set and the loop waits,   *)
(* the wake byte is in the pipe or its write is still to come.             *)
NoLostStop ==
    (stop /\ pc = "wait") => (pipe > 0 \/ \E t \in Threads : calling[t] = "stop")

(* The events of one epoll_wait are a snapshot, taken up one by one while   *)
(* callbacks, threads and peers go on: every event still to be handled is   *)
(* still true when its handler runs, so no blocking read, accept or write   *)
(* of a handler finds its descriptor not ready and hangs the loop.          *)
EventsStayReady ==
    \A fd \in Fds : batch[fd] \subseteq Readiness(fd)

(* Across short writes and retries in handle_write_event, the bytes of a    *)
(* request go out in order, each exactly once, and the request counts as    *)
(* sent only when all of it went out.                                       *)
SendInOrderOnce ==
    /\ current_send_request = "live" =>
          out = [i \in 1..(request.offset + wrote) |-> i]
    /\ pc \in {"sent_cb", "sent"} => Len(out) = request.length

(* Every open connection is watched by the epoll set, except the one that   *)
(* handle_accept_event is still handing to the accept callback; and nothing *)
(* but an open connection is watched.                                       *)
OpenIsWatched ==
    \A c \in Conns :
       /\ mask[c] # {} => conn[c] = "open"
       /\ conn[c] = "open" => \/ mask[c] # {}
                              \/ pc \in {"accept_cb", "accepted"} /\ cur = c
                              \/ pc = "exited"

RequestKeptStep ==
    current_send_request = "live" =>
       \/ /\ current_send_request' = "live"
          /\ request'.to = request.to /\ request'.length = request.length
          /\ request'.offset >= request.offset
       \/ current_send_request' = "NULL" /\ request.offset = request.length
       \/ current_send_request' = "freed" /\ pc = "up"

(* The slot current_send_request holds one request until it is complete: a  *)
(* send made from a callback, its own completion callback included, never   *)
(* replaces it, and it is given up only when every byte was written or at   *)
(* cleanup.                                                                 *)
RequestKept == [][RequestKeptStep]_vars

(* run and stop keep the promise of EventLoop: run returns only after stop, *)
(* and does return once stop was called.                                    *)
EL == INSTANCE EventLoop
         WITH running <- pc \in RunStates, stopping <- stop,
              ended <- pc = "exited"

ImplementsEventLoop == EL!Spec

(* While a connection is watched for input, data that has arrived on it     *)
(* reaches the receive callback, also while the wake pipe and the other     *)
(* sockets take up the places of MAX_EVENTS, which the kernel gives in turn.*)
WatchedDataDelivered ==
    \A c \in Conns :
       (pc \in RunStates /\ rx[c] > 0 /\ "EPOLLIN" \in mask[c])
       ~> \/ pc = "receive_cb" /\ cur = c
          \/ pc \notin RunStates
          \/ "EPOLLIN" \notin mask[c]
          \/ "receive" \notin callbacks

(* A request accepted by proactor_tcp_epoll_send is completed, unless the   *)
(* loop ends or a peer has gone away.                                       *)
SendCompletes ==
    (pc \in RunStates /\ current_send_request = "live")
    ~> (current_send_request # "live" \/ pc \notin RunStates \/ \E c \in Conns : eof[c])

-------------------------------------------------------------------------------
(* What comments of proactor_net_epoll.c say and its code does not do. *)

(* "Remove the client socket from the epoll monitoring" (line 162): a peer  *)
(* that disconnects is dropped, and the process goes on.                    *)
DisconnectSurvived == exit # "disconnect"

(* "Handle data from the server" (line 152): data on an open connection     *)
(* reaches the receive callback, also after a send on that connection.      *)
OpenDataDelivered ==
    \A c \in Conns :
       (pc \in RunStates /\ rx[c] > 0 /\ conn[c] = "open")
       ~> \/ pc = "receive_cb" /\ cur = c
          \/ pc \notin RunStates
          \/ "receive" \notin callbacks

(* "Send data" (line 284), of proactor_tcp_epoll_send(socket, ...): the     *)
(* bytes of the request are written to that socket.                         *)
SentToAddressee == (pc = "write" /\ wrote > 0) => cur = request.to

(* "Stop the epoll event loop" (line 262): stopping ends the loop, not the  *)
(* process.                                                                 *)
StopSurvived == exit # "wake"

===============================================================================
