---------------------------- MODULE KeventProactor ----------------------------
(***************************************************************************)
(* The back end that the Darwin build selects,                             *)
(* src/util/proactor_net_kevent.c: a proactor object with a kernel queue,  *)
(* a wake pipe, a list of sockets and a tick.                              *)
(*                                                                         *)
(* As in EpollProactor, the thread that calls proactor_net_run (Loop) is a *)
(* control state machine over pc, other threads (Threads) call stop and    *)
(* wake at any time, and the kernel and the peers are the environment.     *)
(* The socket functions that proactor_net.h declares and no file defines   *)
(* (open, close, start_accept, start_receive, start_send) are external:    *)
(* they link a socket and register it with itself as udata, which is what  *)
(* proactor_net_run relies on, and unlink, close and free it again.        *)
(*                                                                         *)
(* Memory is modelled as far as it is allocated and freed: a socket        *)
(* structure is used once, and a step that reads a freed one ends the      *)
(* process.                                                                *)
(***************************************************************************)
EXTENDS Naturals, Sequences, FiniteSets

CONSTANTS
    Threads,      \* application threads other than the one running the loop
    Disposers,    \* the callers that may call proactor_net_dispose
    Listeners,    \* sockets of type PROACTOR_SOCK_TCP_LISTENER,
    Streams,      \*   PROACTOR_SOCK_TCP_CLIENT
    Datagrams,    \*   and PROACTOR_SOCK_UDP
    NUM_EVENTS,   \* events taken from the kernel by one kevent call
    PipeCap,      \* bytes the wake pipe holds before a write blocks
    BufferSize,   \* size of the buffers the application receives into
    RcvBuf,       \* bytes, connections or datagrams the kernel holds for a socket
    MaxDatagram,  \* bound: longest datagram a peer sends
    LoopCalls,    \* API functions the application calls inside callbacks
    OwnCloses,    \* callbacks in which it closes the socket they are for
    MaxDisposes   \* bound: calls of proactor_net_dispose

Loop == "loop"
Wake == "wakeup_fds[0]"
NULL == "NULL"
Object == "proactor"     \* the proactor_t structure
Callers == Threads \cup {Loop}
Socks == Listeners \cup Streams \cup Datagrams
Filters == {"EVFILT_READ", "EVFILT_WRITE"}
Kevents == (Socks \X Filters) \cup {<<Wake, "EVFILT_READ">>}

ASSUME KeventAssumption ==
    /\ Loop \notin Threads
    /\ Disposers \subseteq Callers
    /\ {Wake, NULL, Object} \cap Socks = {}
    /\ Listeners \cap Streams = {}
    /\ Listeners \cap Datagrams = {}
    /\ Streams \cap Datagrams = {}
    /\ NUM_EVENTS \in Nat \ {0}
    /\ PipeCap \in Nat \ {0}
    /\ BufferSize \in Nat \ {0}
    /\ RcvBuf \in Nat \ {0}
    /\ MaxDatagram \in Nat
    /\ LoopCalls \subseteq {"stop", "wake", "dispose", "open", "close",
                            "start_receive", "start_send"}
    /\ MaxDisposes \in Nat

CallbacksOf(s) ==
    IF s \in Listeners THEN {"accept", "tick"} ELSE {"receive", "close", "tick"}

EventCallbacks == {"accept_cb", "receive_cb", "close_cb"}
CallbackStates == EventCallbacks \cup {"tick_cb", "sock_tick_cb"}
RunStates ==
    {"check", "wait", "dispatch", "tick", "sock_ticks", "sock_tick"} \cup CallbackStates
DisposeStates ==
    {"dispose_wake", "dispose_cb", "dispose_sockets", "dispose_close_cb",
     "dispose_read_end", "dispose_write_end", "dispose_kq"}

VARIABLES
    pc,          \* where the loop's thread is
    cur,         \* the socket handled in a callback or ticked next
    batch,       \* events[]: what is left of the last kevent call
    stop,
    calling,     \* per caller: "idle", inside stop / wake before its write, or
                 \*   inside dispose
    pipe,        \* bytes in the wake pipe
    kq,          \* "closed" | "open"
    wakeup_fds,  \* "-1" | "open" | "half" (only the write end is) | "closed"
    watched,     \* the wake pipe was registered by create
    status,      \* what get_status tells of create
    event_cb,    \* the application gave an event callback
    sockets,     \* the linked list of sockets
    allocated,   \* the structures ever allocated: sockets and the proactor
    freed,       \* those that were freed again
    fds,         \* sockets whose descriptor is open
    filters,     \* per socket: the filters registered with the kernel queue
    cbs,         \* per socket: the callbacks that are set
    data_length, \* per socket: data_length of its buffer
    rx,          \* kernel: unread bytes of a stream, waiting connections of a listener
    queue,       \* kernel: lengths of the datagrams waiting
    eof,         \* the peer of a stream has closed its side
    ticked,      \* history: sockets ticked in this pass of the loop
    disposes,    \* calls of dispose
    dispose_cur, \* per caller: the socket dispose is at, and the one it has
    dispose_next,\*   read as the next
    exit         \* why the process ended: "no" while it runs

loopVars == <<pc, cur, batch>>
wakeVars == <<stop, calling, pipe, kq, wakeup_fds, watched>>
memVars == <<allocated, freed, fds>>
sockVars == <<sockets, memVars, filters, cbs, data_length>>
netVars == <<rx, queue, eof>>
walkVars == <<disposes, dispose_cur, dispose_next>>
restVars == <<status, event_cb, walkVars, exit>>
vars == <<loopVars, wakeVars, sockVars, netVars, restVars, ticked>>

Init ==
    /\ pc = "down" /\ cur = NULL /\ batch = {}
    /\ stop = FALSE /\ calling = [t \in Callers |-> "idle"] /\ pipe = 0
    /\ kq = "closed" /\ wakeup_fds = "-1" /\ watched = FALSE
    /\ status = "STATUS_OK" /\ event_cb = FALSE
    /\ sockets = <<>> /\ allocated = {} /\ freed = {} /\ fds = {}
    /\ filters = [s \in Socks |-> {}] /\ cbs = [s \in Socks |-> {}]
    /\ data_length = [s \in Socks |-> 0]
    /\ rx = [s \in Socks |-> 0] /\ queue = [s \in Socks |-> <<>>]
    /\ eof = [s \in Socks |-> FALSE]
    /\ ticked = {}
    /\ disposes = 0 /\ exit = "no"
    /\ dispose_cur = [t \in Callers |-> NULL]
    /\ dispose_next = [t \in Callers |-> NULL]

Linked == {sockets[i] : i \in DOMAIN sockets}

FirstSocket == IF sockets = <<>> THEN NULL ELSE sockets[1]

PositionOf(s) == CHOOSE i \in DOMAIN sockets : sockets[i] = s

(* s->next: an accepted client is in no list, its next pointer is NULL. *)
NextSocket(s) ==
    IF s \in Linked /\ PositionOf(s) < Len(sockets)
    THEN sockets[PositionOf(s) + 1]
    ELSE NULL

(* The list without s. *)
Unlinked(s) ==
    IF s \in Linked
    THEN [i \in 1..(Len(sockets) - 1) |->
             sockets[IF i < PositionOf(s) THEN i ELSE i + 1]]
    ELSE sockets

-------------------------------------------------------------------------------
(* The process ends on a memory fault or a signal. *)
Crash(why) ==
    /\ pc' = "exited" /\ exit' = why
    /\ UNCHANGED <<cur, batch, status, event_cb, walkVars>>
    /\ UNCHANGED <<wakeVars, sockVars, netVars, ticked>>

(* The loop's thread executes application code, outside any API call. *)
InApplication ==
    /\ pc \in {"up"} \cup CallbackStates
    /\ calling[Loop] = "idle"

(* Caller t is free to call API function f on a proactor that exists. *)
CanCall(t, f) ==
    /\ pc \notin {"down", "exited"}
    /\ calling[t] = "idle"
    /\ t = Loop => InApplication /\ (pc # "up" => f \in LoopCalls)

-------------------------------------------------------------------------------
(* Creating a proactor: the queue, the pipe and its registration, of which the *)
(* first that fails ends the building.  The object is returned as far as it    *)
(* was built, with a status that tells of the failure.                         *)
RegistrationUnnoticed(built) ==    \* mutant: rc is not set for the last step
    IF built >= 2 THEN "STATUS_OK" ELSE "STATUS_INTERNAL_FAILURE"
CreateStatus(built) == IF built = 3 THEN "STATUS_OK" ELSE "STATUS_INTERNAL_FAILURE"

proactor_net_create ==
    /\ pc = "down"
    /\ pc' = "up" /\ pipe' = 0 /\ stop' = FALSE
    /\ \E built \in 0..3 :
          /\ kq' = IF built >= 1 THEN "open" ELSE "closed"
          /\ wakeup_fds' = IF built >= 2 THEN "open" ELSE "-1"
          /\ watched' = (built = 3)
          /\ status' = CreateStatus(built)
    /\ event_cb' \in BOOLEAN
    /\ allocated' = allocated \cup {Object}
    /\ UNCHANGED <<cur, batch, calling, walkVars, exit>>
    /\ UNCHANGED <<sockets, freed, fds, filters, cbs, data_length, netVars, ticked>>

proactor_net_get_status == IF pc = "down" THEN "STATUS_NULL_PTR" ELSE status

(* External: the socket is linked at the head of the list, with the callbacks *)
(* that the application then sets.                                            *)
proactor_net_socket_open(s, given) ==
    /\ CanCall(Loop, "open") /\ kq = "open"
    /\ s \notin allocated
    /\ sockets' = <<s>> \o sockets
    /\ allocated' = allocated \cup {s} /\ fds' = fds \cup {s}
    /\ cbs' = [cbs EXCEPT ![s] = given]
    /\ UNCHANGED <<freed, filters, data_length>>
    /\ UNCHANGED <<loopVars, wakeVars, netVars, restVars, ticked>>

(* External: start_accept of a listener, start_receive of the others with a   *)
(* buffer of the application.                                                 *)
start_receive(s) ==
    /\ CanCall(Loop, "start_receive") /\ kq = "open"
    /\ s \in fds
    /\ filters' = [filters EXCEPT ![s] = @ \cup {"EVFILT_READ"}]
    /\ data_length' = [data_length EXCEPT ![s] = BufferSize]
    /\ UNCHANGED <<sockets, memVars, cbs, loopVars, wakeVars, netVars, restVars, ticked>>

(* External: start_send asks for write readiness. *)
start_send(s) ==
    /\ CanCall(Loop, "start_send") /\ kq = "open"
    /\ s \in fds \ Listeners
    /\ filters' = [filters EXCEPT ![s] = @ \cup {"EVFILT_WRITE"}]
    /\ UNCHANGED <<sockets, memVars, cbs, data_length>>
    /\ UNCHANGED <<loopVars, wakeVars, netVars, restVars, ticked>>

(* close and free of sockets: the kernel forgets their registrations and what  *)
(* they had not read, and the content of the structures is lost.               *)
Without(f, S, lost) == [s \in Socks |-> IF s \in S THEN lost ELSE f[s]]

Release(S) ==
    /\ freed' = freed \cup S /\ fds' = fds \ S
    /\ filters' = Without(filters, S, {}) /\ cbs' = Without(cbs, S, {})
    /\ data_length' = Without(data_length, S, 0)
    /\ rx' = Without(rx, S, 0) /\ queue' = Without(queue, S, <<>>)
    /\ eof' = Without(eof, S, FALSE)
    /\ UNCHANGED allocated

(* External: close unlinks the socket, closes and frees it.  Inside a callback *)
(* the application closes the socket it is called for, or one that it has not  *)
(* started; where LoopCalls says so, any socket.                               *)
proactor_net_socket_close(s) ==
    /\ InApplication
    /\ \/ pc = "up"
       \/ pc \in OwnCloses /\ (s = cur \/ filters[s] = {})
       \/ "close" \in LoopCalls
    /\ s \in (Socks \cap allocated) \ freed
    /\ sockets' = Unlinked(s)
    /\ Release({s})
    /\ UNCHANGED <<loopVars, wakeVars, restVars, ticked>>

-------------------------------------------------------------------------------
(* Calls from any thread.  stop is two steps: the flag, then the wake write. *)

proactor_net_stop(t) ==
    /\ CanCall(t, "stop")
    /\ stop' = TRUE
    /\ calling' = [calling EXCEPT ![t] = "stop"]
    /\ UNCHANGED <<pipe, kq, wakeup_fds, watched>>
    /\ UNCHANGED <<loopVars, sockVars, netVars, restVars, ticked>>

proactor_net_wake(t) ==
    /\ CanCall(t, "wake")
    /\ calling' = [calling EXCEPT ![t] = "wake"]
    /\ UNCHANGED <<stop, pipe, kq, wakeup_fds, watched>>
    /\ UNCHANGED <<loopVars, sockVars, netVars, restVars, ticked>>

(* Where a caller goes on once its write to the wake pipe is done. *)
AfterWakeWrite(t) == IF calling[t] = "dispose_wake" THEN "dispose_cb" ELSE "idle"

(* The write of wake blocks while the pipe is full; a failed one (the pipe is *)
(* not there, or closed) is only logged.  With no read end left, a write, or   *)
(* one that waited for room, ends the process: nothing ignores SIGPIPE.        *)
wake_write(t) ==
    /\ pc # "exited"
    /\ calling[t] \in {"stop", "wake", "dispose_wake"}
    /\ \/ wakeup_fds = "open" /\ pipe < PipeCap /\ pipe' = pipe + 1
       \/ wakeup_fds \in {"-1", "closed"} /\ UNCHANGED pipe
    /\ calling' = [calling EXCEPT ![t] = AfterWakeWrite(t)]
    /\ UNCHANGED <<stop, kq, wakeup_fds, watched>>
    /\ UNCHANGED <<loopVars, sockVars, netVars, restVars, ticked>>

wake_broken_pipe(t) ==
    /\ pc # "exited"
    /\ calling[t] \in {"stop", "wake", "dispose_wake"}
    /\ wakeup_fds = "half" \/ (wakeup_fds = "closed" /\ pipe = PipeCap)
    /\ Crash("SIGPIPE")

-------------------------------------------------------------------------------
(* dispose stops the loop, tells the application, closes and frees the sockets *)
(* of the list one by one and closes the descriptors.  It does not wait for    *)
(* run to return, resets no pointer and frees neither the proactor nor a       *)
(* socket that is in no list.                                                  *)

(* A step of caller t inside dispose, from one of its places to the next. *)
DisposeStep(t, from, to) ==
    /\ pc # "exited"
    /\ calling[t] = from
    /\ calling' = [calling EXCEPT ![t] = to]
    /\ UNCHANGED <<stop, pipe, watched, status, event_cb, exit, disposes>>
    /\ UNCHANGED <<loopVars, ticked>>

proactor_net_dispose(t) ==
    /\ t \in Disposers /\ disposes < MaxDisposes
    /\ CanCall(t, "dispose")
    /\ disposes' = disposes + 1
    /\ stop' = TRUE
    /\ calling' = [calling EXCEPT ![t] = "dispose_wake"]
    /\ UNCHANGED <<pipe, kq, wakeup_fds, watched, status, event_cb, exit>>
    /\ UNCHANGED <<dispose_cur, dispose_next, loopVars, sockVars, netVars, ticked>>

(* The dispose callback, then cur = proactor->sockets. *)
dispose_event_cb(t) ==
    /\ DisposeStep(t, "dispose_cb", "dispose_sockets")
    /\ dispose_cur' = [dispose_cur EXCEPT ![t] = FirstSocket]
    /\ UNCHANGED <<dispose_next, sockVars, netVars, kq, wakeup_fds>>

(* next = cur->next, then close_cb of the socket, which may well be open. *)
dispose_socket(t) ==
    \/ /\ dispose_cur[t] = NULL
       /\ DisposeStep(t, "dispose_sockets", "dispose_read_end")
       /\ UNCHANGED <<dispose_cur, dispose_next, sockVars, netVars, kq, wakeup_fds>>
    \/ /\ dispose_cur[t] # NULL /\ dispose_cur[t] \notin freed
       /\ DisposeStep(t, "dispose_sockets", "dispose_close_cb")
       /\ dispose_next' = [dispose_next EXCEPT ![t] = NextSocket(dispose_cur[t])]
       /\ UNCHANGED <<dispose_cur, sockVars, netVars, kq, wakeup_fds>>

(* The application closes the socket in this close_cb, as it does in the one   *)
(* that process_read_ready calls.                                              *)
dispose_close_cb(t) ==
    /\ pc # "exited"
    /\ calling[t] = "dispose_close_cb" /\ "dispose_close_cb" \in OwnCloses
    /\ dispose_cur[t] \notin freed /\ "close" \in cbs[dispose_cur[t]]
    /\ sockets' = Unlinked(dispose_cur[t])
    /\ Release({dispose_cur[t]})
    /\ UNCHANGED <<loopVars, wakeVars, restVars, ticked>>

FreedIfCalledBack(s) ==    \* mutant: close and free are inside the if
    IF "close" \in cbs[s] THEN {s} ELSE {}
FreedByWalk(s) == {s}

(* close and free of the socket; the list keeps the pointer to it. *)
dispose_free(t) ==
    /\ dispose_cur[t] \notin freed
    /\ DisposeStep(t, "dispose_close_cb", "dispose_sockets")
    /\ Release(FreedByWalk(dispose_cur[t]))
    /\ dispose_cur' = [dispose_cur EXCEPT ![t] = dispose_next[t]]
    /\ UNCHANGED <<dispose_next, sockets, kq, wakeup_fds>>

(* cur is read, or closed and freed again, after something has freed it. *)
dispose_stale(t) ==
    /\ pc # "exited"
    /\ calling[t] \in {"dispose_sockets", "dispose_close_cb"}
    /\ dispose_cur[t] \in freed
    /\ Crash("use after free")

(* The two ends of the pipe, unless it was never made, and the queue. *)
dispose_fds(t) ==
    /\ \/ /\ DisposeStep(t, "dispose_read_end", "dispose_write_end")
          /\ wakeup_fds' = IF wakeup_fds = "open" THEN "half" ELSE wakeup_fds
          /\ UNCHANGED kq
       \/ /\ DisposeStep(t, "dispose_write_end", "dispose_kq")
          /\ wakeup_fds' = IF wakeup_fds = "half" THEN "closed" ELSE wakeup_fds
          /\ UNCHANGED kq
       \/ /\ DisposeStep(t, "dispose_kq", "idle")
          /\ kq' = "closed"
          /\ UNCHANGED wakeup_fds
    /\ UNCHANGED <<dispose_cur, dispose_next, sockVars, netVars>>

-------------------------------------------------------------------------------
(* The loop. *)

proactor_net_run ==
    /\ pc = "up" /\ InApplication
    /\ pc' = "check"
    /\ UNCHANGED <<cur, batch, wakeVars, sockVars, netVars, restVars, ticked>>

(* while (!proactor->stop) *)
GoOnWhileWoken == ~stop \/ pipe > 0   \* mutant: wakes are drained first
GoOn == ~stop

run_check ==
    /\ pc = "check"
    /\ pc' = IF GoOn THEN "wait" ELSE "up"
    /\ UNCHANGED <<cur, batch, wakeVars, sockVars, netVars, restVars, ticked>>

(* Kernel: the events that hold now. *)
Ready ==
    {<<s, "EVFILT_READ">> : s \in {s \in Socks : /\ "EVFILT_READ" \in filters[s]
                                                /\ \/ rx[s] > 0 \/ eof[s]
                                                   \/ queue[s] # <<>>}}
    \cup {<<s, "EVFILT_WRITE">> : s \in {s \in Socks : "EVFILT_WRITE" \in filters[s]}}
    \cup {e \in {<<Wake, "EVFILT_READ">>} : watched /\ wakeup_fds = "open" /\ pipe > 0}

(* Kernel: all that is ready, up to NUM_EVENTS; nothing when the tick period   *)
(* has passed.                                                                 *)
kevent ==
    /\ pc = "wait" /\ kq = "open"
    /\ \E S \in SUBSET Ready :
          /\ \/ S = Ready /\ Cardinality(Ready) <= NUM_EVENTS
             \/ Cardinality(S) = NUM_EVENTS
          /\ batch' = S
    /\ pc' = "dispatch"
    /\ UNCHANGED <<cur, wakeVars, sockVars, netVars, restVars, ticked>>

(* A signal goes back to the loop's condition; after any other error (a closed *)
(* queue has no other outcome) the loop goes on as if nothing had happened.    *)
kevent_interrupted ==
    /\ pc = "wait" /\ kq = "open"
    /\ pc' = "check"
    /\ UNCHANGED <<cur, batch, wakeVars, sockVars, netVars, restVars, ticked>>

kevent_error ==
    /\ pc = "wait" /\ kq = "closed"
    /\ pc' = "dispatch" /\ batch' = {}
    /\ UNCHANGED <<cur, wakeVars, sockVars, netVars, restVars, ticked>>

Take(e) == pc = "dispatch" /\ e \in batch
Done(e) == batch' = batch \ {e}

(* One byte is read from the wake pipe; on a closed one the read fails. *)
wake_read ==
    /\ Take(<<Wake, "EVFILT_READ">>)
    /\ \/ wakeup_fds = "open" /\ pipe > 0 /\ pipe' = pipe - 1
       \/ wakeup_fds # "open" /\ UNCHANGED pipe
    /\ Done(<<Wake, "EVFILT_READ">>)
    /\ UNCHANGED <<pc, cur, stop, calling, kq, wakeup_fds, watched>>
    /\ UNCHANGED <<sockVars, netVars, restVars, ticked>>

(* The handler of a socket event is entered. *)
Handle(s, filter) ==
    /\ Take(<<s, filter>>)
    /\ Done(<<s, filter>>)
    /\ UNCHANGED <<sockets, freed, filters, wakeVars, restVars, ticked>>

TouchesAlways(filter) == TRUE   \* mutant: the write handler looks at the socket too
Touches(filter) == filter = "EVFILT_READ"

(* events[i].udata is a socket that was freed since, and is read. *)
stale_event ==
    /\ \E e \in batch : Take(e) /\ e[1] \in freed /\ Touches(e[2])
    /\ Crash("use after free")

(* Without a callback, or without memory, the connection stays in the backlog. *)
(* Otherwise a client structure is allocated, accept gives it a descriptor or  *)
(* fails, and the callback is called either way; nothing links the client.     *)
process_accept_ready(l) ==
    /\ l \in Listeners \ freed
    /\ Handle(l, "EVFILT_READ")
    /\ \/ UNCHANGED <<pc, cur, allocated, fds, cbs, rx>>
       \/ /\ "accept" \in cbs[l]
          /\ pc' = "accept_cb" /\ cur' = l
          /\ \E c \in Streams \ allocated :
                /\ allocated' = allocated \cup {c}
                /\ \/ /\ rx[l] > 0 /\ rx' = [rx EXCEPT ![l] = @ - 1]
                      /\ fds' = fds \cup {c}
                      /\ \E given \in SUBSET CallbacksOf(c) : cbs' = [cbs EXCEPT ![c] = given]
                   \/ UNCHANGED <<fds, cbs, rx>>
    /\ UNCHANGED <<data_length, queue, eof>>

Least(a, b) == IF a < b THEN a ELSE b

(* What recvfrom returns: data_length is the room it is given. *)
Received(s) ==
    IF s \in Streams THEN Least(rx[s], data_length[s])
                     ELSE Least(Head(queue[s]), data_length[s])

LengthAdded(s) == data_length[s] + Received(s)    \* mutant: += for =
RoomConsumed(s) == data_length[s] - Received(s)   \* mutant: what is left of it
LengthReceived(s) == Received(s)

recvfrom(s) ==
    \/ /\ s \in Streams
       /\ rx[s] > 0 \/ eof[s]           \* a blocking recvfrom waits otherwise
       /\ rx' = [rx EXCEPT ![s] = @ - Received(s)]
       /\ UNCHANGED queue
    \/ /\ s \in Datagrams
       /\ queue[s] # <<>>
       /\ queue' = [queue EXCEPT ![s] = Tail(@)]
       /\ UNCHANGED rx

(* Data goes to receive_cb and its length is stored in the buffer; a count of  *)
(* 0 goes to close_cb, and the socket stays where it is.                       *)
process_read_ready(s) ==
    /\ s \in (Streams \cup Datagrams) \ freed
    /\ Handle(s, "EVFILT_READ")
    /\ IF "receive" \notin cbs[s]
       THEN UNCHANGED <<pc, cur, data_length, rx, queue>>
       ELSE /\ recvfrom(s)
            /\ IF Received(s) > 0
               THEN /\ data_length' = [data_length EXCEPT ![s] = LengthReceived(s)]
                    /\ pc' = "receive_cb" /\ cur' = s
               ELSE /\ UNCHANGED data_length
                    /\ IF "close" \in cbs[s] THEN pc' = "close_cb" /\ cur' = s
                                             ELSE UNCHANGED <<pc, cur>>
    /\ UNCHANGED <<allocated, fds, cbs, eof>>

(* recvfrom fails: nothing happens. *)
read_error(s) ==
    /\ s \in (Streams \cup Datagrams) \ freed
    /\ Handle(s, "EVFILT_READ")
    /\ "receive" \in cbs[s]
    /\ UNCHANGED <<pc, cur, allocated, fds, cbs, data_length, netVars>>

(* Nothing is done for a writable socket, not even a look at it. *)
process_write_ready(s) ==
    /\ Handle(s, "EVFILT_WRITE")
    /\ UNCHANGED <<pc, cur, allocated, fds, cbs, data_length, netVars>>

AfterEventsIfIdle ==               \* mutant: a tick only when nothing is ready
    IF Ready = {} THEN "tick" ELSE "check"
AfterEvents == "tick"

events_done ==
    /\ pc = "dispatch" /\ batch = {}
    /\ pc' = AfterEvents
    /\ UNCHANGED <<cur, batch, wakeVars, sockVars, netVars, restVars, ticked>>

(* The tick of the proactor. *)
tick ==
    /\ pc = "tick"
    /\ pc' = IF event_cb THEN "tick_cb" ELSE "sock_ticks"
    /\ UNCHANGED <<cur, batch, wakeVars, sockVars, netVars, restVars, ticked>>

(* The tick of the sockets.  Its loop starts at an uninitialised pointer: NULL, *)
(* a socket whose address was left on the stack, or anything else.              *)
sock_ticks ==
    /\ pc = "sock_ticks"
    /\ \/ /\ cur' \in {NULL} \cup ((Socks \cap allocated) \ freed)
          /\ pc' = "sock_tick"
          /\ UNCHANGED <<batch, wakeVars, sockVars, netVars, restVars, ticked>>
       \/ Crash("wild pointer")

sock_tick ==
    /\ pc = "sock_tick"
    /\ \/ /\ cur = NULL
          /\ pc' = "check" /\ ticked' = {}
          /\ UNCHANGED <<cur, batch, wakeVars, sockVars, netVars, restVars>>
       \/ /\ cur # NULL /\ cur \notin freed /\ "tick" \in cbs[cur]
          /\ pc' = "sock_tick_cb" /\ ticked' = ticked \cup {cur}
          /\ UNCHANGED <<cur, batch, wakeVars, sockVars, netVars, restVars>>
       \/ /\ cur # NULL /\ cur \notin freed /\ "tick" \notin cbs[cur]
          /\ cur' = NextSocket(cur)
          /\ UNCHANGED <<pc, batch, wakeVars, sockVars, netVars, restVars, ticked>>
       \/ cur \in freed /\ Crash("use after free")

(* A callback returns to its handler; the loop over the sockets then reads the  *)
(* next pointer of the socket it has ticked.                                    *)
callback_return ==
    /\ pc \in CallbackStates
    /\ calling[Loop] = "idle"
    /\ \/ /\ pc \in EventCallbacks
          /\ pc' = "dispatch" /\ cur' = NULL
          /\ UNCHANGED <<batch, wakeVars, sockVars, netVars, restVars, ticked>>
       \/ /\ pc = "tick_cb"
          /\ pc' = "sock_ticks"
          /\ UNCHANGED <<cur, batch, wakeVars, sockVars, netVars, restVars, ticked>>
       \/ /\ pc = "sock_tick_cb" /\ cur \notin freed
          /\ pc' = "sock_tick" /\ cur' = NextSocket(cur)
          /\ UNCHANGED <<batch, wakeVars, sockVars, netVars, restVars, ticked>>
       \/ /\ pc = "sock_tick_cb" /\ cur \in freed
          /\ Crash("use after free")

-------------------------------------------------------------------------------
(* The remote peers and the kernel's buffers. *)

peer_send(s) ==
    /\ pc # "exited"
    /\ s \in fds \ Datagrams
    /\ ~eof[s] /\ rx[s] < RcvBuf
    /\ rx' = [rx EXCEPT ![s] = @ + 1]
    /\ UNCHANGED <<queue, eof, loopVars, wakeVars, sockVars, restVars, ticked>>

peer_datagram(s, n) ==
    /\ pc # "exited"
    /\ s \in fds \cap Datagrams
    /\ Len(queue[s]) < RcvBuf
    /\ queue' = [queue EXCEPT ![s] = Append(@, n)]
    /\ UNCHANGED <<rx, eof, loopVars, wakeVars, sockVars, restVars, ticked>>

peer_close(s) ==
    /\ pc # "exited"
    /\ s \in fds \cap Streams
    /\ ~eof[s]
    /\ eof' = [eof EXCEPT ![s] = TRUE]
    /\ UNCHANGED <<rx, queue, loopVars, wakeVars, sockVars, restVars, ticked>>

-------------------------------------------------------------------------------
Setup ==
    \/ proactor_net_create
    \/ \E s \in Socks : \E given \in SUBSET CallbacksOf(s) :
          proactor_net_socket_open(s, given)
    \/ \E s \in Socks : \/ start_receive(s) \/ start_send(s)
                        \/ proactor_net_socket_close(s)

Calls ==
    \E t \in Callers : \/ proactor_net_stop(t)
                       \/ proactor_net_wake(t)
                       \/ wake_write(t) \/ wake_broken_pipe(t)

Dispose ==
    \E t \in Callers : \/ proactor_net_dispose(t)
                       \/ dispose_event_cb(t)
                       \/ dispose_socket(t) \/ dispose_close_cb(t)
                       \/ dispose_free(t) \/ dispose_stale(t)
                       \/ dispose_fds(t)

(* What the loop's thread does inside run of its own accord. *)
LoopStep ==
    \/ run_check \/ kevent \/ kevent_error \/ wake_read \/ stale_event
    \/ \E s \in Socks : \/ process_accept_ready(s)
                        \/ process_read_ready(s)
                        \/ process_write_ready(s)
    \/ events_done \/ tick \/ sock_ticks \/ sock_tick

Errors == kevent_interrupted \/ \E s \in Socks : read_error(s)

Peers ==
    \E s \in Socks : \/ peer_send(s) \/ peer_close(s)
                     \/ \E n \in 0..MaxDatagram : peer_datagram(s, n)

Next ==
    \/ Setup \/ Calls \/ Dispose
    \/ proactor_net_run \/ LoopStep \/ callback_return
    \/ Errors \/ Peers

Spec == Init /\ [][Next]_vars

(* Fairness.  The loop's thread is scheduled and its callbacks return after  *)
(* finitely many calls; a blocked wake write proceeds once there is room;    *)
(* signals do not interrupt every kevent call, and recvfrom does not fail    *)
(* every time on a socket that has data.                                     *)
FairSpec ==
    /\ Spec
    /\ WF_vars(LoopStep)
    /\ SF_vars(callback_return)
    /\ \A t \in Callers : WF_vars(wake_write(t))
    /\ SF_vars(kevent)
    /\ \A s \in Socks : SF_vars(process_read_ready(s))

-------------------------------------------------------------------------------
(* Properties. *)

(* The shape of the proactor, its sockets and the kernel's buffers. *)
LoopTypeOK ==
    /\ pc \in {"down", "up", "exited"} \cup RunStates
    /\ cur \in Socks \cup {NULL}
    /\ batch \subseteq Kevents

WakeTypeOK ==
    /\ stop \in BOOLEAN
    /\ calling \in [Callers -> {"idle", "stop", "wake"} \cup DisposeStates]
    /\ pipe \in 0..PipeCap
    /\ kq \in {"closed", "open"}
    /\ wakeup_fds \in {"-1", "open", "half", "closed"}
    /\ watched \in BOOLEAN

SockTypeOK ==
    /\ sockets \in Seq(Socks)
    /\ allocated \subseteq Socks \cup {Object}
    /\ freed \subseteq Socks /\ fds \subseteq Socks
    /\ filters \in [Socks -> SUBSET Filters]
    /\ cbs \in [Socks -> SUBSET {"accept", "receive", "close", "tick"}]
    /\ data_length \in [Socks -> 0..BufferSize]

NetTypeOK ==
    /\ rx \in [Socks -> 0..RcvBuf]
    /\ queue \in [Socks -> Seq(0..MaxDatagram)]
    /\ eof \in [Socks -> BOOLEAN]

RestTypeOK ==
    /\ status \in {"STATUS_OK", "STATUS_INTERNAL_FAILURE"}
    /\ event_cb \in BOOLEAN
    /\ disposes \in 0..MaxDisposes
    /\ dispose_cur \in [Callers -> Socks \cup {NULL}]
    /\ dispose_next \in [Callers -> Socks \cup {NULL}]
    /\ exit \in {"no", "use after free", "wild pointer", "SIGPIPE"}

TypeOK ==
    /\ LoopTypeOK /\ WakeTypeOK /\ SockTypeOK /\ NetTypeOK /\ RestTypeOK
    /\ ticked \subseteq Socks

(* A proactor of which proactor_net_get_status says STATUS_OK was built        *)
(* completely: its loop can wait, and a wake or stop ends the wait.            *)
StatusTells ==
    (proactor_net_get_status = "STATUS_OK" /\ disposes = 0) =>
       kq = "open" /\ wakeup_fds = "open" /\ watched

(* process_read_ready gives recvfrom data_length as the room of the buffer and *)
(* then stores the count received in it: for a socket that receives, the room  *)
(* never exceeds the application's buffer and never becomes 0.                 *)
RoomUsable ==
    \A s \in Socks \ Listeners :
       "EVFILT_READ" \in filters[s] => data_length[s] \in 1..BufferSize

(* process_read_ready calls close_cb of a stream only when the peer has closed *)
(* and all it had sent before was received: a count of 0 has no other cause.   *)
(* (dispose calls the same function on every socket, open or not: that call is *)
(* dispose_close_cb, which this does not speak of.)  The callback may go on to *)
(* close the stream.                                                           *)
CloseMeansEof ==
    (pc = "close_cb" /\ cur \in Streams \ freed) => (eof[cur] /\ rx[cur] = 0)

(* The rules an application has to keep: in a callback it closes only the      *)
(* socket of an event callback or one it has not started, and not in the       *)
(* close_cb that dispose calls; it disposes once, from the thread that ran the *)
(* loop and outside callbacks.                                                 *)
Disciplined ==
    /\ OwnCloses \subseteq EventCallbacks
    /\ LoopCalls \cap {"close", "dispose"} = {}
    /\ Disposers \subseteq {Loop} /\ MaxDisposes <= 1

(* Under these rules no step reads a freed socket, although events of a closed *)
(* socket are still in the batch, whose udata points to it, and although       *)
(* dispose frees every socket and leaves the list pointing to them.            *)
NoUseAfterFree == Disciplined => exit # "use after free"

DisposeReturned == disposes > 0 /\ \A t \in Callers : calling[t] \notin DisposeStates

(* Under the same rules, when dispose returns it has closed and freed every    *)
(* socket of the list, whatever was opened, accepted and closed before and     *)
(* with or without close_cb, and the pipe and the queue are closed.  This is   *)
(* less than the "Clean up all resources." of line 164: what is left allocated *)
(* is the proactor itself and the clients of process_accept_ready, which are   *)
(* in no list.                                                                 *)
DisposeComplete ==
    (Disciplined /\ DisposeReturned) =>
       /\ Linked \subseteq freed /\ fds \cap freed = {}
       /\ Object \notin freed /\ allocated \ freed \subseteq {Object} \cup Streams
       /\ kq = "closed" /\ wakeup_fds \in {"-1", "closed"}

(* run and stop keep the promise of EventLoop, also on a proactor whose pipe   *)
(* or queue could not be created: then the tick ends the wait.                 *)
EL == INSTANCE EventLoop
         WITH running <- pc \in RunStates, stopping <- stop,
              ended <- pc = "exited"

ImplementsEventLoop == EL!Spec

(* The application's tick comes again and again while the loop runs, however   *)
(* busy the sockets are.                                                       *)
TickNotStarved ==
    (pc \in RunStates /\ event_cb) ~> (pc = "tick_cb" \/ pc \notin RunStates)

(* Data of a socket that receives reaches its receive callback, unless the     *)
(* socket is closed first: neither the shrinking room nor empty datagrams keep *)
(* it away.                                                                    *)
HasData(s) == rx[s] > 0 \/ \E i \in DOMAIN queue[s] : queue[s][i] > 0

DataDelivered ==
    \A s \in Streams \cup Datagrams :
       (/\ pc \in RunStates /\ HasData(s) /\ kq = "open"
        /\ "EVFILT_READ" \in filters[s] /\ "receive" \in cbs[s])
       ~> (pc \notin RunStates \/ s \notin fds \/ (pc = "receive_cb" /\ cur = s))

-------------------------------------------------------------------------------
(* What a comment of proactor_net_kevent.c says and its code does not do. *)

(* "call the tick CB on all the sockets" (line 290): when the loop over the    *)
(* sockets ends, every socket that has a tick callback was ticked.             *)
SocketsTicked ==
    (pc = "sock_tick" /\ cur = NULL) =>
       \A s \in Linked : "tick" \in cbs[s] => s \in ticked

===============================================================================
