----------------------------- MODULE IocpProactor -----------------------------
(***************************************************************************)
(* The Windows back end, src/util/proactor_net_iocp.c: a loop over the     *)
(* completions of overlapped sends and receives.                           *)
(*                                                                         *)
(* The loop knows a completion by its socket only.  Every completion of    *)
(* client_socket, that of a send included, makes it post a receive, and a  *)
(* receive reports data only when it completes at once.  Nothing else      *)
(* posts a receive, and nothing posts an accept: no completion ever has    *)
(* the listening socket as its key, and handle_accept_event is never       *)
(* reached.                                                                *)
(*                                                                         *)
(* The OVERLAPPED of an operation is not initialised; what its hEvent      *)
(* happens to hold decides whether the completion is queued, or not, or    *)
(* the call fails.                                                         *)
(***************************************************************************)
EXTENDS Naturals, Sequences, FiniteSets

CONSTANTS
    Threads,      \* application threads other than the one running the loop
    Conns,        \* sockets made by connect
    BUFFER_SIZE,  \* bytes one receive takes
    MaxBytes,     \* bound: bytes a peer sends on a connection
    MaxSends,     \* bound: sends that proactor_tcp_iocp_send starts
    MaxInits      \* bound: calls of proactor_tcp_iocp_init in one process

Loop == "loop"
INVALID_SOCKET == "INVALID_SOCKET"
Callers == Threads \cup {Loop}
RunStates == {"check", "wait", "dispatch", "receive_cb"}

ASSUME IocpAssumption ==
    /\ Loop \notin Threads
    /\ INVALID_SOCKET \notin Conns
    /\ BUFFER_SIZE \in Nat \ {0}
    /\ MaxBytes \in Nat
    /\ MaxSends \in Nat
    /\ MaxInits \in Nat

VARIABLES
    pc,             \* where the loop's thread is
    cur,            \* key of the completion being handled
    stop,
    client_socket,  \* the last socket made by connect
    listening,      \* server_socket is open and bound
    sock,           \* "none" | "open" | "closed"
    receive_callback,  \* it is set
    sends,          \* kernel: sends in progress, per socket
    recvs,          \* kernel: receives in progress, per socket
    completions,    \* kernel: the queue of the completion port
    sent,           \* bytes the peer has sent
    taken,          \* bytes of these that receives have taken
    eof,            \* the peer has closed or reset the connection
    started,        \* history: sends started altogether
    accepted,       \* history: sends started on a socket
    delivered,      \* history: positions of the bytes given to the callback
    inits,          \* calls of init so far
    exit            \* why the process ended: "no" while it runs

loopVars == <<pc, cur, stop>>
sockVars == <<client_socket, listening, sock>>
ioVars == <<sends, recvs, completions, taken>>
peerVars == <<sent, eof>>
confVars == <<receive_callback, inits, exit>>
histVars == <<started, accepted, delivered>>
vars == <<loopVars, sockVars, ioVars, peerVars, confVars, histVars>>

Init ==
    /\ pc = "down" /\ cur = INVALID_SOCKET /\ stop = FALSE
    /\ client_socket = INVALID_SOCKET /\ listening = FALSE
    /\ sock = [c \in Conns |-> "none"]
    /\ receive_callback = FALSE
    /\ sends = [c \in Conns |-> 0] /\ recvs = [c \in Conns |-> 0]
    /\ completions = <<>>
    /\ sent = [c \in Conns |-> 0] /\ taken = [c \in Conns |-> 0]
    /\ eof = [c \in Conns |-> FALSE]
    /\ started = 0 /\ accepted = [c \in Conns |-> 0] /\ delivered = [c \in Conns |-> <<>>]
    /\ inits = 0 /\ exit = "no"

handle_error(why) ==
    /\ pc' = "exited" /\ exit' = why
    /\ UNCHANGED <<cur, stop, receive_callback, inits>>
    /\ UNCHANGED <<sockVars, ioVars, peerVars, histVars>>

(* The loop's thread executes application code. *)
InApplication == pc \in {"up", "receive_cb"}

CanCall(t) == pc # "exited" /\ (t = Loop => InApplication)

-------------------------------------------------------------------------------
(* Setting up and tearing down. *)

proactor_tcp_iocp_init ==
    /\ pc = "down" /\ inits < MaxInits
    /\ \/ /\ pc' = "up" /\ inits' = inits + 1
          /\ UNCHANGED <<cur, stop, receive_callback, exit>>
          /\ UNCHANGED <<sockVars, ioVars, peerVars, histVars>>
       \/ handle_error("init")

(* The sockets and the port are closed, by closesocket or by WSACleanup; the *)
(* operations in progress and the queue go with them.  The statics stay.     *)
proactor_tcp_iocp_cleanup ==
    /\ pc = "up"
    /\ pc' = "down"
    /\ listening' = FALSE
    /\ sock' = [c \in Conns |-> IF sock[c] = "open" THEN "closed" ELSE sock[c]]
    /\ sends' = [c \in Conns |-> 0] /\ recvs' = [c \in Conns |-> 0]
    /\ completions' = <<>>
    /\ UNCHANGED <<cur, stop, client_socket, taken, peerVars, confVars, histVars>>

proactor_tcp_iocp_start_server ==
    /\ InApplication
    /\ \/ /\ ~listening             \* else bind finds the port in use
          /\ listening' = TRUE
          /\ UNCHANGED <<loopVars, client_socket, sock>>
          /\ UNCHANGED <<ioVars, peerVars, confVars, histVars>>
       \/ handle_error("start_server")

proactor_tcp_iocp_connect(c) ==
    /\ InApplication
    /\ sock[c] = "none"
    /\ \/ /\ client_socket' = c
          /\ sock' = [sock EXCEPT ![c] = "open"]
          /\ UNCHANGED <<loopVars, listening, ioVars, peerVars, confVars, histVars>>
       \/ handle_error("connect")

(* The other two callbacks are stored by their setters and never called. *)
set_receive_callback(given) ==
    /\ InApplication
    /\ receive_callback' = given
    /\ UNCHANGED <<loopVars, inits, exit, sockVars, ioVars, peerVars, histVars>>

-------------------------------------------------------------------------------
(* Overlapped operations. *)

(* Kernel: operation op on socket c has ended; the completion is queued      *)
(* unless the garbage in hEvent has its lowest bit set.                      *)
Complete(c, op, ok) ==
    \/ completions' = Append(completions, [key |-> c, op |-> op, ok |-> ok])
    \/ UNCHANGED completions

(* Send data: from any thread, with the caller's own buffer. *)
proactor_tcp_iocp_send(t, c) ==
    /\ CanCall(t)
    /\ sock[c] # "none"
    /\ started < MaxSends
    /\ \/ /\ sock[c] = "open"
          /\ sends' = [sends EXCEPT ![c] = @ + 1]
          /\ started' = started + 1 /\ accepted' = [accepted EXCEPT ![c] = @ + 1]
          /\ UNCHANGED <<recvs, completions, taken, delivered>>
          /\ UNCHANGED <<loopVars, sockVars, peerVars, confVars>>
       \/ handle_error("WSASend")

(* Kernel: a send ends, with an error only when the connection is gone. *)
send_ends(c) ==
    /\ pc # "exited"
    /\ sends[c] > 0
    /\ sends' = [sends EXCEPT ![c] = @ - 1]
    /\ \E ok \in BOOLEAN : (ok \/ eof[c]) /\ Complete(c, "send", ok)
    /\ UNCHANGED <<recvs, taken, loopVars, sockVars, peerVars, confVars, histVars>>

Least(a, b) == IF a < b THEN a ELSE b

(* What the next receive on c takes. *)
WholeBuffer(c) == BUFFER_SIZE      \* mutant: the size of the buffer
Available(c) == Least(sent[c] - taken[c], BUFFER_SIZE)

(* Kernel: a receive that had to wait ends.  Its data is in its io_op. *)
recv_ends(c) ==
    /\ pc # "exited"
    /\ recvs[c] > 0
    /\ sent[c] > taken[c] \/ eof[c]
    /\ recvs' = [recvs EXCEPT ![c] = @ - 1]
    /\ taken' = [taken EXCEPT ![c] = @ + Available(c)]
    /\ \E ok \in BOOLEAN : (ok \/ eof[c]) /\ Complete(c, "recv", ok)
    /\ UNCHANGED <<sends, loopVars, sockVars, peerVars, confVars, histVars>>

-------------------------------------------------------------------------------
(* The loop. *)

proactor_tcp_iocp_run ==
    /\ pc = "up" /\ pc' = "check"
    /\ UNCHANGED <<cur, stop, sockVars, ioVars, peerVars, confVars, histVars>>

(* while (!stop) *)
GoOnWhileQueued == ~stop \/ completions # <<>>  \* mutant: the queue is drained first
GoOnWhileConnected ==                           \* mutant: nothing to wait for
    ~stop /\ client_socket # INVALID_SOCKET
GoOn == ~stop

run_check ==
    /\ pc = "check"
    /\ pc' = IF GoOn THEN "wait" ELSE "up"
    /\ UNCHANGED <<cur, stop, sockVars, ioVars, peerVars, confVars, histVars>>

(* Waits without a limit.  A failed operation makes the call itself fail. *)
GetQueuedCompletionStatus ==
    /\ pc = "wait" /\ completions # <<>>
    /\ IF Head(completions).ok
       THEN /\ pc' = "dispatch" /\ cur' = Head(completions).key
            /\ completions' = Tail(completions)
            /\ UNCHANGED <<stop, sends, recvs, taken>>
            /\ UNCHANGED <<sockVars, peerVars, confVars, histVars>>
       ELSE handle_error("GetQueuedCompletionStatus")

(* A completion of a socket that connect has replaced. *)
other_socket ==
    /\ pc = "dispatch" /\ cur # client_socket
    /\ pc' = "check" /\ cur' = INVALID_SOCKET
    /\ UNCHANGED <<stop, sockVars, ioVars, peerVars, confVars, histVars>>

(* The bytes given to the callback: as many as were received. *)
bytes_received(c) == Available(c)

Positions(c) == [i \in 1..bytes_received(c) |-> taken[c] + i]

TwoReceives(c) == 2                \* mutant: a second receive is posted
NewReceives(c) == 1

(* A receive that finds data, or the end of the stream, completes at once;   *)
(* its data goes to the callback and its completion is queued all the same.  *)
received(c) ==
    /\ recvs[c] = 0                \* earlier receives come first
    /\ sent[c] > taken[c] \/ eof[c]
    /\ taken' = [taken EXCEPT ![c] = @ + Available(c)]
    /\ Complete(c, "recv", TRUE)
    /\ IF bytes_received(c) > 0 /\ receive_callback
       THEN /\ pc' = "receive_cb" /\ UNCHANGED cur
            /\ delivered' = [delivered EXCEPT ![c] = @ \o Positions(c)]
       ELSE /\ pc' = "check" /\ cur' = INVALID_SOCKET
            /\ UNCHANGED delivered
    /\ UNCHANGED <<stop, sends, recvs, started, accepted, sockVars, peerVars, confVars>>

(* A receive that has to wait; the kernel may let it wait although there is *)
(* data.  Its data is not given to the callback when it ends.                *)
pending(c) ==
    /\ recvs' = [recvs EXCEPT ![c] = @ + NewReceives(c)]
    /\ pc' = "check" /\ cur' = INVALID_SOCKET
    /\ UNCHANGED <<stop, sends, completions, taken>>
    /\ UNCHANGED <<sockVars, peerVars, confVars, histVars>>

handle_data_event ==
    /\ pc = "dispatch" /\ cur = client_socket
    /\ received(cur) \/ pending(cur) \/ handle_error("WSARecv")

callback_return ==
    /\ pc = "receive_cb"
    /\ pc' = "check" /\ cur' = INVALID_SOCKET
    /\ UNCHANGED <<stop, sockVars, ioVars, peerVars, confVars, histVars>>

(* Only the flag: nothing is posted to the port, and wake does nothing. *)
proactor_tcp_iocp_stop(t) ==
    /\ CanCall(t)
    /\ stop' = TRUE
    /\ UNCHANGED <<pc, cur, sockVars, ioVars, peerVars, confVars, histVars>>

-------------------------------------------------------------------------------
(* The remote peers. *)

peer_send(c) ==
    /\ pc # "exited"
    /\ sock[c] = "open" /\ ~eof[c] /\ sent[c] < MaxBytes
    /\ sent' = [sent EXCEPT ![c] = @ + 1]
    /\ UNCHANGED <<eof, loopVars, sockVars, ioVars, confVars, histVars>>

peer_close(c) ==
    /\ pc # "exited"
    /\ sock[c] = "open" /\ ~eof[c]
    /\ eof' = [eof EXCEPT ![c] = TRUE]
    /\ UNCHANGED <<sent, loopVars, sockVars, ioVars, confVars, histVars>>

-------------------------------------------------------------------------------
Setup ==
    \/ proactor_tcp_iocp_init
    \/ proactor_tcp_iocp_start_server
    \/ \E c \in Conns : proactor_tcp_iocp_connect(c)
    \/ \E given \in BOOLEAN : set_receive_callback(given)
    \/ proactor_tcp_iocp_cleanup

Calls ==
    \E t \in Callers : \/ proactor_tcp_iocp_stop(t)
                       \/ \E c \in Conns : proactor_tcp_iocp_send(t, c)

LoopStep ==
    \/ run_check \/ GetQueuedCompletionStatus
    \/ other_socket \/ handle_data_event

Kernel == \E c \in Conns : send_ends(c) \/ recv_ends(c)
Peers == \E c \in Conns : peer_send(c) \/ peer_close(c)

Next ==
    \/ Setup \/ Calls
    \/ proactor_tcp_iocp_run \/ LoopStep \/ callback_return
    \/ Kernel \/ Peers

Spec == Init /\ [][Next]_vars

(* The loop's thread is scheduled and callbacks return after finitely many   *)
(* calls.                                                                    *)
FairSpec == Spec /\ WF_vars(LoopStep) /\ SF_vars(callback_return)

-------------------------------------------------------------------------------
(* Properties. *)

(* The shape of the state of proactor_net_iocp.c and its completion port. *)
LoopTypeOK ==
    /\ pc \in {"down", "up", "exited"} \cup RunStates
    /\ cur \in Conns \cup {INVALID_SOCKET}
    /\ stop \in BOOLEAN

SockTypeOK ==
    /\ client_socket \in Conns \cup {INVALID_SOCKET}
    /\ listening \in BOOLEAN
    /\ sock \in [Conns -> {"none", "open", "closed"}]

Completions == [key : Conns, op : {"send", "recv"}, ok : BOOLEAN]

IoTypeOK ==
    /\ sends \in [Conns -> 0..MaxSends] /\ recvs \in [Conns -> 0..MaxSends]
    /\ completions \in Seq(Completions)
    /\ taken \in [Conns -> 0..MaxBytes]

PeerTypeOK ==
    /\ sent \in [Conns -> 0..MaxBytes]
    /\ eof \in [Conns -> BOOLEAN]

ConfTypeOK ==
    /\ receive_callback \in BOOLEAN
    /\ inits \in 0..MaxInits
    /\ exit \in {"no", "init", "start_server", "connect", "WSASend", "WSARecv",
                 "GetQueuedCompletionStatus"}

HistTypeOK ==
    /\ started \in 0..MaxSends
    /\ accepted \in [Conns -> 0..MaxSends]
    /\ delivered \in [Conns -> Seq(Nat)]

TypeOK ==
    /\ LoopTypeOK /\ SockTypeOK /\ IoTypeOK
    /\ PeerTypeOK /\ ConfTypeOK /\ HistTypeOK

(* Although receives overlap and their completions are handled without       *)
(* looking at them, the bytes handle_data_event gives to the callback are     *)
(* bytes the peer has sent, in order, and none of them twice (some are        *)
(* never given).                                                             *)
DeliveredInOrder ==
    \A c \in Conns :
       /\ \A i, j \in DOMAIN delivered[c] : i < j => delivered[c][i] < delivered[c][j]
       /\ \A i \in DOMAIN delivered[c] : delivered[c][i] \in 1..taken[c]

(* The places in queue q that completions of c have. *)
Queued(q, c) == {i \in DOMAIN q : q[i].key = c}

InFlight(c) ==
    sends[c] + recvs[c]
    + Cardinality(Queued(completions, c))
    + (IF pc = "dispatch" /\ cur = c THEN 1 ELSE 0)

(* Every operation of a connection descends from a send: each completion      *)
(* makes handle_data_event post at most one receive, so the operations in     *)
(* flight, with 8 KB each, never outgrow the sends the application made.      *)
(* A connection on which nothing was sent is never read.                      *)
InFlightBySends == \A c \in Conns : InFlight(c) <= accepted[c]

(* stop posts nothing, but the loop's next completion is the last one it      *)
(* handles: with one in the queue, run returns, however fast receives         *)
(* complete and are posted again.                                             *)
StopAtNextCompletion ==
    (stop /\ pc \in RunStates /\ completions # <<>>) ~> pc \notin RunStates

(* run returns only after stop: the safety half of EventLoop. *)
EL == INSTANCE EventLoop
         WITH running <- pc \in RunStates, stopping <- stop,
              ended <- pc = "exited"

ReturnsOnlyAfterStop == EL!Safety

===============================================================================
