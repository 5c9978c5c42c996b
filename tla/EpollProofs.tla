----------------------------- MODULE EpollProofs -----------------------------
(***************************************************************************)
(* Theorems about EpollProactor, for every number of threads, connections, *)
(* buffer sizes and bounds.  The invariant is split into parts that are    *)
(* proved one after the other, each from the ones before it:               *)
(*   TypeOK and NoLostStop are inductive as they stand;                    *)
(*   SlotInv    the send slot, for SendInOrderOnce and RequestKept;        *)
(*   WatchInv   the epoll set, for OpenIsWatched;                          *)
(*   BatchInv   the snapshot of events, for EventsStayReady.               *)
(***************************************************************************)
EXTENDS EpollProactor, SequenceTheorems, TLAPS

(* The sizes and bounds are natural numbers. *)
LEMMA Sizes ==
    /\ PipeCap \in Nat /\ RcvBuf \in Nat /\ SndBuf \in Nat /\ BUFFER_SIZE \in Nat
    /\ PipeCap > 0 /\ SndBuf > 0 /\ RcvBuf > 0
    /\ MaxLength \in Nat /\ MaxInits \in Nat
BY EpollAssumption

(* Each part of TypeOK speaks of one group of variables only. *)
LEMMA TypeFrames ==
    /\ LoopTypeOK /\ UNCHANGED loopVars => LoopTypeOK'
    /\ WakeTypeOK /\ UNCHANGED wakeVars => WakeTypeOK'
    /\ SockTypeOK /\ UNCHANGED sockVars => SockTypeOK'
    /\ NetTypeOK /\ UNCHANGED netVars => NetTypeOK'
    /\ SendTypeOK /\ UNCHANGED sendVars => SendTypeOK'
    /\ ConfTypeOK /\ UNCHANGED confVars => ConfTypeOK'
<1>1. LoopTypeOK /\ UNCHANGED loopVars => LoopTypeOK'
  BY DEF LoopTypeOK, loopVars
<1>2. WakeTypeOK /\ UNCHANGED wakeVars => WakeTypeOK'
  BY DEF WakeTypeOK, wakeVars
<1>3. SockTypeOK /\ UNCHANGED sockVars => SockTypeOK'
  BY DEF SockTypeOK, sockVars
<1>4. NetTypeOK /\ UNCHANGED netVars => NetTypeOK'
  BY DEF NetTypeOK, netVars
<1>5. SendTypeOK /\ UNCHANGED sendVars => SendTypeOK'
  BY DEF SendTypeOK, sendVars
<1>6. ConfTypeOK /\ UNCHANGED confVars => ConfTypeOK'
  BY DEF ConfTypeOK, confVars
<1> QED
  BY <1>1, <1>2, <1>3, <1>4, <1>5, <1>6

(* handle_error, whatever the reason, leaves a well-typed state. *)
LEMMA HandleErrorTypeOK ==
    ASSUME TypeOK, NEW why \in ExitReasons, handle_error(why)
    PROVE  TypeOK'
<1>1. LoopTypeOK'
  BY DEF TypeOK, handle_error, LoopTypeOK
<1>2. ConfTypeOK'
  BY DEF TypeOK, handle_error, ConfTypeOK
<1> QED
  BY <1>1, <1>2, TypeFrames DEF TypeOK, handle_error

(* The reasons that calls of handle_error and fatal signals give. *)
LEMMA ErrorReasons ==
    /\ "syscall" \in ExitReasons /\ "wake" \in ExitReasons
    /\ "send" \in ExitReasons /\ "SIGPIPE" \in ExitReasons
    /\ "double free" \in ExitReasons /\ "use after free" \in ExitReasons
BY DEF ExitReasons

(* TypeOK holds in every state of proactor_net_epoll.c's model: counters stay *)
(* within the kernel's buffers, the offset within the longest request.        *)
THEOREM TypeCorrect == Spec => []TypeOK
<1>1. Init => TypeOK
  <2> SUFFICES ASSUME Init PROVE TypeOK
    OBVIOUS
  <2>1. LoopTypeOK /\ SockTypeOK
    BY DEF Init, LoopTypeOK, SockTypeOK, NoEvents, Events, Fds
  <2>2. WakeTypeOK
    <3>1. pipe \in 0..PipeCap
      BY Sizes DEF Init
    <3> QED
      BY <3>1 DEF Init, WakeTypeOK
  <2>3. NetTypeOK
    BY Sizes DEF Init, NetTypeOK
  <2>4. SendTypeOK /\ ConfTypeOK
    BY Sizes DEF Init, SendTypeOK, ConfTypeOK, NoRequest
  <2> QED
    BY <2>1, <2>2, <2>3, <2>4 DEF TypeOK
<1>2. TypeOK /\ [Next]_vars => TypeOK'
  <2> SUFFICES ASSUME TypeOK, [Next]_vars PROVE TypeOK'
    OBVIOUS
  <2>1. CASE proactor_tcp_epoll_init
    <3>1. CASE handle_error("syscall")
      BY <3>1, HandleErrorTypeOK, ErrorReasons
    <3>2. CASE ~(handle_error("syscall"))
      <4>1. LoopTypeOK'
        BY <2>1, <3>2, Sizes DEF proactor_tcp_epoll_init, TypeOK,
           LoopTypeOK, RunStates
      <4>2. WakeTypeOK'
        BY <2>1, <3>2, Sizes DEF proactor_tcp_epoll_init, TypeOK,
           WakeTypeOK
      <4>3. SockTypeOK'
        BY <2>1, <3>2, Sizes DEF proactor_tcp_epoll_init, TypeOK,
           SockTypeOK, NoEvents, Fds, Events
      <4>4. ConfTypeOK'
        <5>1. inits' \in 0..MaxInits
          BY <2>1, <3>2, Sizes DEF proactor_tcp_epoll_init, TypeOK, ConfTypeOK
        <5> QED
          BY <2>1, <3>2, <5>1 DEF proactor_tcp_epoll_init, TypeOK, ConfTypeOK
      <4> QED
        BY <2>1, <3>2, <4>1, <4>2, <4>3, <4>4, TypeFrames DEF
           proactor_tcp_epoll_init, TypeOK
    <3> QED
      BY <3>1, <3>2
  <2>2. CASE proactor_tcp_epoll_start_server
    <3>1. CASE handle_error("syscall")
      BY <3>1, HandleErrorTypeOK, ErrorReasons
    <3>2. CASE ~(handle_error("syscall"))
      <4>1. SockTypeOK'
        BY <2>2, <3>2, Sizes DEF proactor_tcp_epoll_start_server, TypeOK,
           SockTypeOK, Fds, Events
      <4> QED
        BY <2>2, <3>2, <4>1, TypeFrames DEF proactor_tcp_epoll_start_server, TypeOK
    <3> QED
      BY <3>1, <3>2
  <2>3. ASSUME NEW c \in Conns, proactor_tcp_epoll_connect(c) PROVE TypeOK'
    <3>1. CASE handle_error("syscall")
      BY <3>1, HandleErrorTypeOK, ErrorReasons
    <3>2. CASE ~(handle_error("syscall"))
      <4>1. SockTypeOK'
        BY <2>3, <3>2, Sizes DEF proactor_tcp_epoll_connect, TypeOK,
           SockTypeOK, Fds, Events
      <4> QED
        BY <2>3, <3>2, <4>1, TypeFrames DEF proactor_tcp_epoll_connect, TypeOK
    <3> QED
      BY <3>1, <3>2
  <2>4. ASSUME NEW k \in {"accept", "receive", "sent"}, NEW given \in BOOLEAN,
               set_callback(k, given)
        PROVE  TypeOK'
    <3>1. ConfTypeOK'
      BY <2>4, Sizes DEF set_callback, TypeOK, ConfTypeOK
    <3> QED
      BY <2>4, <3>1, TypeFrames DEF set_callback, TypeOK
  <2>5. CASE proactor_tcp_epoll_cleanup
    <3>1. CASE handle_error("double free")
      BY <3>1, HandleErrorTypeOK, ErrorReasons
    <3>2. CASE ~(handle_error("double free"))
      <4>1. LoopTypeOK'
        BY <2>5, <3>2, Sizes DEF proactor_tcp_epoll_cleanup, TypeOK,
           LoopTypeOK, RunStates
      <4>2. WakeTypeOK'
        <5>1. pipe' = 0 /\ stop' = stop /\ calling' = calling /\ wakeup_fds' = "closed"
          BY <2>5, <3>2 DEF proactor_tcp_epoll_cleanup
        <5>2. pipe' \in 0..PipeCap
          BY <5>1, Sizes
        <5> QED
          BY <5>1, <5>2 DEF TypeOK, WakeTypeOK
      <4>3. SockTypeOK'
        BY <2>5, <3>2, Sizes DEF proactor_tcp_epoll_cleanup, TypeOK,
           SockTypeOK, AfterCleanup, NoEvents, Fds, Events
      <4>4. SendTypeOK'
        <5>1. request' = NoRequest /\ out' = <<>> /\ wrote' = wrote
          BY <2>5, <3>2 DEF proactor_tcp_epoll_cleanup
        <5>2. current_send_request' \in {"NULL", "live", "freed"}
          BY <2>5, <3>2 DEF proactor_tcp_epoll_cleanup
        <5> QED
          BY <5>1, <5>2, Sizes DEF TypeOK, SendTypeOK, NoRequest
      <4> QED
        BY <2>5, <3>2, <4>1, <4>2, <4>3, <4>4, TypeFrames DEF
           proactor_tcp_epoll_cleanup, TypeOK
    <3> QED
      BY <3>1, <3>2
  <2>6. ASSUME NEW t \in Callers, proactor_tcp_epoll_stop(t) PROVE TypeOK'
    <3>1. WakeTypeOK'
      BY <2>6, Sizes DEF proactor_tcp_epoll_stop, TypeOK, WakeTypeOK
    <3> QED
      BY <2>6, <3>1, TypeFrames DEF proactor_tcp_epoll_stop, TypeOK
  <2>7. ASSUME NEW t \in Callers, proactor_tcp_epoll_wake(t) PROVE TypeOK'
    <3>1. WakeTypeOK'
      BY <2>7, Sizes DEF proactor_tcp_epoll_wake, TypeOK, WakeTypeOK
    <3> QED
      BY <2>7, <3>1, TypeFrames DEF proactor_tcp_epoll_wake, TypeOK
  <2>8. ASSUME NEW t \in Callers, wake_write(t) PROVE TypeOK'
    <3>1. CASE handle_error("wake")
      BY <3>1, HandleErrorTypeOK, ErrorReasons
    <3>2. CASE ~(handle_error("wake"))
      <4>1. WakeTypeOK'
        BY <2>8, <3>2, Sizes DEF wake_write, TypeOK, WakeTypeOK
      <4> QED
        BY <2>8, <3>2, <4>1, TypeFrames DEF wake_write, TypeOK
    <3> QED
      BY <3>1, <3>2
  <2>9. ASSUME NEW c \in Conns, NEW n \in 0..MaxLength, proactor_tcp_epoll_send(c, n)
        PROVE  TypeOK'
    <3>1. CASE handle_error("send") \/ handle_error("syscall")
      BY <3>1, HandleErrorTypeOK, ErrorReasons
    <3>2. CASE ~(handle_error("send") \/ handle_error("syscall"))
      <4>1. SockTypeOK'
        BY <2>9, <3>2, Sizes DEF proactor_tcp_epoll_send, TypeOK,
           SockTypeOK, SendMask, Fds, Events
      <4>2. SendTypeOK'
        <5>1. /\ current_send_request' = "live"
              /\ request' = [to |-> c, length |-> n, offset |-> 0]
              /\ out' = <<>> /\ wrote' = wrote
          BY <2>9, <3>2 DEF proactor_tcp_epoll_send
        <5> QED
          BY <5>1, Sizes DEF TypeOK, SendTypeOK
      <4> QED
        BY <2>9, <3>2, <4>1, <4>2, TypeFrames DEF proactor_tcp_epoll_send, TypeOK
    <3> QED
      BY <3>1, <3>2
  <2>10. CASE proactor_tcp_epoll_run
    <3>1. LoopTypeOK'
      BY <2>10, Sizes DEF proactor_tcp_epoll_run, TypeOK, LoopTypeOK,
         RunStates
    <3> QED
      BY <2>10, <3>1, TypeFrames DEF proactor_tcp_epoll_run, TypeOK
  <2>11. CASE run_check
    <3>1. LoopTypeOK'
      BY <2>11, Sizes DEF run_check, TypeOK, LoopTypeOK, RunStates
    <3> QED
      BY <2>11, <3>1, TypeFrames DEF run_check, TypeOK
  <2>12. CASE events_done
    <3>1. LoopTypeOK'
      BY <2>12, Sizes DEF events_done, TypeOK, LoopTypeOK, RunStates
    <3> QED
      BY <2>12, <3>1, TypeFrames DEF events_done, TypeOK
  <2>13. CASE callback_return
    <3>1. LoopTypeOK'
      BY <2>13, Sizes DEF callback_return, TypeOK, LoopTypeOK, RunStates,
         CallbackStates
    <3> QED
      BY <2>13, <3>1, TypeFrames DEF callback_return, TypeOK
  <2>14. CASE epoll_wait
    <3>1. LoopTypeOK'
      BY <2>14, Sizes DEF epoll_wait, TypeOK, LoopTypeOK, RunStates,
         Ready, SockTypeOK
    <3> QED
      BY <2>14, <3>1, TypeFrames DEF epoll_wait, TypeOK
  <2>15. CASE epoll_wait_interrupted
    <3>1. CASE handle_error("syscall")
      BY <3>1, HandleErrorTypeOK, ErrorReasons
    <3>2. CASE ~(handle_error("syscall"))
      <4>1. LoopTypeOK'
        BY <2>15, <3>2, Sizes DEF epoll_wait_interrupted, TypeOK,
           LoopTypeOK, RunStates
      <4> QED
        BY <2>15, <3>2, <4>1, TypeFrames DEF epoll_wait_interrupted, TypeOK
    <3> QED
      BY <3>1, <3>2
  <2>16. CASE wake_read
    <3>1. LoopTypeOK'
      BY <2>16, Sizes DEF wake_read, TypeOK, LoopTypeOK, Done, Fds, Events
    <3>2. WakeTypeOK'
      BY <2>16, Sizes DEF wake_read, TypeOK, WakeTypeOK
    <3> QED
      BY <2>16, <3>1, <3>2, TypeFrames DEF wake_read, TypeOK
  <2>17. CASE handle_accept_event
    <3>1. LoopTypeOK'
      BY <2>17, Sizes DEF handle_accept_event, TypeOK, LoopTypeOK, Done,
         Accepted, RunStates, CallbackStates, Fds, Events
    <3>2. SockTypeOK'
      BY <2>17, Sizes DEF handle_accept_event, TypeOK, SockTypeOK
    <3> QED
      BY <2>17, <3>1, <3>2, TypeFrames DEF handle_accept_event, TypeOK
  <2>18. CASE accept_register
    <3>1. CASE handle_error("syscall")
      BY <3>1, HandleErrorTypeOK, ErrorReasons
    <3>2. CASE ~(handle_error("syscall"))
      <4>1. LoopTypeOK'
        BY <2>18, <3>2, Sizes DEF accept_register, TypeOK, LoopTypeOK,
           RunStates
      <4>2. SockTypeOK'
        BY <2>18, <3>2, Sizes DEF accept_register, TypeOK, SockTypeOK,
           Fds, Events
      <4> QED
        BY <2>18, <3>2, <4>1, <4>2, TypeFrames DEF accept_register, TypeOK
    <3> QED
      BY <3>1, <3>2
  <2>19. ASSUME NEW c \in Conns, handle_data_event(c) PROVE TypeOK'
    <3>1. CASE pc' # "exited"
      <4>1. LoopTypeOK'
        BY <2>19, <3>1 DEF handle_data_event, Take, Done, TypeOK, LoopTypeOK, NetTypeOK, RunStates,
                          CallbackStates, Fds, Events
      <4>2. NetTypeOK'
        BY <2>19, <3>1, Sizes DEF handle_data_event, Take, Min, TypeOK, NetTypeOK
      <4> QED
        BY <2>19, <3>1, <4>1, <4>2, TypeFrames DEF handle_data_event, Take, TypeOK
    <3>2. CASE pc' = "exited"
      <4>1. LoopTypeOK'
        BY <2>19, <3>2 DEF handle_data_event, Take, TypeOK, LoopTypeOK, RunStates
      <4>2. SockTypeOK'
        BY <2>19, <3>2 DEF handle_data_event, Take, TypeOK, SockTypeOK, Fds, Events
      <4>3. ConfTypeOK'
        BY <2>19, <3>2 DEF handle_data_event, Take, TypeOK, ConfTypeOK, ExitReasons
      <4> QED
        BY <2>19, <3>2, <4>1, <4>2, <4>3, TypeFrames DEF handle_data_event, Take, TypeOK
    <3> QED
      BY <3>1, <3>2
  <2>20. ASSUME NEW c \in Conns, handle_write_event(c) PROVE TypeOK'
    <3>1. CASE handle_error("use after free")
      BY <3>1, HandleErrorTypeOK, ErrorReasons
    <3>2. CASE ~(handle_error("use after free"))
      <4>1. LoopTypeOK'
        BY <2>20, <3>2, Sizes DEF handle_write_event, TypeOK, LoopTypeOK,
           Done, RunStates, Fds, Events
      <4>2. SendTypeOK'
        <5>1. /\ wrote' = wrote \/ wrote' = 0
              /\ UNCHANGED <<current_send_request, request, out>>
          BY <2>20, <3>2 DEF handle_write_event, sendVars
        <5> QED
          BY <5>1, Sizes DEF TypeOK, SendTypeOK
      <4> QED
        BY <2>20, <3>2, <4>1, <4>2, TypeFrames DEF handle_write_event, TypeOK
    <3> QED
      BY <3>1, <3>2
  <2>21. CASE write_byte
    <3>1. NetTypeOK'
      <4>1. snd' \in [Conns -> 0..SndBuf]
        <5>1. \A c \in Conns : snd[c] < SndBuf => snd[c] + 1 \in 0..SndBuf
          BY Sizes DEF TypeOK, NetTypeOK
        <5>2. snd' = [snd EXCEPT ![cur] = @ + 1] /\ snd[cur] < SndBuf
          BY <2>21 DEF write_byte, WriteFd
        <5> QED
          BY <5>1, <5>2 DEF TypeOK, NetTypeOK
      <4> QED
        BY <2>21, <4>1 DEF write_byte, TypeOK, NetTypeOK
    <3>2. SendTypeOK'
      BY <2>21, Sizes DEF write_byte, TypeOK, SendTypeOK, Left
    <3> QED
      BY <2>21, <3>1, <3>2, TypeFrames DEF write_byte, TypeOK
  <2>22. CASE write_completes
    <3>1. LoopTypeOK'
      BY <2>22, Sizes DEF write_completes, TypeOK, LoopTypeOK,
         write_returned, RunStates, CallbackStates
    <3>2. SendTypeOK'
      BY <2>22, Sizes DEF write_completes, TypeOK, SendTypeOK,
         write_returned, AdvancedOffset, Left
    <3> QED
      BY <2>22, <3>1, <3>2, TypeFrames DEF write_completes, TypeOK, write_returned
  <2>23. CASE write_interrupted
    <3>1. LoopTypeOK'
      BY <2>23, Sizes DEF write_interrupted, TypeOK, LoopTypeOK,
         write_returned, RunStates, CallbackStates
    <3>2. SendTypeOK'
      BY <2>23, Sizes DEF write_interrupted, TypeOK, SendTypeOK,
         write_returned, AdvancedOffset, Left
    <3> QED
      BY <2>23, <3>1, <3>2, TypeFrames DEF write_interrupted, TypeOK, write_returned
  <2>24. CASE write_error
    <3>1. CASE handle_error("SIGPIPE")
      BY <3>1, HandleErrorTypeOK, ErrorReasons
    <3>2. CASE ~(handle_error("SIGPIPE"))
      <4>1. LoopTypeOK'
        BY <2>24, <3>2, Sizes DEF write_error, TypeOK, LoopTypeOK,
           RunStates
      <4> QED
        BY <2>24, <3>2, <4>1, TypeFrames DEF write_error, TypeOK
    <3> QED
      BY <3>1, <3>2
  <2>25. CASE free_request
    <3>1. LoopTypeOK'
      BY <2>25, Sizes DEF free_request, TypeOK, LoopTypeOK, RunStates
    <3>2. SendTypeOK'
      BY <2>25, Sizes DEF free_request, TypeOK, SendTypeOK, NoRequest
    <3> QED
      BY <2>25, <3>1, <3>2, TypeFrames DEF free_request, TypeOK
  <2>26. ASSUME NEW c \in Conns, peer_connect(c) PROVE TypeOK'
    <3>1. SockTypeOK'
      BY <2>26, Sizes DEF peer_connect, TypeOK, SockTypeOK
    <3> QED
      BY <2>26, <3>1, TypeFrames DEF peer_connect, TypeOK
  <2>27. ASSUME NEW c \in Conns, peer_send(c) PROVE TypeOK'
    <3>1. NetTypeOK'
      BY <2>27, Sizes DEF peer_send, TypeOK, NetTypeOK
    <3> QED
      BY <2>27, <3>1, TypeFrames DEF peer_send, TypeOK
  <2>28. ASSUME NEW c \in Conns, peer_close(c) PROVE TypeOK'
    <3>1. NetTypeOK'
      BY <2>28, Sizes DEF peer_close, TypeOK, NetTypeOK
    <3> QED
      BY <2>28, <3>1, TypeFrames DEF peer_close, TypeOK
  <2>29. ASSUME NEW c \in Conns, peer_read(c) PROVE TypeOK'
    <3>1. NetTypeOK'
      BY <2>29, Sizes DEF peer_read, TypeOK, NetTypeOK
    <3> QED
      BY <2>29, <3>1, TypeFrames DEF peer_read, TypeOK
  <2>30. CASE UNCHANGED vars
    BY <2>30, TypeFrames DEF vars, TypeOK
  <2> QED
    BY <2>1, <2>2, <2>3, <2>4, <2>5, <2>6, <2>7, <2>8, <2>9, <2>10, <2>11, <2>12,
       <2>13, <2>14, <2>15, <2>16, <2>17, <2>18, <2>19, <2>20, <2>21, <2>22, <2>23,
       <2>24, <2>25, <2>26, <2>27, <2>28, <2>29, <2>30 DEF Next, Setup, Calls,
       LoopStep, Signals, Peers
<1> QED
  BY <1>1, <1>2, PTL DEF Spec

-------------------------------------------------------------------------------
(* A stop is never lost: whenever the loop waits with stop set, a wake byte   *)
(* is in the pipe or the thread that set stop has yet to write it.  Between   *)
(* the loop's test of stop and its wait any number of threads may interleave. *)
THEOREM StopNotLost == Spec => []NoLostStop
<1>1. Init => NoLostStop
  BY DEF Init, NoLostStop
<1>2. TypeOK /\ NoLostStop /\ [Next]_vars => NoLostStop'
  <2> SUFFICES ASSUME TypeOK, NoLostStop, [Next]_vars, stop', pc' = "wait"
               PROVE  (pipe > 0 \/ \E t \in Threads : calling[t] = "stop")'
    BY DEF NoLostStop
  <2> USE DEF NoLostStop
  <2>1. ASSUME pc = "wait", UNCHANGED wakeVars
        PROVE  (pipe > 0 \/ \E t \in Threads : calling[t] = "stop")'
    BY <2>1 DEF wakeVars
  <2>2. ASSUME NEW why, handle_error(why) PROVE FALSE
    BY <2>2 DEF handle_error
  <2>3. CASE Setup
    <3>1. ~proactor_tcp_epoll_init /\ ~proactor_tcp_epoll_cleanup
      BY <2>2 DEF proactor_tcp_epoll_init, proactor_tcp_epoll_cleanup
    <3>2. UNCHANGED wakeVars /\ UNCHANGED pc
      BY <2>2, <2>3, <3>1
         DEF Setup, proactor_tcp_epoll_start_server, proactor_tcp_epoll_connect,
             set_callback, loopVars
    <3> QED
      BY <2>1, <3>2
  <2>4. ASSUME NEW t \in Callers, proactor_tcp_epoll_stop(t)
        PROVE  (\E u \in Threads : calling[u] = "stop")'
    <3>1. t # Loop
      BY <2>4 DEF proactor_tcp_epoll_stop, CanCall, InApplication, CallbackStates,
                  loopVars
    <3>2. calling'[t] = "stop"
      BY <2>4 DEF proactor_tcp_epoll_stop, TypeOK, WakeTypeOK
    <3> QED
      BY <3>1, <3>2 DEF Callers
  <2>5. ASSUME NEW t \in Callers, proactor_tcp_epoll_wake(t)
        PROVE  (pipe > 0 \/ \E u \in Threads : calling[u] = "stop")'
    <3>1. pc = "wait" /\ stop /\ pipe' = pipe
      BY <2>5 DEF proactor_tcp_epoll_wake, loopVars
    <3>2. \A u \in Callers : calling[u] = "stop" => calling'[u] = "stop"
      BY <2>5 DEF proactor_tcp_epoll_wake, CanCall, TypeOK, WakeTypeOK
    <3> QED
      BY <3>1, <3>2 DEF Callers
  <2>6. ASSUME NEW t \in Callers, wake_write(t) PROVE pipe' > 0
    <3>1. pipe' = pipe + 1
      BY <2>2, <2>6 DEF wake_write
    <3>2. pipe \in Nat
      BY Sizes DEF TypeOK, WakeTypeOK
    <3> QED
      BY <3>1, <3>2
  <2>7. ASSUME NEW c \in Conns, NEW n \in 0..MaxLength, proactor_tcp_epoll_send(c, n)
        PROVE  UNCHANGED wakeVars /\ UNCHANGED pc
    BY <2>2, <2>7 DEF proactor_tcp_epoll_send, loopVars
  <2>8. CASE run_check
    BY <2>8 DEF run_check, wakeVars
  <2>9. CASE LoopStep \/ proactor_tcp_epoll_run \/ callback_return \/ Signals
    <3> SUFFICES ASSUME ~run_check
                 PROVE  UNCHANGED wakeVars /\ UNCHANGED pc
      BY <2>1, <2>8
    <3>1. ~epoll_wait /\ ~events_done /\ ~proactor_tcp_epoll_run /\ ~callback_return
      BY DEF epoll_wait, events_done, proactor_tcp_epoll_run, callback_return
    <3>2. ~wake_read /\ ~handle_accept_event /\ ~accept_register
      BY <2>2 DEF wake_read, handle_accept_event, accept_register, Take, Accepted
    <3>3. \A c \in Conns : ~handle_data_event(c) /\ ~handle_write_event(c)
      BY <2>2 DEF handle_data_event, handle_write_event, Take
    <3>4. ~write_completes /\ ~write_interrupted /\ ~write_error /\ ~free_request
      BY <2>2 DEF write_completes, write_interrupted, write_returned, write_error,
                  free_request
    <3>5. ~epoll_wait_interrupted
      BY <2>2 DEF epoll_wait_interrupted
    <3>6. CASE write_byte
      BY <3>6 DEF write_byte, loopVars
    <3> QED
      BY <2>9, <3>1, <3>2, <3>3, <3>4, <3>5, <3>6 DEF LoopStep, Signals
  <2>10. ASSUME NEW c \in Conns,
                peer_connect(c) \/ peer_send(c) \/ peer_close(c) \/ peer_read(c)
         PROVE  UNCHANGED wakeVars /\ UNCHANGED pc
    BY <2>10 DEF peer_connect, peer_send, peer_close, peer_read, loopVars
  <2>11. CASE UNCHANGED vars
    BY <2>1, <2>11 DEF vars, loopVars
  <2> QED
    BY <2>1, <2>3, <2>4, <2>5, <2>6, <2>7, <2>9, <2>10, <2>11
       DEF Next, Calls, Peers
<1> QED
  BY <1>1, <1>2, TypeCorrect, PTL DEF Spec

-------------------------------------------------------------------------------
SendStates == {"write", "sent_cb", "sent"}

(* The send slot: a request is live while it is written or reported; what a  *)
(* write has handed over fits in what is left; no count survives its write;  *)
(* completion is reported at the end of the request only.                    *)
SlotInv ==
    /\ pc \in SendStates => current_send_request = "live"
    /\ request.offset <= request.length
    /\ pc = "write" => request.offset + wrote <= request.length
    /\ pc \notin {"write", "exited"} => wrote = 0
    /\ pc \in {"sent_cb", "sent"} => request.offset = request.length
    /\ SendInOrderOnce

(* A step that leaves the slot alone and does not enter or leave the states  *)
(* of handle_write_event keeps SlotInv.                                      *)
LEMMA SlotFrame ==
    ASSUME SlotInv, UNCHANGED sendVars,
           \/ pc' = pc
           \/ pc' = "exited"
           \/ pc \notin SendStates \cup {"exited"} /\ pc' \notin SendStates
           \/ pc = "sent_cb" /\ pc' = "sent"
    PROVE  SlotInv'
<1> USE DEF SlotInv, SendInOrderOnce, sendVars, SendStates
<1>1. CASE pc' = pc
  BY <1>1
<1>2. CASE pc' = "exited"
  BY <1>2
<1>3. CASE pc \notin SendStates \cup {"exited"} /\ pc' \notin SendStates
  BY <1>3
<1>4. CASE pc = "sent_cb" /\ pc' = "sent"
  BY <1>4
<1> QED
  BY <1>1, <1>2, <1>3, <1>4

(* The empty request: nothing written is a sequence of length 0. *)
LEMMA NothingWritten == <<>> = [i \in 1..0 |-> i]
<1>1. [i \in 1..0 |-> i] \in Seq(Nat) /\ Len([i \in 1..0 |-> i]) = 0
  OBVIOUS
<1> QED
  BY <1>1, EmptySeq

(* Writing one more byte extends the positions written so far by the next. *)
LEMMA OneMoreByte ==
    ASSUME NEW n \in Nat, NEW s, s = [i \in 1..n |-> i]
    PROVE  Append(s, n + 1) = [i \in 1..(n + 1) |-> i]
OBVIOUS

(* The send slot invariant holds in every state. *)
LEMMA SlotCorrect == Spec => []SlotInv
<1>1. Init => SlotInv
  BY DEF Init, SlotInv, SendStates, SendInOrderOnce, NoRequest
<1>2. TypeOK /\ SlotInv /\ [Next]_vars => SlotInv'
  <2> SUFFICES ASSUME TypeOK, SlotInv, [Next]_vars PROVE SlotInv'
    OBVIOUS
  <2>a. /\ request.offset \in Nat /\ request.length \in Nat /\ wrote \in Nat
    BY Sizes DEF TypeOK, SendTypeOK
  <2>e. ASSUME NEW why, handle_error(why) PROVE SlotInv'
    BY <2>e, SlotFrame DEF handle_error
  <2>1. CASE proactor_tcp_epoll_cleanup
    <3>e. SUFFICES ASSUME ~handle_error("double free") PROVE SlotInv'
      BY <2>e
    <3>1. /\ pc = "up" /\ pc' = "down" /\ current_send_request' # "live"
          /\ request' = NoRequest /\ wrote' = wrote
      BY <2>1, <3>e DEF proactor_tcp_epoll_cleanup
    <3>2. request'.offset = 0 /\ request'.length = 0 /\ wrote' = 0
      BY <3>1 DEF NoRequest, SlotInv
    <3>3. pc' = "down" /\ current_send_request' # "live"
      BY <3>1
    <3>4. request'.offset <= request'.length
      BY <3>1 DEF NoRequest
    <3>5. SendInOrderOnce'
      BY <3>3 DEF SendInOrderOnce
    <3> QED
      BY <3>2, <3>3, <3>4, <3>5 DEF SlotInv, SendStates
  <2>2. CASE Setup
    <3>e. SUFFICES ASSUME ~proactor_tcp_epoll_cleanup, \A why : ~handle_error(why)
                 PROVE  SlotInv'
      BY <2>1, <2>e
    <3>1. UNCHANGED sendVars /\ (pc' = pc \/ (pc = "down" /\ pc' = "up"))
      <4>1. CASE proactor_tcp_epoll_init
        BY <3>e, <4>1 DEF proactor_tcp_epoll_init
      <4>2. CASE proactor_tcp_epoll_start_server
        BY <3>e, <4>2 DEF proactor_tcp_epoll_start_server, loopVars
      <4>3. ASSUME NEW c \in Conns, proactor_tcp_epoll_connect(c)
            PROVE  UNCHANGED sendVars /\ pc' = pc
        BY <3>e, <4>3 DEF proactor_tcp_epoll_connect, loopVars
      <4>4. ASSUME NEW k, NEW given, set_callback(k, given)
            PROVE  UNCHANGED sendVars /\ pc' = pc
        BY <4>4 DEF set_callback, loopVars
      <4> QED
        BY <2>2, <3>e, <4>1, <4>2, <4>3, <4>4 DEF Setup
    <3> QED
      BY <3>1, SlotFrame DEF SendStates
  <2>3. ASSUME NEW t \in Callers,
               \/ proactor_tcp_epoll_stop(t) \/ proactor_tcp_epoll_wake(t)
               \/ wake_write(t)
        PROVE  SlotInv'
    <3>e. SUFFICES ASSUME ~wake_write(t) \/ ~handle_error("wake") PROVE SlotInv'
      BY <2>e
    <3>1. UNCHANGED sendVars /\ pc' = pc
      BY <2>3, <3>e DEF proactor_tcp_epoll_stop, proactor_tcp_epoll_wake, wake_write, loopVars
    <3> QED
      BY <3>1, SlotFrame
  <2>4. ASSUME NEW c \in Conns, NEW n \in 0..MaxLength, proactor_tcp_epoll_send(c, n)
        PROVE  SlotInv'
    <3>e. SUFFICES ASSUME \A why : ~handle_error(why) PROVE SlotInv'
      BY <2>e
    <3>1. /\ current_send_request = "NULL" /\ pc' = pc /\ wrote' = wrote
          /\ request' = [to |-> c, length |-> n, offset |-> 0] /\ out' = <<>>
          /\ pc \in {"up"} \cup CallbackStates
      BY <2>4, <3>e DEF proactor_tcp_epoll_send, SlotFree, loopVars, CanCall, InApplication
    <3>2. pc \in {"up", "accept_cb", "receive_cb"} /\ wrote = 0
      BY <3>1 DEF SlotInv, SendStates, CallbackStates
    <3>3. request'.offset = 0 /\ request'.length = n /\ n >= 0
      BY <3>1, Sizes
    <3>4. out' = [i \in 1..(request'.offset + wrote') |-> i]
      BY <3>1, <3>2, <3>3, NothingWritten
    <3> QED
      BY <3>1, <3>2, <3>3, <3>4 DEF SlotInv, SendStates, SendInOrderOnce
  <2>5. ASSUME NEW c \in Conns, handle_write_event(c) PROVE SlotInv'
    <3>e. SUFFICES ASSUME ~handle_error("use after free") PROVE SlotInv'
      BY <2>e
    <3>1. CASE current_send_request = "NULL"
      BY <2>5, <3>e, <3>1, SlotFrame DEF handle_write_event
    <3>2. CASE current_send_request = "live"
      <4>1. /\ pc = "dispatch" /\ pc' = "write" /\ wrote' = 0
            /\ UNCHANGED <<current_send_request, request, out>>
        BY <2>5, <3>e, <3>2 DEF handle_write_event, Take
      <4>2. wrote = 0
        BY <4>1 DEF SlotInv
      <4>3. out' = [i \in 1..(request'.offset + wrote') |-> i]
        BY <3>2, <4>1, <4>2 DEF SlotInv, SendInOrderOnce
      <4>4. request'.offset + wrote' <= request'.length
        BY <2>a, <4>1 DEF SlotInv
      <4> QED
        BY <3>2, <4>1, <4>3, <4>4 DEF SlotInv, SendStates, SendInOrderOnce
    <3> QED
      BY <2>5, <3>e, <3>1, <3>2 DEF handle_write_event
  <2>6. CASE write_byte
    <3>1. /\ pc = "write" /\ pc' = "write" /\ wrote' = wrote + 1
          /\ wrote < request.length - request.offset
          /\ out' = Append(out, request.offset + wrote + 1)
          /\ UNCHANGED <<current_send_request, request>>
      BY <2>6 DEF write_byte, Left, loopVars
    <3>2. out = [i \in 1..(request.offset + wrote) |-> i]
      BY <3>1 DEF SlotInv, SendStates, SendInOrderOnce
    <3>3. out' = [i \in 1..(request.offset + wrote + 1) |-> i]
      BY <2>a, <3>1, <3>2, OneMoreByte
    <3>4. request.offset + wrote + 1 = request'.offset + wrote'
      BY <2>a, <3>1
    <3>5. request'.offset + wrote' <= request'.length
      BY <2>a, <3>1
    <3> QED
      BY <3>1, <3>3, <3>4, <3>5 DEF SlotInv, SendStates, SendInOrderOnce
  <2>7. CASE write_completes \/ write_interrupted
    <3>1. /\ pc = "write" /\ wrote' = 0
          /\ UNCHANGED <<current_send_request, out>>
          /\ request' = [to |-> request.to, length |-> request.length,
                         offset |-> request.offset + wrote]
          /\ pc' \in {"dispatch", "sent", "sent_cb"}
          /\ pc' # "dispatch" => request.offset + wrote >= request.length
      BY <2>7 DEF write_completes, write_interrupted, write_returned, AdvancedOffset
    <3>2. /\ current_send_request = "live"
          /\ request.offset + wrote <= request.length
          /\ out = [i \in 1..(request.offset + wrote) |-> i]
      BY <3>1 DEF SlotInv, SendStates, SendInOrderOnce
    <3>3. request'.offset = request.offset + wrote /\ request'.length = request.length
      BY <3>1
    <3>4. out' = [i \in 1..(request'.offset + wrote') |-> i]
      BY <2>a, <3>1, <3>2, <3>3
    <3>5. pc' # "dispatch" => request'.offset = request'.length
      BY <2>a, <3>1, <3>2, <3>3
    <3>6. Len(out') = request'.offset
      BY <2>a, <3>1, <3>3, <3>4
    <3> QED
      BY <3>1, <3>2, <3>3, <3>4, <3>5, <3>6 DEF SlotInv, SendStates, SendInOrderOnce
  <2>8. CASE write_error
    <3>e. SUFFICES ASSUME ~handle_error("SIGPIPE") PROVE SlotInv'
      BY <2>e
    <3>1. /\ pc = "write" /\ pc' = "dispatch" /\ wrote = 0 /\ UNCHANGED sendVars
      BY <2>8, <3>e DEF write_error
    <3> QED
      BY <3>1 DEF sendVars, SlotInv, SendStates, SendInOrderOnce
  <2>9. CASE free_request
    BY <2>9 DEF free_request, NoRequest, SlotInv, SendStates, SendInOrderOnce
  <2>10. CASE \/ proactor_tcp_epoll_run \/ run_check \/ epoll_wait \/ events_done
              \/ wake_read \/ handle_accept_event \/ accept_register
              \/ epoll_wait_interrupted \/ callback_return
              \/ \E c \in Conns : handle_data_event(c)
    <3>e. SUFFICES ASSUME \A why : ~handle_error(why) PROVE SlotInv'
      BY <2>e
    <3>1. UNCHANGED sendVars
      BY <2>10, <3>e DEF proactor_tcp_epoll_run, run_check, epoll_wait, events_done, wake_read,
                   handle_accept_event, accept_register, epoll_wait_interrupted,
                   callback_return, handle_data_event
    <3>2. \/ pc' = pc
          \/ pc' = "exited"
          \/ pc \notin SendStates \cup {"exited"} /\ pc' \notin SendStates
          \/ pc = "sent_cb" /\ pc' = "sent"
      BY <2>10, <3>e DEF proactor_tcp_epoll_run, run_check, epoll_wait, events_done, wake_read,
                   handle_accept_event, accept_register, epoll_wait_interrupted,
                   callback_return, handle_data_event, Take, Accepted, SendStates
    <3> QED
      BY <3>1, <3>2, SlotFrame
  <2>11. CASE Peers \/ UNCHANGED vars
    <3>1. UNCHANGED sendVars /\ pc' = pc
      BY <2>11 DEF Peers, peer_connect, peer_send, peer_close, peer_read, vars, loopVars
    <3> QED
      BY <3>1, SlotFrame
  <2> QED
    BY <2>2, <2>3, <2>4, <2>5, <2>6, <2>7, <2>8, <2>9, <2>10, <2>11
       DEF Next, Calls, LoopStep, Signals
<1> QED
  BY <1>1, <1>2, TypeCorrect, PTL DEF Spec

(* The bytes of a request go out in order and exactly once, whatever short   *)
(* writes, interruptions and callbacks interleave with handle_write_event.   *)
THEOREM SentInOrderOnce == Spec => []SendInOrderOnce
<1>1. SlotInv => SendInOrderOnce
  BY DEF SlotInv
<1> QED
  BY <1>1, SlotCorrect, PTL

(* The slot is given up only for a complete request, or at cleanup: no send  *)
(* from a callback replaces the request that handle_write_event works on.    *)
THEOREM RequestNotReplaced == Spec => RequestKept
<1>1. TypeOK /\ SlotInv /\ [Next]_vars => [RequestKeptStep]_vars
  <2> SUFFICES ASSUME TypeOK, SlotInv, Next, current_send_request = "live"
               PROVE  RequestKeptStep
    BY DEF RequestKeptStep
  <2>a. /\ request.offset \in Nat /\ request.length \in Nat /\ wrote \in Nat
    BY Sizes DEF TypeOK, SendTypeOK
  <2>b. ASSUME UNCHANGED <<current_send_request, request>> PROVE RequestKeptStep
    BY <2>a, <2>b DEF RequestKeptStep
  <2>e. ASSUME NEW why, handle_error(why) PROVE RequestKeptStep
    BY <2>b, <2>e DEF handle_error, sendVars
  <2>1. CASE proactor_tcp_epoll_cleanup
    BY <2>1, <2>e DEF proactor_tcp_epoll_cleanup, RequestKeptStep
  <2>2. CASE proactor_tcp_epoll_init
    BY <2>2, <2>b, <2>e DEF proactor_tcp_epoll_init, sendVars
  <2>3. CASE proactor_tcp_epoll_start_server
    BY <2>3, <2>b, <2>e DEF proactor_tcp_epoll_start_server, sendVars
  <2>4. ASSUME NEW c \in Conns, proactor_tcp_epoll_connect(c) PROVE RequestKeptStep
    BY <2>4, <2>b, <2>e DEF proactor_tcp_epoll_connect, sendVars
  <2>5. ASSUME NEW k, NEW given, set_callback(k, given) PROVE RequestKeptStep
    BY <2>5, <2>b DEF set_callback, sendVars
  <2>6. ASSUME NEW t \in Callers,
               \/ proactor_tcp_epoll_stop(t) \/ proactor_tcp_epoll_wake(t)
               \/ wake_write(t)
        PROVE  RequestKeptStep
    BY <2>6, <2>b, <2>e
       DEF proactor_tcp_epoll_stop, proactor_tcp_epoll_wake, wake_write, sendVars
  <2>7. ASSUME NEW c \in Conns, NEW n \in 0..MaxLength, proactor_tcp_epoll_send(c, n)
        PROVE  FALSE
    BY <2>7 DEF proactor_tcp_epoll_send, SlotFree
  <2>8. CASE \/ proactor_tcp_epoll_run \/ run_check \/ epoll_wait \/ events_done
             \/ wake_read \/ handle_accept_event \/ callback_return \/ Peers
             \/ \E c \in Conns : handle_data_event(c)
    BY <2>8, <2>b
       DEF proactor_tcp_epoll_run, run_check, epoll_wait, events_done, wake_read,
           handle_accept_event, callback_return, handle_data_event, Peers,
           peer_connect, peer_send, peer_close, peer_read, sendVars
  <2>9. CASE accept_register \/ epoll_wait_interrupted \/ write_error
    BY <2>9, <2>b, <2>e
       DEF accept_register, epoll_wait_interrupted, write_error, sendVars
  <2>10. ASSUME NEW c \in Conns, handle_write_event(c) PROVE RequestKeptStep
    BY <2>10, <2>b DEF handle_write_event
  <2>11. CASE write_byte
    BY <2>11, <2>b DEF write_byte
  <2>12. CASE write_completes \/ write_interrupted
    <3>1. /\ current_send_request' = "live"
          /\ request' = [to |-> request.to, length |-> request.length,
                         offset |-> request.offset + wrote]
      BY <2>12 DEF write_completes, write_interrupted, write_returned, AdvancedOffset
    <3> QED
      BY <2>a, <3>1 DEF RequestKeptStep
  <2>13. CASE free_request
    BY <2>13 DEF free_request, SlotInv, RequestKeptStep
  <2> QED
    BY <2>1, <2>2, <2>3, <2>4, <2>5, <2>6, <2>7, <2>8, <2>9, <2>10, <2>11, <2>12,
       <2>13
       DEF Next, Setup, Calls, LoopStep, Signals
<1> QED
  BY <1>1, TypeCorrect, SlotCorrect, PTL DEF Spec, RequestKept

-------------------------------------------------------------------------------
(* The epoll set: the connection being accepted is open; a torn down epoll   *)
(* instance has no open connection; and OpenIsWatched.                       *)
WatchInv ==
    /\ pc \in {"accept_cb", "accepted"} => cur \in Conns /\ conn[cur] = "open"
    /\ pc = "down" => \A c \in Conns : conn[c] # "open"
    /\ OpenIsWatched

(* A step that leaves connections and interests alone, and does not enter    *)
(* or leave handle_accept_event or init, keeps WatchInv.                     *)
LEMMA WatchFrame ==
    ASSUME WatchInv, UNCHANGED <<conn, mask>>,
           \/ pc' = pc /\ cur' = cur
           \/ pc' = "exited"
           \/ /\ pc \notin {"down", "accept_cb", "accepted", "exited"}
              /\ pc' \notin {"down", "accept_cb", "accepted"}
           \/ pc = "accept_cb" /\ pc' = "accepted" /\ cur' = cur
    PROVE  WatchInv'
<1> USE DEF WatchInv, OpenIsWatched
<1>1. CASE pc' = pc /\ cur' = cur
  BY <1>1
<1>2. CASE pc' = "exited"
  BY <1>2
<1>3. CASE /\ pc \notin {"down", "accept_cb", "accepted", "exited"}
           /\ pc' \notin {"down", "accept_cb", "accepted"}
  BY <1>3
<1>4. CASE pc = "accept_cb" /\ pc' = "accepted" /\ cur' = cur
  BY <1>4
<1> QED
  BY <1>1, <1>2, <1>3, <1>4

(* The invariant of the epoll set holds in every state. *)
LEMMA WatchCorrect == Spec => []WatchInv
<1>1. Init => WatchInv
  BY DEF Init, WatchInv, OpenIsWatched, NoEvents, Fds
<1>2. TypeOK /\ WatchInv /\ [Next]_vars => WatchInv'
  <2> SUFFICES ASSUME TypeOK, WatchInv, [Next]_vars PROVE WatchInv'
    OBVIOUS
  <2>a. /\ Wake \notin Conns /\ Server \notin Conns
        /\ Conns \subseteq Fds /\ Wake \in Fds /\ Server \in Fds
    BY EpollAssumption DEF Fds
  <2>e. ASSUME NEW why, handle_error(why) PROVE WatchInv'
    BY <2>e, WatchFrame DEF handle_error, sockVars
  <2>1. CASE proactor_tcp_epoll_init
    <3>1. CASE handle_error("syscall")
      BY <2>e, <3>1
    <3>2. CASE ~handle_error("syscall")
      <4>1. /\ pc = "down" /\ pc' = "up" /\ conn' = conn
            /\ \A c \in Conns : mask'[c] = {}
        BY <2>1, <2>a, <3>2 DEF proactor_tcp_epoll_init, NoEvents
      <4> QED
        BY <4>1 DEF WatchInv, OpenIsWatched
    <3> QED
      BY <3>1, <3>2
  <2>2. CASE proactor_tcp_epoll_start_server
    <3>1. CASE handle_error("syscall")
      BY <2>e, <3>1
    <3>2. CASE ~handle_error("syscall")
      <4>1. /\ UNCHANGED <<pc, cur, conn>>
            /\ \A c \in Conns : mask'[c] = mask[c]
        BY <2>2, <2>a, <3>2 DEF proactor_tcp_epoll_start_server, loopVars, TypeOK,
                                SockTypeOK
      <4> QED
        BY <4>1 DEF WatchInv, OpenIsWatched
    <3> QED
      BY <3>1, <3>2
  <2>3. ASSUME NEW c \in Conns, proactor_tcp_epoll_connect(c) PROVE WatchInv'
    <3>1. CASE handle_error("syscall")
      BY <2>e, <3>1
    <3>2. CASE ~handle_error("syscall")
      <4>1. /\ pc = "up" /\ UNCHANGED <<pc, cur>>
            /\ mask'[c] # {} /\ conn'[c] = "open"
            /\ \A d \in Conns \ {c} : mask'[d] = mask[d] /\ conn'[d] = conn[d]
        BY <2>3, <2>a, <3>2 DEF proactor_tcp_epoll_connect, loopVars, TypeOK, SockTypeOK
      <4> QED
        BY <4>1 DEF WatchInv, OpenIsWatched
    <3> QED
      BY <3>1, <3>2
  <2>4. ASSUME NEW k, NEW given, set_callback(k, given) PROVE WatchInv'
    BY <2>4, WatchFrame DEF set_callback, loopVars, sockVars
  <2>5. CASE proactor_tcp_epoll_cleanup
    <3>1. CASE handle_error("double free")
      BY <2>e, <3>1
    <3>2. CASE ~handle_error("double free")
      <4>1. /\ pc' = "down"
            /\ \A c \in Conns : mask'[c] = {} /\ conn'[c] # "open"
        BY <2>5, <2>a, <3>2 DEF proactor_tcp_epoll_cleanup, AfterCleanup, NoEvents
      <4> QED
        BY <4>1 DEF WatchInv, OpenIsWatched
    <3> QED
      BY <3>1, <3>2
  <2>6. ASSUME NEW t \in Callers,
               \/ proactor_tcp_epoll_stop(t) \/ proactor_tcp_epoll_wake(t)
               \/ wake_write(t)
        PROVE  WatchInv'
    BY <2>6, <2>e, WatchFrame
       DEF proactor_tcp_epoll_stop, proactor_tcp_epoll_wake, wake_write, loopVars,
           sockVars
  <2>7. ASSUME NEW c \in Conns, NEW n \in 0..MaxLength, proactor_tcp_epoll_send(c, n)
        PROVE  WatchInv'
    <3>1. CASE handle_error("syscall") \/ handle_error("send")
      BY <2>e, <3>1
    <3>2. CASE ~(handle_error("syscall") \/ handle_error("send"))
      <4>1. /\ UNCHANGED <<pc, cur, conn>> /\ conn[c] = "open"
            /\ mask'[c] # {}
            /\ \A d \in Conns \ {c} : mask'[d] = mask[d]
        BY <2>7, <2>a, <3>2 DEF proactor_tcp_epoll_send, SendMask, loopVars, TypeOK,
                                SockTypeOK
      <4> QED
        BY <4>1 DEF WatchInv, OpenIsWatched
    <3> QED
      BY <3>1, <3>2
  <2>8. CASE \/ proactor_tcp_epoll_run \/ run_check \/ epoll_wait \/ events_done
             \/ wake_read \/ callback_return \/ free_request
    BY <2>8, WatchFrame
       DEF proactor_tcp_epoll_run, run_check, epoll_wait, events_done, wake_read,
           callback_return, free_request, Take, sockVars, InApplication, CallbackStates
  <2>9. CASE epoll_wait_interrupted \/ write_error
    BY <2>9, <2>e, WatchFrame DEF epoll_wait_interrupted, write_error, sockVars
  <2>10. CASE handle_accept_event
    <3>1. CASE UNCHANGED <<pc, cur, conn>>
      BY <2>10, <3>1, WatchFrame DEF handle_accept_event
    <3>2. CASE ~UNCHANGED <<pc, cur, conn>>
      <4>1. PICK c \in Conns : /\ conn' = [conn EXCEPT ![c] = "open"]
                               /\ cur' = c /\ pc' = Accepted
        BY <2>10, <3>2 DEF handle_accept_event
      <4>2. /\ pc = "dispatch" /\ pc' \in {"accept_cb", "accepted"} /\ mask' = mask
            /\ conn'[c] = "open"
            /\ \A d \in Conns \ {c} : conn'[d] = conn[d]
        BY <2>10, <4>1 DEF handle_accept_event, Take, Accepted, TypeOK, SockTypeOK
      <4> QED
        BY <4>1, <4>2 DEF WatchInv, OpenIsWatched
    <3> QED
      BY <3>1, <3>2
  <2>11. CASE accept_register
    <3>1. CASE handle_error("syscall")
      BY <2>e, <3>1
    <3>2. CASE ~handle_error("syscall")
      <4>1. cur \in Conns /\ conn[cur] = "open"
        BY <2>11 DEF accept_register, WatchInv
      <4>2. /\ pc = "accepted" /\ pc' = "dispatch" /\ conn' = conn
            /\ mask'[cur] # {}
            /\ \A d \in Conns \ {cur} : mask'[d] = mask[d]
        BY <2>11, <2>a, <3>2, <4>1 DEF accept_register, TypeOK, SockTypeOK
      <4> QED
        BY <4>1, <4>2 DEF WatchInv, OpenIsWatched
    <3> QED
      BY <3>1, <3>2
  <2>12. ASSUME NEW c \in Conns, handle_data_event(c) PROVE WatchInv'
    <3>1. CASE pc' # "exited"
      BY <2>12, <3>1, WatchFrame DEF handle_data_event, Take, sockVars
    <3>2. CASE pc' = "exited"
      <4>1. /\ pc' = "exited" /\ mask'[c] = {}
            /\ \A d \in Conns \ {c} : mask'[d] = mask[d] /\ conn'[d] = conn[d]
        BY <2>12, <2>a, <3>2 DEF handle_data_event, Take, TypeOK, SockTypeOK
      <4> QED
        BY <4>1 DEF WatchInv, OpenIsWatched
    <3> QED
      BY <3>1, <3>2
  <2>13. ASSUME NEW c \in Conns, handle_write_event(c) PROVE WatchInv'
    BY <2>13, <2>e, WatchFrame DEF handle_write_event, Take, sockVars
  <2>14. CASE write_byte \/ write_completes \/ write_interrupted
    BY <2>14, WatchFrame DEF write_byte, write_completes, write_interrupted,
                             write_returned, loopVars, sockVars
  <2>15. ASSUME NEW c \in Conns, peer_connect(c) PROVE WatchInv'
    <3>1. /\ UNCHANGED <<pc, cur, mask>> /\ conn[c] = "none" /\ conn'[c] = "pending"
          /\ \A d \in Conns \ {c} : conn'[d] = conn[d]
      BY <2>15 DEF peer_connect, loopVars, TypeOK, SockTypeOK
    <3> QED
      BY <3>1 DEF WatchInv, OpenIsWatched
  <2>16. ASSUME NEW c \in Conns, peer_send(c) \/ peer_close(c) \/ peer_read(c)
         PROVE  WatchInv'
    BY <2>16, WatchFrame DEF peer_send, peer_close, peer_read, loopVars, sockVars
  <2>17. CASE UNCHANGED vars
    BY <2>17, WatchFrame DEF vars, loopVars, sockVars
  <2> QED
    BY <2>1, <2>2, <2>3, <2>4, <2>5, <2>6, <2>7, <2>8, <2>9, <2>10, <2>11, <2>12,
       <2>13, <2>14, <2>15, <2>16, <2>17
       DEF Next, Setup, Calls, LoopStep, Signals, Peers
<1> QED
  BY <1>1, <1>2, TypeCorrect, PTL DEF Spec

(* Every open connection is in the epoll set, but for the one that           *)
(* handle_accept_event has accepted and not registered yet, and no           *)
(* descriptor outlives its connection there.                                 *)
THEOREM OpenConnectionsWatched == Spec => []OpenIsWatched
<1>1. WatchInv => OpenIsWatched
  BY DEF WatchInv
<1> QED
  BY <1>1, WatchCorrect, PTL

-------------------------------------------------------------------------------
(* The snapshot of events: nothing is left of it outside the for loop of     *)
(* run; its connections are open; the one being written to was taken out of  *)
(* it; and EventsStayReady.                                                  *)
BatchInv ==
    /\ pc \in {"down", "up", "check", "wait"} => batch = NoEvents
    /\ pc # "exited" => \A c \in Conns : batch[c] # {} => conn[c] = "open"
    /\ pc = "write" => cur \in Conns /\ batch[cur] = {}
    /\ EventsStayReady

(* What keeps a descriptor ready: bytes in the wake pipe, a connection in    *)
(* the backlog, unread data or an end of file, room in the send buffer.      *)
LEMMA ReadyKept ==
    /\ (pipe > 0 => pipe' > 0) => Readiness(Wake) \subseteq Readiness(Wake)'
    /\ ((\E c \in Conns : conn[c] = "pending")
           => (\E c \in Conns : conn'[c] = "pending"))
       => Readiness(Server) \subseteq Readiness(Server)'
    /\ \A c \in Conns :
          /\ rx[c] > 0 => rx'[c] > 0
          /\ eof[c] => eof'[c]
          /\ snd[c] < SndBuf => snd'[c] < SndBuf
          => Readiness(c) \subseteq Readiness(c)'
<1>1. (pipe > 0 => pipe' > 0) => Readiness(Wake) \subseteq Readiness(Wake)'
  BY DEF Readiness
<1>2. ((\E c \in Conns : conn[c] = "pending")
           => (\E c \in Conns : conn'[c] = "pending"))
       => Readiness(Server) \subseteq Readiness(Server)'
  BY DEF Readiness, Wake, Server
<1>3. ASSUME NEW c \in Conns, rx[c] > 0 => rx'[c] > 0, eof[c] => eof'[c],
             snd[c] < SndBuf => snd'[c] < SndBuf
      PROVE  Readiness(c) \subseteq Readiness(c)'
  <2>1. c # Wake /\ c # Server
    BY EpollAssumption
  <2> QED
    BY <1>3, <2>1 DEF Readiness
<1> QED
  BY <1>1, <1>2, <1>3

(* A step that leaves readiness alone keeps what is left of the snapshot     *)
(* ready, whatever part of it the step takes out.                            *)
LEMMA ReadyFrame ==
    ASSUME EventsStayReady, UNCHANGED <<pipe, conn, rx, eof, snd>>,
           \A fd \in Fds : batch'[fd] \subseteq batch[fd]
    PROVE  EventsStayReady'
<1>1. \A fd \in Fds : Readiness(fd)' = Readiness(fd)
  BY DEF Readiness
<1> QED
  BY <1>1 DEF EventsStayReady

(* Taking an event out of the snapshot. *)
LEMMA DoneTakesOut ==
    ASSUME TypeOK, NEW fd \in Fds, Done(fd)
    PROVE  /\ batch'[fd] = {}
           /\ \A f \in Fds : f # fd => batch'[f] = batch[f]
           /\ \A f \in Fds : batch'[f] \subseteq batch[f]
BY DEF Done, TypeOK, LoopTypeOK

(* A step that leaves connections and readiness alone keeps BatchInv if it   *)
(* is a step of the for loop, or leaves the snapshot alone where it is empty. *)
LEMMA BatchFrame ==
    ASSUME BatchInv, UNCHANGED <<pipe, conn, rx, eof, snd>>,
           \A fd \in Fds : batch'[fd] \subseteq batch[fd],
           \/ UNCHANGED <<pc, cur, batch>>
           \/ pc' = "exited"
           \/ UNCHANGED batch /\ {pc, pc'} \subseteq {"down", "up", "check", "wait"}
           \/ /\ pc \notin {"down", "up", "check", "wait", "exited"}
              /\ pc' \notin {"down", "up", "check", "wait", "write"}
    PROVE  BatchInv'
<1>0. EventsStayReady'
  BY ReadyFrame DEF BatchInv
<1>a. Conns \subseteq Fds
  BY DEF Fds
<1>1. CASE UNCHANGED <<pc, cur, batch>>
  BY <1>0, <1>1 DEF BatchInv, NoEvents
<1>2. CASE pc' = "exited"
  BY <1>0, <1>2 DEF BatchInv
<1>3. CASE UNCHANGED batch /\ {pc, pc'} \subseteq {"down", "up", "check", "wait"}
  BY <1>0, <1>3 DEF BatchInv, NoEvents
<1>4. CASE /\ pc \notin {"down", "up", "check", "wait", "exited"}
           /\ pc' \notin {"down", "up", "check", "wait", "write"}
  BY <1>0, <1>a, <1>4 DEF BatchInv
<1> QED
  BY <1>1, <1>2, <1>3, <1>4

(* The invariant of the snapshot holds in every state. *)
LEMMA BatchCorrect == Spec => []BatchInv
<1>1. Init => BatchInv
  BY DEF Init, BatchInv, EventsStayReady, NoEvents, Fds
<1>2. TypeOK /\ WatchInv /\ BatchInv /\ [Next]_vars => BatchInv'
  <2> SUFFICES ASSUME TypeOK, WatchInv, BatchInv, [Next]_vars PROVE BatchInv'
    OBVIOUS
  <2>a. /\ Wake \notin Conns /\ Server \notin Conns /\ Wake # Server
        /\ Conns \subseteq Fds /\ Wake \in Fds /\ Server \in Fds
    BY EpollAssumption DEF Fds, Wake, Server
  <2>f. \A fd \in Fds : fd = Wake \/ fd = Server \/ fd \in Conns
    BY DEF Fds
  <2>e. ASSUME NEW why, handle_error(why) PROVE BatchInv'
    BY <2>e, BatchFrame DEF handle_error, wakeVars, sockVars, netVars
  <2>n. ASSUME batch' = NoEvents, pc' # "write" PROVE BatchInv'
    BY <2>n, <2>a DEF BatchInv, EventsStayReady, NoEvents
  <2>o. pc \in {"down", "up", "check", "wait"} => batch = NoEvents
    BY DEF BatchInv
  <2>1. CASE Setup
    <3>1. CASE proactor_tcp_epoll_init \/ proactor_tcp_epoll_cleanup
      BY <2>e, <2>n, <2>o, <3>1 DEF proactor_tcp_epoll_init, proactor_tcp_epoll_cleanup
    <3>2. CASE proactor_tcp_epoll_start_server
      BY <2>e, <2>n, <2>o, <3>2 DEF proactor_tcp_epoll_start_server, loopVars
    <3>3. ASSUME NEW c \in Conns, proactor_tcp_epoll_connect(c) PROVE BatchInv'
      BY <2>e, <2>n, <2>o, <3>3 DEF proactor_tcp_epoll_connect, loopVars
    <3>4. ASSUME NEW k, NEW given, set_callback(k, given) PROVE BatchInv'
      BY <3>4, BatchFrame DEF set_callback, loopVars, wakeVars, sockVars, netVars
    <3> QED
      BY <2>1, <3>1, <3>2, <3>3, <3>4 DEF Setup
  <2>2. ASSUME NEW t \in Callers, proactor_tcp_epoll_stop(t) \/ proactor_tcp_epoll_wake(t)
        PROVE  BatchInv'
    BY <2>2, BatchFrame DEF proactor_tcp_epoll_stop, proactor_tcp_epoll_wake, loopVars,
                            sockVars, netVars
  <2>3. ASSUME NEW t \in Callers, wake_write(t) PROVE BatchInv'
    <3>1. CASE handle_error("wake")
      BY <2>e, <3>1
    <3>2. CASE ~handle_error("wake")
      <4>1. /\ UNCHANGED <<pc, cur, batch, conn, rx, eof, snd>>
            /\ pipe' = pipe + 1
        BY <2>3, <3>2 DEF wake_write, loopVars, sockVars, netVars
      <4>2. pipe > 0 => pipe' > 0
        BY <4>1 DEF TypeOK, WakeTypeOK
      <4>3. Readiness(Wake) \subseteq Readiness(Wake)'
        BY <4>2, ReadyKept
      <4>4. \A fd \in Fds : fd # Wake => Readiness(fd)' = Readiness(fd)
        BY <4>1 DEF Readiness
      <4>5. EventsStayReady'
        BY <4>1, <4>3, <4>4 DEF BatchInv, EventsStayReady
      <4> QED
        BY <4>1, <4>5 DEF BatchInv, NoEvents
    <3> QED
      BY <3>1, <3>2
  <2>4. ASSUME NEW c \in Conns, NEW n \in 0..MaxLength, proactor_tcp_epoll_send(c, n)
        PROVE  BatchInv'
    BY <2>4, <2>e, BatchFrame DEF proactor_tcp_epoll_send, loopVars, wakeVars, netVars
  <2>5. CASE proactor_tcp_epoll_run \/ run_check \/ epoll_wait_interrupted
    BY <2>5, <2>e, BatchFrame
       DEF proactor_tcp_epoll_run, run_check, epoll_wait_interrupted, wakeVars, sockVars,
           netVars
  <2>6. CASE epoll_wait
    <3>1. /\ pc' = "dispatch" /\ UNCHANGED <<pipe, conn, rx, eof, snd>>
          /\ \A fd \in Fds : batch'[fd] \in {Ready(fd), {}}
      BY <2>6 DEF epoll_wait, wakeVars, sockVars, netVars
    <3>2. \A fd \in Fds : Readiness(fd)' = Readiness(fd)
      BY <3>1 DEF Readiness
    <3>3. EventsStayReady'
      BY <3>1, <3>2 DEF EventsStayReady, Ready
    <3>4. \A c \in Conns : batch'[c] # {} => conn'[c] = "open"
      BY <2>a, <3>1 DEF Ready, WatchInv, OpenIsWatched
    <3> QED
      BY <3>1, <3>3, <3>4 DEF BatchInv
  <2>7. CASE events_done
    BY <2>7, <2>n DEF events_done
  <2>8. CASE wake_read
    <3>1. /\ pc = "dispatch" /\ UNCHANGED <<pc, cur, conn, rx, eof, snd>> /\ Done(Wake)
      BY <2>8 DEF wake_read, Take, sockVars, netVars
    <3>2. /\ batch'[Wake] = {}
          /\ \A fd \in Fds : fd # Wake => batch'[fd] = batch[fd]
      BY <2>a, <3>1, DoneTakesOut
    <3>3. \A fd \in Fds : fd # Wake => Readiness(fd)' = Readiness(fd)
      BY <3>1 DEF Readiness
    <3>4. EventsStayReady'
      BY <3>2, <3>3 DEF BatchInv, EventsStayReady
    <3> QED
      BY <2>a, <3>1, <3>2, <3>4 DEF BatchInv
  <2>9. CASE handle_accept_event
    <3>1. /\ pc = "dispatch" /\ UNCHANGED <<pipe, rx, eof, snd>> /\ Done(Server)
          /\ pc' \in {"dispatch", "accept_cb", "accepted"}
      BY <2>9 DEF handle_accept_event, Take, Accepted, wakeVars, netVars
    <3>2. /\ batch'[Server] = {}
          /\ \A fd \in Fds : fd # Server => batch'[fd] = batch[fd]
      BY <2>a, <3>1, DoneTakesOut
    <3>3. \A fd \in Fds : fd # Server => Readiness(fd)' = Readiness(fd)
      BY <3>1 DEF Readiness
    <3>4. EventsStayReady'
      BY <3>2, <3>3 DEF BatchInv, EventsStayReady
    <3>5. \A c \in Conns : conn[c] = "open" => conn'[c] = "open"
      BY <2>9 DEF handle_accept_event, TypeOK, SockTypeOK
    <3> QED
      BY <2>a, <3>1, <3>2, <3>4, <3>5 DEF BatchInv
  <2>10. CASE accept_register \/ write_error
    BY <2>10, <2>e, BatchFrame
       DEF accept_register, write_error, wakeVars, sockVars, netVars
  <2>11. ASSUME NEW c \in Conns, handle_data_event(c) PROVE BatchInv'
    <3>1. CASE pc' # "exited"
      <4>1. /\ pc = "dispatch" /\ Done(c) /\ pc' \in {"dispatch", "receive_cb"}
            /\ UNCHANGED <<pipe, conn, eof, snd>>
            /\ \A d \in Conns : d # c => rx'[d] = rx[d]
        BY <2>11, <3>1 DEF handle_data_event, Take, wakeVars, sockVars, TypeOK, NetTypeOK
      <4>2. /\ batch'[c] = {}
            /\ \A fd \in Fds : fd # c => batch'[fd] = batch[fd]
        BY <2>a, <4>1, DoneTakesOut
      <4>3. \A fd \in Fds : fd # c => Readiness(fd)' = Readiness(fd)
        BY <2>f, <4>1 DEF Readiness
      <4>4. EventsStayReady'
        BY <4>2, <4>3 DEF BatchInv, EventsStayReady
      <4> QED
        BY <2>a, <4>1, <4>2, <4>4 DEF BatchInv
    <3>2. CASE pc' = "exited"
      <4>1. /\ pc = "dispatch" /\ pc' = "exited" /\ batch[c] # {}
            /\ UNCHANGED <<pipe, batch, rx, eof, snd>>
            /\ \A d \in Conns : d # c => conn'[d] = conn[d]
        BY <2>11, <3>2 DEF handle_data_event, Take, wakeVars, netVars, TypeOK, SockTypeOK
      <4>2. conn[c] = "open"
        BY <4>1 DEF BatchInv
      <4>3. \A d \in Conns : conn[d] = "pending" => conn'[d] = "pending"
        BY <4>1, <4>2
      <4>4. Readiness(Server) \subseteq Readiness(Server)'
        BY <4>3, ReadyKept
      <4>5. \A fd \in Fds : fd # Server => Readiness(fd)' = Readiness(fd)
        BY <4>1 DEF Readiness
      <4>6. EventsStayReady'
        BY <4>1, <4>4, <4>5 DEF BatchInv, EventsStayReady
      <4> QED
        BY <4>1, <4>6 DEF BatchInv
    <3> QED
      BY <3>1, <3>2
  <2>12. ASSUME NEW c \in Conns, handle_write_event(c) PROVE BatchInv'
    <3>1. CASE handle_error("use after free")
      BY <2>e, <3>1
    <3>2. CASE ~handle_error("use after free")
      <4>1. /\ pc = "dispatch" /\ Done(c) /\ UNCHANGED <<pipe, conn, rx, eof, snd>>
            /\ pc' = "dispatch" \/ (pc' = "write" /\ cur' = c)
        BY <2>12, <3>2 DEF handle_write_event, Take, wakeVars, sockVars, netVars
      <4>2. batch'[c] = {} /\ \A fd \in Fds : batch'[fd] \subseteq batch[fd]
        BY <2>a, <4>1, DoneTakesOut
      <4>3. EventsStayReady'
        BY <4>1, <4>2, ReadyFrame DEF BatchInv
      <4> QED
        BY <2>a, <4>1, <4>2, <4>3 DEF BatchInv
    <3> QED
      BY <3>1, <3>2
  <2>13. CASE write_byte
    <3>1. /\ pc = "write" /\ UNCHANGED <<pc, cur, batch, pipe, conn, rx, eof>>
          /\ snd' = [snd EXCEPT ![cur] = @ + 1]
      BY <2>13 DEF write_byte, WriteFd, loopVars, wakeVars, sockVars
    <3>2. cur \in Conns /\ batch[cur] = {}
      BY <3>1 DEF BatchInv
    <3>3. \A d \in Conns : d # cur => snd'[d] = snd[d]
      BY <3>1 DEF TypeOK, NetTypeOK
    <3>4. \A fd \in Fds : fd # cur => Readiness(fd)' = Readiness(fd)
      BY <2>f, <3>1, <3>3 DEF Readiness
    <3>5. EventsStayReady'
      BY <3>1, <3>2, <3>4 DEF BatchInv, EventsStayReady
    <3> QED
      BY <3>1, <3>5 DEF BatchInv, NoEvents
  <2>14. CASE write_completes \/ write_interrupted
    BY <2>14, BatchFrame
       DEF write_completes, write_interrupted, write_returned, wakeVars, sockVars, netVars
  <2>15. CASE free_request \/ callback_return
    BY <2>15, BatchFrame
       DEF free_request, callback_return, wakeVars, sockVars, netVars
  <2>16. ASSUME NEW c \in Conns, peer_connect(c) PROVE BatchInv'
    <3>1. /\ UNCHANGED <<pc, cur, batch, pipe, rx, eof, snd>>
          /\ conn[c] = "none" /\ conn'[c] = "pending"
          /\ \A d \in Conns : d # c => conn'[d] = conn[d]
      BY <2>16 DEF peer_connect, loopVars, wakeVars, netVars, TypeOK, SockTypeOK
    <3>2. \A d \in Conns : conn[d] \in {"pending", "open"} => conn'[d] = conn[d]
      BY <3>1
    <3>3. Readiness(Server) \subseteq Readiness(Server)'
      BY <3>2, ReadyKept
    <3>4. \A fd \in Fds : fd # Server => Readiness(fd)' = Readiness(fd)
      BY <3>1 DEF Readiness
    <3>5. EventsStayReady'
      BY <3>1, <3>3, <3>4 DEF BatchInv, EventsStayReady
    <3> QED
      BY <3>1, <3>2, <3>5 DEF BatchInv, NoEvents
  <2>17. ASSUME NEW c \in Conns, peer_send(c) \/ peer_close(c) \/ peer_read(c)
         PROVE  BatchInv'
    <3>1. UNCHANGED <<pc, cur, batch, pipe, conn>>
      BY <2>17 DEF peer_send, peer_close, peer_read, loopVars, wakeVars, sockVars
    <3>2. \A d \in Conns : rx[d] > 0 => rx'[d] > 0
      BY <2>17 DEF peer_send, peer_close, peer_read, TypeOK, NetTypeOK
    <3>3. \A d \in Conns : eof[d] => eof'[d]
      BY <2>17 DEF peer_send, peer_close, peer_read, TypeOK, NetTypeOK
    <3>4. \A d \in Conns : snd[d] < SndBuf => snd'[d] < SndBuf
      BY <2>17, Sizes DEF peer_send, peer_close, peer_read, TypeOK, NetTypeOK
    <3>5. \A fd \in Fds : Readiness(fd) \subseteq Readiness(fd)'
      BY <2>f, <3>1, <3>2, <3>3, <3>4, ReadyKept
    <3>6. EventsStayReady'
      BY <3>1, <3>5 DEF BatchInv, EventsStayReady
    <3> QED
      BY <3>1, <3>6 DEF BatchInv, NoEvents
  <2>18. CASE UNCHANGED vars
    BY <2>18, BatchFrame DEF vars, loopVars, wakeVars, sockVars, netVars
  <2> QED
    BY <2>1, <2>2, <2>3, <2>4, <2>5, <2>6, <2>7, <2>8, <2>9, <2>10, <2>11, <2>12,
       <2>13, <2>14, <2>15, <2>16, <2>17, <2>18
       DEF Next, Calls, LoopStep, Signals, Peers
<1> QED
  BY <1>1, <1>2, TypeCorrect, WatchCorrect, PTL DEF Spec

(* Every event still to be handled is still true, whatever callbacks, other  *)
(* threads and peers do between epoll_wait and its handler: no blocking call *)
(* of a handler hangs the loop on a stale event.                             *)
THEOREM NoStaleEvent == Spec => []EventsStayReady
<1>1. BatchInv => EventsStayReady
  BY DEF BatchInv
<1> QED
  BY <1>1, BatchCorrect, PTL

-------------------------------------------------------------------------------
(* run and stop keep the safety part of EventLoop's promise: run is entered  *)
(* outside run only, returns only after stop, and stop is never taken back.  *)
(* (That run does return is a liveness property: TLC checks it.)             *)
THEOREM RunReturnsOnlyAfterStop == Spec => EL!Safety
<1>1. Init => EL!Init
  BY DEF Init, EL!Init, RunStates, CallbackStates
<1>2. [Next]_vars => [EL!Next]_(EL!vars)
  <2> SUFFICES ASSUME [Next]_vars PROVE EL!Next \/ UNCHANGED EL!vars
    OBVIOUS
  <2> DEFINE running == pc \in RunStates
  <2>a. ASSUME stop' = stop, running' <=> running, pc' = "exited" <=> pc = "exited"
        PROVE  UNCHANGED EL!vars
    BY <2>a DEF EL!vars
  <2>b. ASSUME UNCHANGED <<pc, stop>> PROVE UNCHANGED EL!vars
    BY <2>b DEF EL!vars
  <2>e. ASSUME NEW why, handle_error(why) PROVE EL!Next
    BY <2>e DEF handle_error, wakeVars, EL!Next, EL!End, RunStates, CallbackStates
  <2>1. CASE Setup
    <3>1. CASE proactor_tcp_epoll_init
      BY <2>a, <2>e, <3>1 DEF proactor_tcp_epoll_init, RunStates, CallbackStates
    <3>2. CASE proactor_tcp_epoll_cleanup
      BY <2>a, <2>e, <3>2 DEF proactor_tcp_epoll_cleanup, RunStates, CallbackStates
    <3>3. CASE proactor_tcp_epoll_start_server
      BY <2>b, <2>e, <3>3 DEF proactor_tcp_epoll_start_server, loopVars, wakeVars
    <3>4. ASSUME NEW c \in Conns, proactor_tcp_epoll_connect(c)
          PROVE  EL!Next \/ UNCHANGED EL!vars
      BY <2>b, <2>e, <3>4 DEF proactor_tcp_epoll_connect, loopVars, wakeVars
    <3>5. ASSUME NEW k, NEW given, set_callback(k, given) PROVE UNCHANGED EL!vars
      BY <2>b, <3>5 DEF set_callback, loopVars, wakeVars
    <3> QED
      BY <2>1, <3>1, <3>2, <3>3, <3>4, <3>5 DEF Setup
  <2>2. ASSUME NEW t \in Callers, proactor_tcp_epoll_stop(t) PROVE EL!Next
    BY <2>2 DEF proactor_tcp_epoll_stop, loopVars, EL!Next, EL!Stop
  <2>3. ASSUME NEW t \in Callers, proactor_tcp_epoll_wake(t) \/ wake_write(t)
        PROVE  EL!Next \/ UNCHANGED EL!vars
    BY <2>3, <2>b, <2>e DEF proactor_tcp_epoll_wake, wake_write, loopVars
  <2>4. ASSUME NEW c \in Conns, NEW n \in 0..MaxLength, proactor_tcp_epoll_send(c, n)
        PROVE  EL!Next \/ UNCHANGED EL!vars
    BY <2>4, <2>b, <2>e DEF proactor_tcp_epoll_send, loopVars, wakeVars
  <2>5. CASE proactor_tcp_epoll_run
    BY <2>5 DEF proactor_tcp_epoll_run, wakeVars, RunStates, CallbackStates, EL!Next,
                EL!Run
  <2>6. CASE run_check
    <3>1. CASE stop
      BY <2>6, <3>1 DEF run_check, wakeVars, RunStates, CallbackStates, EL!Next,
                        EL!Return
    <3>2. CASE ~stop
      BY <2>6, <2>a, <3>2 DEF run_check, wakeVars, RunStates
    <3> QED
      BY <3>1, <3>2
  <2>7. CASE \/ epoll_wait \/ events_done \/ wake_read \/ handle_accept_event
             \/ write_byte \/ write_completes \/ write_interrupted \/ free_request
             \/ callback_return
    <3>1. {pc, pc'} \subseteq RunStates /\ stop' = stop
      BY <2>7 DEF epoll_wait, events_done, wake_read, handle_accept_event, Accepted,
                  write_byte, write_completes, write_interrupted, write_returned,
                  free_request, callback_return, Take, loopVars, wakeVars, RunStates,
                  CallbackStates
    <3> QED
      BY <2>a, <3>1 DEF RunStates, CallbackStates
  <2>8. CASE accept_register \/ write_error \/ epoll_wait_interrupted
    BY <2>8, <2>a, <2>e DEF accept_register, write_error, epoll_wait_interrupted,
                            wakeVars, RunStates, CallbackStates
  <2>9. ASSUME NEW c \in Conns, handle_data_event(c)
        PROVE  EL!Next \/ UNCHANGED EL!vars
    <3>1. /\ pc = "dispatch" /\ stop' = stop
          /\ pc' \in {"dispatch", "receive_cb", "exited"}
      BY <2>9 DEF handle_data_event, Take, wakeVars
    <3>2. CASE pc' = "exited"
      BY <3>1, <3>2 DEF EL!Next, EL!End, RunStates, CallbackStates
    <3>3. CASE pc' # "exited"
      BY <2>a, <3>1, <3>3 DEF RunStates, CallbackStates
    <3> QED
      BY <3>2, <3>3
  <2>10. ASSUME NEW c \in Conns, handle_write_event(c)
         PROVE  EL!Next \/ UNCHANGED EL!vars
    BY <2>10, <2>a, <2>e DEF handle_write_event, Take, wakeVars, RunStates,
                             CallbackStates
  <2>11. CASE Peers \/ UNCHANGED vars
    BY <2>11, <2>b DEF Peers, peer_connect, peer_send, peer_close, peer_read, vars,
                       loopVars, wakeVars
  <2> QED
    BY <2>1, <2>2, <2>3, <2>4, <2>5, <2>6, <2>7, <2>8, <2>9, <2>10, <2>11
       DEF Next, Calls, LoopStep, Signals
<1> QED
  BY <1>1, <1>2, PTL DEF Spec, EL!Safety
==============================================================================
