----------------------------- MODULE KeventProofs -----------------------------
(***************************************************************************)
(* Theorems about KeventProactor, for every number of threads and sockets, *)
(* every choice of disposers and all sizes and bounds.                     *)
(***************************************************************************)
EXTENDS KeventProactor, SequenceTheorems, TLAPS

(* The sizes and bounds are natural numbers. *)
LEMMA Sizes ==
    /\ PipeCap \in Nat /\ BufferSize \in Nat /\ RcvBuf \in Nat /\ MaxDatagram \in Nat
    /\ MaxDisposes \in Nat
    /\ PipeCap > 0 /\ BufferSize > 0 /\ RcvBuf > 0
BY KeventAssumption

(* The kinds of sockets are disjoint, and no socket is a special value. *)
LEMMA Kinds ==
    /\ Loop \in Callers
    /\ \A s \in Socks : s # NULL /\ s # Wake /\ s # Object
    /\ \A s \in Streams : s \in Socks /\ s \notin Datagrams /\ s \notin Listeners
    /\ \A s \in Datagrams : s \in Socks /\ s \notin Streams /\ s \notin Listeners
    /\ \A s \in Listeners : s \in Socks /\ s \notin Streams /\ s \notin Datagrams
BY KeventAssumption DEF Socks, Callers

(* Each part of TypeOK speaks of one group of variables only. *)
LEMMA TypeFrames ==
    /\ LoopTypeOK /\ UNCHANGED loopVars => LoopTypeOK'
    /\ WakeTypeOK /\ UNCHANGED wakeVars => WakeTypeOK'
    /\ SockTypeOK /\ UNCHANGED sockVars => SockTypeOK'
    /\ NetTypeOK /\ UNCHANGED netVars => NetTypeOK'
    /\ RestTypeOK /\ UNCHANGED restVars => RestTypeOK'
<1>1. LoopTypeOK /\ UNCHANGED loopVars => LoopTypeOK'
  BY DEF LoopTypeOK, loopVars
<1>2. WakeTypeOK /\ UNCHANGED wakeVars => WakeTypeOK'
  BY DEF WakeTypeOK, wakeVars
<1>3. SockTypeOK /\ UNCHANGED sockVars => SockTypeOK'
  BY DEF SockTypeOK, sockVars, memVars
<1>4. NetTypeOK /\ UNCHANGED netVars => NetTypeOK'
  BY DEF NetTypeOK, netVars
<1>5. RestTypeOK /\ UNCHANGED restVars => RestTypeOK'
  BY DEF RestTypeOK, restVars, walkVars
<1> QED
  BY <1>1, <1>2, <1>3, <1>4, <1>5

LEMMA LinkedAreSocks == TypeOK => Linked \subseteq Socks
<1> SUFFICES ASSUME TypeOK, NEW i \in DOMAIN sockets PROVE sockets[i] \in Socks
  BY DEF Linked
<1>1. sockets \in Seq(Socks)
  BY DEF TypeOK, SockTypeOK
<1> QED
  BY <1>1

LEMMA PositionIs ==
    ASSUME TypeOK, NEW s \in Linked
    PROVE  /\ PositionOf(s) \in 1..Len(sockets) /\ sockets[PositionOf(s)] = s
           /\ Len(sockets) \in Nat /\ DOMAIN sockets = 1..Len(sockets)
<1>1. sockets \in Seq(Socks)
  BY DEF TypeOK, SockTypeOK
<1>2. PositionOf(s) \in DOMAIN sockets /\ sockets[PositionOf(s)] = s
  BY DEF Linked, PositionOf
<1> QED
  BY <1>1, <1>2

(* The pointers into the list are sockets of the list or NULL. *)
LEMMA NextSocketLinked ==
    ASSUME TypeOK, NEW s
    PROVE  NextSocket(s) \in Linked \cup {NULL}
<1>1. CASE s \in Linked /\ PositionOf(s) < Len(sockets)
  <2>1. PositionOf(s) + 1 \in DOMAIN sockets
    BY <1>1, PositionIs
  <2> QED
    BY <1>1, <2>1 DEF NextSocket, Linked
<1>2. CASE ~(s \in Linked /\ PositionOf(s) < Len(sockets))
  BY <1>2 DEF NextSocket
<1> QED
  BY <1>1, <1>2

LEMMA FirstSocketLinked == TypeOK => FirstSocket \in Linked \cup {NULL}
<1> SUFFICES ASSUME TypeOK, sockets # <<>> PROVE sockets[1] \in Linked
  BY DEF FirstSocket
<1>1. sockets \in Seq(Socks)
  BY DEF TypeOK, SockTypeOK
<1>2. 1 \in DOMAIN sockets
  BY <1>1
<1> QED
  BY <1>2 DEF Linked

(* A fault changes pc and exit only. *)
LEMMA CrashTypeOK ==
    ASSUME TypeOK, NEW why \in {"use after free", "wild pointer", "SIGPIPE"}, Crash(why)
    PROVE  TypeOK'
<1>1. LoopTypeOK'
  BY DEF TypeOK, Crash, LoopTypeOK
<1>2. RestTypeOK'
  BY DEF TypeOK, Crash, RestTypeOK, walkVars
<1> QED
  BY <1>1, <1>2, TypeFrames DEF TypeOK, Crash

(* open adds a socket to the list. *)
LEMMA LinkedAfterOpen ==
    ASSUME TypeOK, NEW s \in Socks, NEW given, proactor_net_socket_open(s, given)
    PROVE  Linked' = Linked \cup {s} /\ sockets' \in Seq(Socks)
<1>1. sockets \in Seq(Socks) /\ <<s>> \in Seq(Socks)
  BY DEF TypeOK, SockTypeOK
<1>2. sockets' = <<s>> \o sockets
  BY DEF proactor_net_socket_open
<1>3. /\ sockets' \in Seq(Socks)
      /\ Len(sockets') = Len(sockets) + 1
      /\ \A i \in 1..Len(sockets') :
            sockets'[i] = IF i = 1 THEN s ELSE sockets[i - 1]
  BY <1>1, <1>2
<1>4. DOMAIN sockets = 1..Len(sockets) /\ DOMAIN sockets' = 1..Len(sockets')
      /\ Len(sockets) \in Nat
  BY <1>1, <1>3
<1>5. ASSUME NEW x \in Linked' PROVE x \in Linked \cup {s}
  <2>1. PICK i \in DOMAIN sockets' : x = sockets'[i]
    BY <1>5 DEF Linked
  <2>2. i # 1 => i - 1 \in DOMAIN sockets
    BY <2>1, <1>3, <1>4
  <2> QED
    BY <2>1, <2>2, <1>3, <1>4 DEF Linked
<1>6. s \in Linked'
  <2>1. 1 \in DOMAIN sockets' /\ sockets'[1] = s
    BY <1>3, <1>4
  <2> QED
    BY <2>1 DEF Linked
<1>7. ASSUME NEW x \in Linked PROVE x \in Linked'
  <2>1. PICK i \in DOMAIN sockets : x = sockets[i]
    BY DEF Linked
  <2>2. i + 1 \in DOMAIN sockets' /\ sockets'[i + 1] = x
    BY <2>1, <1>3, <1>4
  <2> QED
    BY <2>2 DEF Linked
<1> QED
  BY <1>3, <1>5, <1>6, <1>7

(* Unlinking keeps the others on the list. *)
LEMMA LinkedAfterUnlink ==
    ASSUME TypeOK, NEW s, sockets' = Unlinked(s)
    PROVE  Linked' \subseteq Linked /\ Linked \ {s} \subseteq Linked' /\ sockets' \in Seq(Socks)
<1>0. sockets \in Seq(Socks)
  BY DEF TypeOK, SockTypeOK
<1>1. CASE s \notin Linked
  BY <1>0, <1>1 DEF Unlinked, Linked
<1>2. CASE s \in Linked
  <2> DEFINE p == PositionOf(s)
             n == Len(sockets)
  <2>1. p \in 1..n /\ sockets[p] = s /\ n \in Nat /\ DOMAIN sockets = 1..n
    BY <1>2, PositionIs
  <2>2. sockets' = [i \in 1..(n - 1) |-> sockets[IF i < p THEN i ELSE i + 1]]
    BY <1>2 DEF Unlinked
  <2> HIDE DEF p, n
  <2>3. \A i \in 1..(n - 1) : (IF i < p THEN i ELSE i + 1) \in 1..n
    BY <2>1
  <2>4. /\ DOMAIN sockets' = 1..(n - 1)
        /\ \A i \in 1..(n - 1) : sockets'[i] = sockets[IF i < p THEN i ELSE i + 1]
    BY <2>2
  <2>5. sockets' \in Seq(Socks)
    <3>1. n - 1 \in Nat
      BY <2>1
    <3>2. \A i \in 1..n : sockets[i] \in Socks
      BY <1>0, <2>1
    <3>3. sockets' \in [1..(n - 1) -> Socks]
      BY <2>2, <2>3, <3>2
    <3> QED
      BY <3>1, <3>3, SeqDef
  <2>6. Linked' \subseteq Linked
    <3> SUFFICES ASSUME NEW i \in DOMAIN sockets' PROVE sockets'[i] \in Linked
      BY DEF Linked
    <3> QED
      BY <2>1, <2>3, <2>4 DEF Linked
  <2>7. Linked \ {s} \subseteq Linked'
    <3> SUFFICES ASSUME NEW i \in DOMAIN sockets, sockets[i] # s PROVE sockets[i] \in Linked'
      BY DEF Linked
    <3>1. i \in 1..n /\ i # p
      BY <2>1
    <3>2. CASE i < p
      <4>1. i \in 1..(n - 1) /\ sockets'[i] = sockets[i]
        BY <2>1, <2>4, <3>1, <3>2
      <4> QED
        BY <2>4, <4>1 DEF Linked
    <3>3. CASE ~(i < p)
      <4>1. i - 1 \in 1..(n - 1) /\ ~(i - 1 < p) /\ (i - 1) + 1 = i
        BY <2>1, <3>1, <3>3
      <4>2. sockets'[i - 1] = sockets[i]
        BY <2>4, <4>1
      <4> QED
        BY <2>4, <4>1, <4>2 DEF Linked
    <3> QED
      BY <3>2, <3>3
  <2> QED
    BY <2>5, <2>6, <2>7
<1> QED
  BY <1>1, <1>2

(* What recvfrom returns lies within what the kernel holds and within the     *)
(* room that data_length says there is.                                       *)
LEMMA ReceivedBounds ==
    ASSUME TypeOK, NEW s \in Socks, recvfrom(s)
    PROVE  /\ Received(s) \in Nat
           /\ Received(s) <= data_length[s]
           /\ s \in Streams => Received(s) <= rx[s]
           /\ (s \in Streams /\ Received(s) = 0) => (rx[s] = 0 \/ data_length[s] = 0)
<1>1. data_length[s] \in Nat /\ rx[s] \in Nat
  BY Sizes DEF TypeOK, SockTypeOK, NetTypeOK
<1>2. CASE s \in Streams
  BY <1>1, <1>2 DEF Received, Least
<1>3. CASE s \notin Streams
  <2>1. queue[s] \in Seq(0..MaxDatagram) /\ queue[s] # <<>>
    BY <1>3 DEF recvfrom, TypeOK, NetTypeOK
  <2>2. Head(queue[s]) \in Nat
    BY <2>1, Sizes
  <2> QED
    BY <1>1, <1>3, <2>2 DEF Received, Least
<1> QED
  BY <1>2, <1>3

(* The kernel's buffers stay within their bounds when recvfrom takes from them. *)
LEMMA RecvfromTypeOK ==
    ASSUME TypeOK, NEW s \in Socks, recvfrom(s), UNCHANGED eof
    PROVE  NetTypeOK'
<1>1. CASE s \in Streams
  <2>1. rx[s] - Received(s) \in 0..RcvBuf
    BY <1>1, ReceivedBounds, Sizes DEF TypeOK, NetTypeOK
  <2>2. rx' = [rx EXCEPT ![s] = rx[s] - Received(s)] /\ queue' = queue
    BY <1>1, Kinds DEF recvfrom
  <2> QED
    BY <2>1, <2>2 DEF TypeOK, NetTypeOK
<1>2. CASE s \notin Streams
  <2>1. queue[s] \in Seq(0..MaxDatagram) /\ queue[s] # <<>>
    BY <1>2 DEF recvfrom, TypeOK, NetTypeOK
  <2>2. Tail(queue[s]) \in Seq(0..MaxDatagram)
    BY <2>1, HeadTailProperties
  <2>3. queue' = [queue EXCEPT ![s] = Tail(queue[s])] /\ rx' = rx
    BY <1>2 DEF recvfrom
  <2> QED
    BY <2>2, <2>3 DEF TypeOK, NetTypeOK
<1> QED
  BY <1>1, <1>2

LEMMA ReadyAreKevents == Ready \subseteq Kevents
BY DEF Ready, Kevents, Filters

(* When dispose calls close_cb it is at a socket. *)
WalkAt == \A t \in Callers : calling[t] = "dispose_close_cb" => dispose_cur[t] # NULL

TypeInv == TypeOK /\ WalkAt

LEMMA WalkAtFrame == WalkAt /\ UNCHANGED <<calling, dispose_cur>> => WalkAt'
BY DEF WalkAt

(* Releasing sockets keeps the types. *)
LEMMA ReleaseTypeOK ==
    ASSUME TypeOK, NEW S \in SUBSET Socks, Release(S), sockets' \in Seq(Socks)
    PROVE  SockTypeOK' /\ NetTypeOK'
<1>1. /\ freed' \subseteq Socks /\ fds' \subseteq Socks /\ allocated' \subseteq Socks \cup {Object}
      /\ filters' \in [Socks -> SUBSET Filters]
      /\ cbs' \in [Socks -> SUBSET {"accept", "receive", "close", "tick"}]
  BY DEF Release, Without, TypeOK, SockTypeOK
<1>2. data_length' \in [Socks -> 0..BufferSize] /\ rx' \in [Socks -> 0..RcvBuf]
  <2>1. 0 \in 0..BufferSize /\ 0 \in 0..RcvBuf
    BY Sizes
  <2> QED
    BY <2>1, Zenon DEF Release, Without, TypeOK, SockTypeOK, NetTypeOK
<1>3. queue' \in [Socks -> Seq(0..MaxDatagram)] /\ eof' \in [Socks -> BOOLEAN]
  <2>1. <<>> \in Seq(0..MaxDatagram)
    OBVIOUS
  <2> QED
    BY <2>1 DEF Release, Without, TypeOK, NetTypeOK
<1> QED
  BY <1>1, <1>2, <1>3 DEF SockTypeOK, NetTypeOK

(* A step inside dispose that leaves the sockets alone keeps the types, when   *)
(* its pointers are sockets or NULL.                                           *)
LEMMA DisposeStepTypeOK ==
    ASSUME TypeInv, NEW t \in Callers, NEW from,
           NEW to \in {"idle"} \cup DisposeStates, DisposeStep(t, from, to),
           SockTypeOK', NetTypeOK', kq' \in {"closed", "open"},
           wakeup_fds' \in {"-1", "open", "half", "closed"},
           dispose_cur' \in [Callers -> Socks \cup {NULL}],
           dispose_next' \in [Callers -> Socks \cup {NULL}],
           \A u \in Callers : u # t => dispose_cur'[u] = dispose_cur[u],
           to = "dispose_close_cb" => dispose_cur'[t] # NULL
    PROVE  TypeInv'
<1>1. calling \in [Callers -> {"idle", "stop", "wake"} \cup DisposeStates]
      /\ calling' = [calling EXCEPT ![t] = to]
  BY DEF TypeInv, TypeOK, WakeTypeOK, DisposeStep
<1>2. WakeTypeOK'
  BY <1>1 DEF TypeInv, TypeOK, WakeTypeOK, DisposeStep
<1>3. LoopTypeOK' /\ RestTypeOK'
  BY DEF TypeInv, TypeOK, LoopTypeOK, RestTypeOK, DisposeStep, loopVars
<1>4. WalkAt'
  BY <1>1 DEF TypeInv, WalkAt
<1> QED
  BY <1>2, <1>3, <1>4 DEF TypeInv, TypeOK, DisposeStep

LEMMA TypeInit == Init => TypeInv
<1> SUFFICES ASSUME Init PROVE TypeInv
  OBVIOUS
<1>1. LoopTypeOK /\ WalkAt /\ ticked \subseteq Socks
  BY DEF Init, LoopTypeOK, WalkAt
<1>2. WakeTypeOK
  <2>1. pipe \in 0..PipeCap
    BY Sizes DEF Init
  <2> QED
    BY <2>1 DEF Init, WakeTypeOK
<1>3. SockTypeOK
  <2>1. data_length \in [Socks -> 0..BufferSize]
    BY Sizes DEF Init
  <2> QED
    BY <2>1 DEF Init, SockTypeOK
<1>4. NetTypeOK
  BY Sizes DEF Init, NetTypeOK
<1>5. RestTypeOK
  <2>1. disposes \in 0..MaxDisposes
    BY Sizes DEF Init
  <2> QED
    BY <2>1 DEF Init, RestTypeOK
<1> QED
  BY <1>1, <1>2, <1>3, <1>4, <1>5 DEF TypeInv, TypeOK

LEMMA TypeStep == TypeInv /\ [Next]_vars => TypeInv'
<1> SUFFICES ASSUME TypeInv, [Next]_vars PROVE TypeInv'
  OBVIOUS
<1>0. TypeOK /\ WalkAt
  BY DEF TypeInv
<1>1. CASE proactor_net_create
  <2>1. WakeTypeOK'
    <3>1. pipe' = 0 /\ pipe' \in 0..PipeCap
      BY <1>1, Sizes DEF proactor_net_create
    <3> QED
      BY <1>0, <1>1, <3>1 DEF proactor_net_create, TypeOK, WakeTypeOK
  <2>2. LoopTypeOK' /\ RestTypeOK'
    BY <1>0, <1>1 DEF proactor_net_create, TypeOK, LoopTypeOK, RestTypeOK, CreateStatus, walkVars
  <2>3. SockTypeOK'
    BY <1>0, <1>1 DEF proactor_net_create, TypeOK, SockTypeOK
  <2>4. WalkAt'
    BY <1>0, <1>1, WalkAtFrame DEF proactor_net_create, walkVars
  <2> QED
    BY <1>0, <1>1, <2>1, <2>2, <2>3, <2>4, TypeFrames DEF proactor_net_create, TypeOK, TypeInv
<1>2. ASSUME NEW s \in Socks, NEW given \in SUBSET CallbacksOf(s),
             proactor_net_socket_open(s, given)
      PROVE  TypeInv'
  <2>1. SockTypeOK'
    <3>1. given \subseteq {"accept", "receive", "close", "tick"}
      BY DEF CallbacksOf
    <3> QED
      BY <1>0, <1>2, <3>1, LinkedAfterOpen DEF proactor_net_socket_open, TypeOK, SockTypeOK
  <2>2. WalkAt'
    BY <1>0, <1>2, WalkAtFrame DEF proactor_net_socket_open, wakeVars, restVars, walkVars
  <2> QED
    BY <1>0, <1>2, <2>1, <2>2, TypeFrames DEF proactor_net_socket_open, TypeOK, TypeInv
<1>3. ASSUME NEW s \in Socks, start_receive(s) PROVE TypeInv'
  <2>1. SockTypeOK'
    <3>1. filters' \in [Socks -> SUBSET Filters]
      BY <1>0, <1>3 DEF start_receive, TypeOK, SockTypeOK, Filters
    <3>2. data_length' \in [Socks -> 0..BufferSize]
      BY <1>0, <1>3, Sizes DEF start_receive, TypeOK, SockTypeOK
    <3> QED
      BY <1>0, <1>3, <3>1, <3>2 DEF start_receive, TypeOK, SockTypeOK, memVars
  <2>2. WalkAt'
    BY <1>0, <1>3, WalkAtFrame DEF start_receive, wakeVars, restVars, walkVars
  <2> QED
    BY <1>0, <1>3, <2>1, <2>2, TypeFrames DEF start_receive, TypeOK, TypeInv
<1>4. ASSUME NEW s \in Socks, start_send(s) PROVE TypeInv'
  <2>1. SockTypeOK'
    BY <1>0, <1>4 DEF start_send, TypeOK, SockTypeOK, Filters, memVars
  <2>2. WalkAt'
    BY <1>0, <1>4, WalkAtFrame DEF start_send, wakeVars, restVars, walkVars
  <2> QED
    BY <1>0, <1>4, <2>1, <2>2, TypeFrames DEF start_send, TypeOK, TypeInv
<1>5. ASSUME NEW s \in Socks, proactor_net_socket_close(s) PROVE TypeInv'
  <2>1. SockTypeOK' /\ NetTypeOK'
    <3>1. sockets' \in Seq(Socks)
      BY <1>0, <1>5, LinkedAfterUnlink DEF proactor_net_socket_close
    <3> QED
      BY <1>0, <1>5, <3>1, ReleaseTypeOK DEF proactor_net_socket_close
  <2>2. WalkAt'
    BY <1>0, <1>5, WalkAtFrame DEF proactor_net_socket_close, wakeVars, restVars, walkVars
  <2> QED
    BY <1>0, <1>5, <2>1, <2>2, TypeFrames DEF proactor_net_socket_close, TypeOK, TypeInv
<1>6. ASSUME NEW t \in Callers, proactor_net_stop(t) \/ proactor_net_wake(t)
      PROVE  TypeInv'
  <2>1. WakeTypeOK'
    BY <1>0, <1>6 DEF proactor_net_stop, proactor_net_wake, TypeOK, WakeTypeOK
  <2>2. WalkAt'
    BY <1>0, <1>6 DEF proactor_net_stop, proactor_net_wake, TypeOK, WakeTypeOK, WalkAt,
       restVars, walkVars
  <2> QED
    BY <1>0, <1>6, <2>1, <2>2, TypeFrames DEF proactor_net_stop, proactor_net_wake, TypeOK,
       TypeInv
<1>7. ASSUME NEW t \in Callers, wake_write(t) PROVE TypeInv'
  <2>1. WakeTypeOK'
    <3>1. pipe' \in 0..PipeCap
      BY <1>0, <1>7, Sizes DEF wake_write, TypeOK, WakeTypeOK
    <3>2. calling' = [calling EXCEPT ![t] = AfterWakeWrite(t)]
      BY <1>7 DEF wake_write
    <3> QED
      BY <1>0, <1>7, <3>1, <3>2 DEF wake_write, TypeOK, WakeTypeOK, AfterWakeWrite, DisposeStates
  <2>2. WalkAt'
    BY <1>0, <1>7 DEF wake_write, AfterWakeWrite, TypeOK, WakeTypeOK, WalkAt, restVars, walkVars
  <2> QED
    BY <1>0, <1>7, <2>1, <2>2, TypeFrames DEF wake_write, TypeOK, TypeInv
<1>8. ASSUME NEW why \in {"use after free", "wild pointer", "SIGPIPE"}, Crash(why)
      PROVE  TypeInv'
  <2>1. WalkAt'
    BY <1>0, <1>8, WalkAtFrame DEF Crash, wakeVars, walkVars
  <2> QED
    BY <1>0, <1>8, <2>1, CrashTypeOK DEF TypeInv
<1>9. ASSUME NEW t \in Callers, proactor_net_dispose(t) PROVE TypeInv'
  <2>1. WakeTypeOK'
    BY <1>0, <1>9 DEF proactor_net_dispose, TypeOK, WakeTypeOK, DisposeStates
  <2>2. RestTypeOK'
    <3>1. disposes' \in 0..MaxDisposes
      <4>1. disposes \in 0..MaxDisposes /\ disposes < MaxDisposes /\ disposes' = disposes + 1
        BY <1>0, <1>9 DEF proactor_net_dispose, TypeOK, RestTypeOK
      <4> QED
        BY <4>1, Sizes
    <3> QED
      BY <1>0, <1>9, <3>1 DEF proactor_net_dispose, TypeOK, RestTypeOK
  <2>3. WalkAt'
    BY <1>0, <1>9 DEF proactor_net_dispose, TypeOK, WakeTypeOK, WalkAt
  <2> QED
    BY <1>0, <1>9, <2>1, <2>2, <2>3, TypeFrames DEF proactor_net_dispose, TypeOK, TypeInv
<1>10. ASSUME NEW t \in Callers,
              dispose_event_cb(t) \/ dispose_socket(t) \/ dispose_fds(t)
       PROVE  TypeInv'
  <2>0. /\ dispose_cur \in [Callers -> Socks \cup {NULL}]
        /\ dispose_next \in [Callers -> Socks \cup {NULL}]
        /\ kq \in {"closed", "open"} /\ wakeup_fds \in {"-1", "open", "half", "closed"}
        /\ Linked \cup {NULL} \subseteq Socks \cup {NULL}
    BY <1>0, LinkedAreSocks DEF TypeOK, RestTypeOK, WakeTypeOK
  <2>1. SockTypeOK' /\ NetTypeOK'
    BY <1>0, <1>10, TypeFrames DEF dispose_event_cb, dispose_socket, dispose_fds, TypeOK
  <2>2. CASE dispose_event_cb(t)
    <3>1. dispose_cur' \in [Callers -> Socks \cup {NULL}]
      BY <1>0, <2>0, <2>2, FirstSocketLinked DEF dispose_event_cb
    <3> QED
      BY <2>0, <2>1, <2>2, <3>1, DisposeStepTypeOK DEF dispose_event_cb, DisposeStates
  <2>3. CASE dispose_socket(t) /\ dispose_cur[t] = NULL
    BY <2>0, <2>1, <2>3, DisposeStepTypeOK DEF dispose_socket, DisposeStates
  <2>4. CASE dispose_socket(t) /\ dispose_cur[t] # NULL
    <3>1. dispose_next' \in [Callers -> Socks \cup {NULL}]
      BY <1>0, <2>0, <2>4, NextSocketLinked DEF dispose_socket
    <3> QED
      BY <2>0, <2>1, <2>4, <3>1, DisposeStepTypeOK DEF dispose_socket, DisposeStates
  <2>5. CASE dispose_fds(t)
    BY <2>0, <2>1, <2>5, DisposeStepTypeOK DEF dispose_fds, DisposeStates
  <2> QED
    BY <1>10, <2>2, <2>3, <2>4, <2>5
<1>11. ASSUME NEW t \in Callers, dispose_close_cb(t) PROVE TypeInv'
  <2>1. dispose_cur[t] \in Socks
    BY <1>0, <1>11 DEF dispose_close_cb, WalkAt, TypeOK, RestTypeOK
  <2>2. SockTypeOK' /\ NetTypeOK'
    <3>1. sockets' \in Seq(Socks)
      BY <1>0, <1>11, LinkedAfterUnlink DEF dispose_close_cb
    <3> QED
      BY <1>0, <1>11, <2>1, <3>1, ReleaseTypeOK DEF dispose_close_cb
  <2>3. WalkAt'
    BY <1>0, <1>11, WalkAtFrame DEF dispose_close_cb, wakeVars, restVars, walkVars
  <2> QED
    BY <1>0, <1>11, <2>2, <2>3, TypeFrames DEF dispose_close_cb, TypeOK, TypeInv
<1>12. ASSUME NEW t \in Callers, dispose_free(t) PROVE TypeInv'
  <2>0. /\ dispose_cur \in [Callers -> Socks \cup {NULL}]
        /\ dispose_next \in [Callers -> Socks \cup {NULL}]
        /\ kq \in {"closed", "open"} /\ wakeup_fds \in {"-1", "open", "half", "closed"}
    BY <1>0 DEF TypeOK, RestTypeOK, WakeTypeOK
  <2>1. dispose_cur[t] \in Socks
    BY <1>0, <1>12, <2>0 DEF dispose_free, DisposeStep, WalkAt
  <2>2. SockTypeOK' /\ NetTypeOK'
    <3>1. sockets' \in Seq(Socks)
      BY <1>0, <1>12 DEF dispose_free, TypeOK, SockTypeOK
    <3> QED
      BY <1>0, <1>12, <2>1, <3>1, ReleaseTypeOK DEF dispose_free, FreedByWalk
  <2>3. dispose_cur' \in [Callers -> Socks \cup {NULL}]
    BY <1>12, <2>0 DEF dispose_free
  <2> QED
    BY <1>12, <2>0, <2>2, <2>3, DisposeStepTypeOK DEF dispose_free, DisposeStates
<1>13. CASE proactor_net_run \/ run_check \/ kevent_interrupted \/ events_done \/ tick
            \/ kevent \/ kevent_error
  <2>1. LoopTypeOK'
    BY <1>0, <1>13, ReadyAreKevents DEF proactor_net_run, run_check, kevent_interrupted,
       events_done, tick, kevent, kevent_error, AfterEvents, TypeOK, LoopTypeOK, RunStates,
       CallbackStates
  <2>2. UNCHANGED <<wakeVars, sockVars, netVars, restVars, ticked>>
    BY <1>13 DEF proactor_net_run, run_check, kevent_interrupted, events_done, tick, kevent,
       kevent_error
  <2>3. WalkAt'
    BY <1>0, <2>2, WalkAtFrame DEF wakeVars, restVars, walkVars
  <2> QED
    BY <1>0, <2>1, <2>2, <2>3, TypeFrames DEF TypeOK, TypeInv
<1>14. CASE wake_read
  <2>1. LoopTypeOK'
    BY <1>0, <1>14 DEF wake_read, Done, TypeOK, LoopTypeOK
  <2>2. WakeTypeOK'
    <3>1. pipe' \in 0..PipeCap
      BY <1>0, <1>14, Sizes DEF wake_read, TypeOK, WakeTypeOK
    <3> QED
      BY <1>0, <1>14, <3>1 DEF wake_read, TypeOK, WakeTypeOK
  <2>3. WalkAt'
    BY <1>0, <1>14, WalkAtFrame DEF wake_read, restVars, walkVars
  <2> QED
    BY <1>0, <1>14, <2>1, <2>2, <2>3, TypeFrames DEF wake_read, TypeOK, TypeInv
<1>15. CASE stale_event
  BY <1>8, <1>15 DEF stale_event
<1>16. ASSUME NEW t \in Callers, wake_broken_pipe(t) \/ dispose_stale(t) PROVE TypeInv'
  BY <1>8, <1>16 DEF wake_broken_pipe, dispose_stale
<1>17. ASSUME NEW s \in Socks, process_accept_ready(s) PROVE TypeInv'
  <2>1. LoopTypeOK'
    BY <1>0, <1>17, Kinds DEF process_accept_ready, Handle, Done, TypeOK, LoopTypeOK, RunStates,
       CallbackStates, EventCallbacks
  <2>2. SockTypeOK'
    <3>1. CASE UNCHANGED <<allocated, fds, cbs>>
      BY <1>0, <1>17, <3>1 DEF process_accept_ready, Handle, TypeOK, SockTypeOK
    <3>2. CASE ~UNCHANGED <<allocated, fds, cbs>>
      <4>1. PICK c \in Streams :
              /\ allocated' = allocated \cup {c}
              /\ fds' = fds \cup {c} \/ fds' = fds
              /\ (\E given \in SUBSET CallbacksOf(c) : cbs' = [cbs EXCEPT ![c] = given])
                 \/ cbs' = cbs
        BY <1>17, <3>2 DEF process_accept_ready
      <4>2. c \in Socks /\ \A given \in SUBSET CallbacksOf(c) :
                              given \subseteq {"accept", "receive", "close", "tick"}
        BY Kinds DEF CallbacksOf
      <4> QED
        BY <1>0, <1>17, <4>1, <4>2 DEF process_accept_ready, Handle, TypeOK, SockTypeOK
    <3> QED
      BY <3>1, <3>2
  <2>3. NetTypeOK'
    <3>0. rx \in [Socks -> 0..RcvBuf] /\ (rx[s] > 0 => rx[s] - 1 \in 0..RcvBuf)
      BY <1>0, Sizes DEF TypeOK, NetTypeOK
    <3>1. rx' \in [Socks -> 0..RcvBuf]
      <4>1. \/ rx[s] > 0 /\ rx' = [rx EXCEPT ![s] = rx[s] - 1]
            \/ rx' = rx
        BY <1>17 DEF process_accept_ready
      <4> QED
        BY <3>0, <4>1
    <3> QED
      BY <1>0, <1>17, <3>1 DEF process_accept_ready, TypeOK, NetTypeOK
  <2>4. WalkAt'
    BY <1>0, <1>17, WalkAtFrame DEF process_accept_ready, Handle, wakeVars, restVars, walkVars
  <2> QED
    BY <1>0, <1>17, <2>1, <2>2, <2>3, <2>4, TypeFrames DEF process_accept_ready, Handle, TypeOK,
       TypeInv
<1>18. ASSUME NEW s \in Socks, process_read_ready(s) PROVE TypeInv'
  <2>1. LoopTypeOK'
    BY <1>0, <1>18 DEF process_read_ready, Handle, Done, TypeOK, LoopTypeOK, RunStates,
       CallbackStates, EventCallbacks
  <2>2. WalkAt'
    BY <1>0, <1>18, WalkAtFrame DEF process_read_ready, Handle, wakeVars, restVars, walkVars
  <2>3. CASE "receive" \notin cbs[s]
    <3>1. SockTypeOK' /\ NetTypeOK'
      BY <1>0, <1>18, <2>3, TypeFrames DEF process_read_ready, Handle, TypeOK, sockVars, memVars,
         netVars
    <3> QED
      BY <1>0, <1>18, <2>1, <2>2, <3>1, TypeFrames DEF process_read_ready, Handle, TypeOK,
         TypeInv
  <2>4. CASE "receive" \in cbs[s]
    <3>1. recvfrom(s) /\ UNCHANGED eof
      BY <1>18, <2>4 DEF process_read_ready
    <3>2. NetTypeOK'
      BY <1>0, <3>1, RecvfromTypeOK
    <3>3. SockTypeOK'
      <4>1. Received(s) \in 0..BufferSize
        BY <1>0, <3>1, ReceivedBounds, Sizes DEF TypeOK, SockTypeOK
      <4>2. data_length' \in [Socks -> 0..BufferSize]
        BY <1>0, <1>18, <2>4, <4>1 DEF process_read_ready, LengthReceived, TypeOK, SockTypeOK
      <4> QED
        BY <1>0, <1>18, <4>2 DEF process_read_ready, Handle, TypeOK, SockTypeOK
    <3> QED
      BY <1>0, <1>18, <2>1, <2>2, <3>2, <3>3, TypeFrames DEF process_read_ready, Handle, TypeOK,
         TypeInv
  <2> QED
    BY <2>3, <2>4
<1>19. ASSUME NEW s \in Socks, read_error(s) \/ process_write_ready(s) PROVE TypeInv'
  <2>1. LoopTypeOK'
    BY <1>0, <1>19 DEF read_error, process_write_ready, Handle, Done, TypeOK, LoopTypeOK
  <2>2. UNCHANGED <<wakeVars, sockVars, netVars, restVars, ticked>>
    BY <1>19 DEF read_error, process_write_ready, Handle, sockVars, memVars
  <2>3. WalkAt'
    BY <1>0, <2>2, WalkAtFrame DEF wakeVars, restVars, walkVars
  <2> QED
    BY <1>0, <2>1, <2>2, <2>3, TypeFrames DEF TypeOK, TypeInv
<1>20. CASE sock_ticks \/ sock_tick \/ callback_return
  <2>1. ASSUME NEW why \in {"use after free", "wild pointer"}, Crash(why) PROVE TypeInv'
    BY <1>8, <2>1
  <2>2. CASE ~Crash("use after free") /\ ~Crash("wild pointer")
    <3>1. NextSocket(cur) \in Socks \cup {NULL}
      BY <1>0, NextSocketLinked, LinkedAreSocks
    <3>2. UNCHANGED <<batch, wakeVars, sockVars, netVars, restVars>>
      BY <1>20, <2>2 DEF sock_ticks, sock_tick, callback_return
    <3>3. LoopTypeOK' /\ ticked' \subseteq Socks
      BY <1>0, <1>20, <2>2, <3>1 DEF sock_ticks, sock_tick, callback_return, TypeOK, LoopTypeOK,
         RunStates, CallbackStates, EventCallbacks
    <3>4. WalkAt'
      BY <1>0, <3>2, WalkAtFrame DEF wakeVars, restVars, walkVars
    <3> QED
      BY <1>0, <3>2, <3>3, <3>4, TypeFrames DEF TypeOK, TypeInv
  <2> QED
    BY <2>1, <2>2
<1>21. ASSUME NEW s \in Socks, peer_send(s) \/ peer_close(s) PROVE TypeInv'
  <2>1. NetTypeOK'
    <3>1. CASE peer_send(s)
      <4>1. rx[s] + 1 \in 0..RcvBuf
        BY <1>0, <3>1, Sizes DEF peer_send, TypeOK, NetTypeOK
      <4>2. rx' = [rx EXCEPT ![s] = rx[s] + 1] /\ UNCHANGED <<queue, eof>>
        BY <3>1 DEF peer_send
      <4> QED
        BY <1>0, <4>1, <4>2 DEF TypeOK, NetTypeOK
    <3>2. CASE peer_close(s)
      BY <1>0, <3>2 DEF peer_close, TypeOK, NetTypeOK
    <3> QED
      BY <1>21, <3>1, <3>2
  <2>2. WalkAt'
    BY <1>0, <1>21, WalkAtFrame DEF peer_send, peer_close, wakeVars, restVars, walkVars
  <2> QED
    BY <1>0, <1>21, <2>1, <2>2, TypeFrames DEF peer_send, peer_close, TypeOK, TypeInv
<1>22. ASSUME NEW s \in Socks, NEW n \in 0..MaxDatagram, peer_datagram(s, n) PROVE TypeInv'
  <2>1. NetTypeOK'
    <3>1. Append(queue[s], n) \in Seq(0..MaxDatagram)
      BY <1>0 DEF TypeOK, NetTypeOK
    <3> QED
      BY <1>0, <1>22, <3>1 DEF peer_datagram, TypeOK, NetTypeOK
  <2>2. WalkAt'
    BY <1>0, <1>22, WalkAtFrame DEF peer_datagram, wakeVars, restVars, walkVars
  <2> QED
    BY <1>0, <1>22, <2>1, <2>2, TypeFrames DEF peer_datagram, TypeOK, TypeInv
<1>23. CASE UNCHANGED vars
  BY <1>0, <1>23, TypeFrames, WalkAtFrame DEF vars, wakeVars, restVars, walkVars, TypeOK, TypeInv
<1> QED
  BY <1>1, <1>2, <1>3, <1>4, <1>5, <1>6, <1>7, <1>9, <1>10, <1>11, <1>12, <1>13, <1>14,
     <1>15, <1>16, <1>17, <1>18, <1>19, <1>20, <1>21, <1>22, <1>23
  DEF Next, Setup, Calls, Dispose, LoopStep, Errors, Peers

(* TypeOK holds in every state of proactor_net_kevent.c's model: a received    *)
(* length never exceeds the buffer it went into, and the pointers of the tick  *)
(* loop and of dispose are NULL or a socket.                                   *)
THEOREM TypeCorrect == Spec => []TypeOK
<1>1. TypeInv => TypeOK
  BY DEF TypeInv
<1> QED
  BY TypeInit, TypeStep, <1>1, PTL DEF Spec

-------------------------------------------------------------------------------
(* Who moves what: the variables of the list, of memory, of dispose and of the *)
(* descriptors are each written by a few actions.                              *)

Opens == \E s \in Socks : \E given \in SUBSET CallbacksOf(s) : proactor_net_socket_open(s, given)
Starts == \E s \in Socks : start_receive(s) \/ start_send(s)
Closes == \E s \in Socks : proactor_net_socket_close(s)
Accepts == \E s \in Socks : process_accept_ready(s)

MemMover ==
    \/ proactor_net_create \/ Opens \/ Starts \/ Closes \/ Accepts
    \/ \E t \in Callers : \/ dispose_event_cb(t) \/ dispose_socket(t)
                          \/ dispose_close_cb(t) \/ dispose_free(t)

CallMover ==
    \E t \in Callers : \/ proactor_net_stop(t) \/ proactor_net_wake(t) \/ wake_write(t)
                       \/ proactor_net_dispose(t) \/ dispose_event_cb(t)
                       \/ dispose_socket(t) \/ dispose_free(t) \/ dispose_fds(t)

Crashes ==
    \/ stale_event \/ Crash("wild pointer")
    \/ (sock_tick \/ callback_return) /\ Crash("use after free")
    \/ \E t \in Callers : wake_broken_pipe(t) \/ dispose_stale(t)

LEMMA Movers ==
    ASSUME [Next]_vars
    PROVE  /\ UNCHANGED <<sockets, allocated, freed, fds, filters, dispose_cur, dispose_next>>
              \/ MemMover
           /\ UNCHANGED calling \/ CallMover
           /\ UNCHANGED disposes \/ \E t \in Callers : proactor_net_dispose(t)
           /\ \/ UNCHANGED <<kq, wakeup_fds>>
              \/ proactor_net_create \/ \E t \in Callers : dispose_fds(t)
           /\ UNCHANGED <<watched, status>> \/ proactor_net_create
           /\ UNCHANGED exit \/ Crashes
<1>1. CASE Setup
  BY <1>1 DEF Setup, MemMover, Opens, Starts, Closes, proactor_net_create,
     proactor_net_socket_open, start_receive, start_send, proactor_net_socket_close,
     loopVars, wakeVars, restVars, walkVars
<1>2. CASE Calls
  BY <1>2 DEF Calls, CallMover, Crashes, proactor_net_stop, proactor_net_wake, wake_write,
     wake_broken_pipe, Crash, loopVars, wakeVars, sockVars, memVars, restVars, walkVars
<1>3. CASE Dispose
  <2>1. PICK t \in Callers : \/ proactor_net_dispose(t) \/ dispose_event_cb(t)
                             \/ dispose_socket(t) \/ dispose_close_cb(t)
                             \/ dispose_free(t) \/ dispose_stale(t) \/ dispose_fds(t)
    BY <1>3 DEF Dispose
  <2>2. CASE proactor_net_dispose(t)
    BY <2>2 DEF CallMover, proactor_net_dispose, sockVars, memVars
  <2>3. CASE dispose_event_cb(t)
    BY <2>3 DEF CallMover, MemMover, dispose_event_cb, DisposeStep
  <2>4. CASE dispose_socket(t)
    BY <2>4 DEF CallMover, MemMover, dispose_socket, DisposeStep
  <2>5. CASE dispose_close_cb(t)
    BY <2>5 DEF MemMover, dispose_close_cb, wakeVars, restVars, walkVars
  <2>6. CASE dispose_free(t)
    BY <2>6 DEF CallMover, MemMover, dispose_free, DisposeStep
  <2>7. CASE dispose_stale(t)
    BY <2>7 DEF Crashes, dispose_stale, Crash, wakeVars, sockVars, memVars, walkVars
  <2>8. CASE dispose_fds(t)
    BY <2>8 DEF CallMover, dispose_fds, DisposeStep, sockVars, memVars
  <2> QED
    BY <2>1, <2>2, <2>3, <2>4, <2>5, <2>6, <2>7, <2>8
<1>4. CASE Accepts
  BY <1>4 DEF MemMover, Accepts, process_accept_ready, Handle, wakeVars, restVars, walkVars
<1>5. CASE (proactor_net_run \/ LoopStep \/ callback_return) /\ ~Accepts
  <2>1. UNCHANGED <<sockets, allocated, freed, fds, filters, dispose_cur, dispose_next, calling,
                    disposes, kq, wakeup_fds, watched, status>>
    BY <1>5 DEF proactor_net_run, LoopStep, Accepts, callback_return, run_check, kevent,
       kevent_error, wake_read, stale_event, process_read_ready, process_write_ready, Handle,
       events_done, tick, sock_ticks, sock_tick, Crash, wakeVars, sockVars, memVars, restVars,
       walkVars
  <2>2. UNCHANGED exit \/ Crashes
    BY <1>5 DEF Crashes, proactor_net_run, LoopStep, Accepts, callback_return, run_check, kevent,
       kevent_error, wake_read, process_read_ready, process_write_ready, Handle, events_done,
       tick, sock_ticks, sock_tick, restVars
  <2> QED
    BY <2>1, <2>2
<1>6. CASE Errors \/ Peers \/ UNCHANGED vars
  BY <1>6 DEF Errors, Peers, kevent_interrupted, read_error, Handle, peer_send, peer_close,
     peer_datagram, vars, wakeVars, sockVars, memVars, restVars, walkVars
<1> QED
  BY <1>1, <1>2, <1>3, <1>4, <1>5, <1>6 DEF Next

-------------------------------------------------------------------------------
(* Memory. *)

NoDuplicates == \A i, j \in DOMAIN sockets : sockets[i] = sockets[j] => i = j

(* What is listed, open, freed or pointed to was allocated; a freed socket is  *)
(* not open; a registered one is; and a socket of a kind that accept does not  *)
(* make is in the list until it is freed.                                      *)
MemInv ==
    /\ Linked \subseteq allocated /\ fds \subseteq allocated /\ freed \subseteq allocated
    /\ fds \cap freed = {}
    /\ \A t \in Callers : dispose_cur[t] \in allocated \cup {NULL}
    /\ \A t \in Callers : dispose_next[t] \in allocated \cup {NULL}
    /\ \A s \in Socks : filters[s] # {} => s \in fds
    /\ \A s \in allocated \cap (Listeners \cup Datagrams) : s \in Linked \cup freed
    /\ NoDuplicates

(* Unlinking takes the one place of a socket away. *)
LEMMA UnlinkedOnce ==
    ASSUME TypeOK, NoDuplicates, NEW s, sockets' = Unlinked(s)
    PROVE  NoDuplicates' /\ s \notin Linked'
<1>1. CASE s \notin Linked
  BY <1>1 DEF Unlinked, Linked, NoDuplicates
<1>2. CASE s \in Linked
  <2> DEFINE p == PositionOf(s)
             n == Len(sockets)
             From(i) == IF i < p THEN i ELSE i + 1
  <2>1. p \in 1..n /\ sockets[p] = s /\ n \in Nat /\ DOMAIN sockets = 1..n
    BY <1>2, PositionIs
  <2>2. sockets' = [i \in 1..(n - 1) |-> sockets[From(i)]]
    BY <1>2 DEF Unlinked
  <2> HIDE DEF p, n
  <2>3. \A i \in 1..(n - 1) : From(i) \in 1..n /\ From(i) # p
    BY <2>1
  <2>4. \A i, j \in 1..(n - 1) : From(i) = From(j) => i = j
    BY <2>1
  <2> HIDE DEF From
  <2>5. DOMAIN sockets' = 1..(n - 1) /\ \A i \in 1..(n - 1) : sockets'[i] = sockets[From(i)]
    BY <2>2
  <2>6. NoDuplicates'
    BY <2>1, <2>3, <2>4, <2>5 DEF NoDuplicates
  <2>7. s \notin Linked'
    BY <2>1, <2>3, <2>5 DEF NoDuplicates, Linked
  <2> QED
    BY <2>6, <2>7
<1> QED
  BY <1>1, <1>2

LEMMA OpenedOnce ==
    ASSUME TypeOK, NoDuplicates, NEW s \in Socks, s \notin Linked, sockets' = <<s>> \o sockets
    PROVE  NoDuplicates'
<1>1. sockets \in Seq(Socks) /\ <<s>> \in Seq(Socks)
  BY DEF TypeOK, SockTypeOK
<1>2. /\ sockets' \in Seq(Socks)
      /\ Len(sockets') = Len(sockets) + 1
      /\ \A i \in 1..Len(sockets') : sockets'[i] = IF i = 1 THEN s ELSE sockets[i - 1]
  BY <1>1
<1>3. DOMAIN sockets = 1..Len(sockets) /\ DOMAIN sockets' = 1..Len(sockets')
      /\ Len(sockets) \in Nat
  BY <1>1, <1>2
<1>4. \A i \in DOMAIN sockets' : i # 1 => i - 1 \in DOMAIN sockets /\ sockets'[i] \in Linked
  <2> SUFFICES ASSUME NEW i \in DOMAIN sockets', i # 1
               PROVE  i - 1 \in DOMAIN sockets /\ sockets'[i] \in Linked
    OBVIOUS
  <2>1. i - 1 \in DOMAIN sockets /\ sockets'[i] = sockets[i - 1]
    BY <1>2, <1>3
  <2> QED
    BY <2>1 DEF Linked
<1> SUFFICES ASSUME NEW i \in DOMAIN sockets', NEW j \in DOMAIN sockets', sockets'[i] = sockets'[j]
             PROVE  i = j
  BY DEF NoDuplicates
<1>5. CASE i = 1
  BY <1>2, <1>3, <1>4, <1>5
<1>6. CASE j = 1
  BY <1>2, <1>3, <1>4, <1>6
<1>7. CASE i # 1 /\ j # 1
  <2>1. sockets[i - 1] = sockets[j - 1]
    BY <1>2, <1>3, <1>7
  <2>2. i - 1 = j - 1
    BY <1>4, <1>7, <2>1 DEF NoDuplicates
  <2> QED
    BY <1>3, <2>2
<1> QED
  BY <1>5, <1>6, <1>7

(* Releasing sockets that are allocated, whether or not they are unlinked. *)
LEMMA ReleaseMem ==
    ASSUME TypeOK, MemInv, NEW S \in SUBSET (Socks \cap allocated), Release(S),
           Linked' \subseteq Linked, Linked \ S \subseteq Linked', NoDuplicates',
           \A t \in Callers : dispose_cur'[t] \in {dispose_cur[t], dispose_next[t]},
           UNCHANGED dispose_next
    PROVE  MemInv'
<1>1. /\ allocated' = allocated /\ freed' = freed \cup S /\ fds' = fds \ S
      /\ \A s \in Socks : filters'[s] = IF s \in S THEN {} ELSE filters[s]
  BY DEF Release, Without
<1> QED
  BY <1>1 DEF MemInv

LEMMA MemStep == TypeInv /\ MemInv /\ [Next]_vars => MemInv'
<1> SUFFICES ASSUME TypeInv, MemInv, [Next]_vars PROVE MemInv'
  OBVIOUS
<1>0. /\ TypeOK /\ WalkAt /\ filters \in [Socks -> SUBSET Filters] /\ Linked \subseteq Socks
      /\ dispose_cur \in [Callers -> Socks \cup {NULL}]
      /\ dispose_next \in [Callers -> Socks \cup {NULL}]
  BY LinkedAreSocks DEF TypeInv, TypeOK, SockTypeOK, RestTypeOK
<1>1. CASE UNCHANGED <<sockets, allocated, freed, fds, filters, dispose_cur, dispose_next>>
  BY <1>1 DEF MemInv, Linked, NoDuplicates
<1>2. CASE proactor_net_create
  <2>1. /\ allocated' = allocated \cup {Object} /\ Object \notin Listeners \cup Datagrams
        /\ UNCHANGED <<sockets, freed, fds, filters, dispose_cur, dispose_next>>
    BY <1>2, Kinds DEF proactor_net_create, walkVars
  <2>2. Linked' = Linked /\ NoDuplicates'
    BY <2>1 DEF MemInv, Linked, NoDuplicates
  <2> QED
    BY <2>1, <2>2 DEF MemInv
<1>3. ASSUME NEW s \in Socks, NEW given \in SUBSET CallbacksOf(s),
             proactor_net_socket_open(s, given)
      PROVE  MemInv'
  <2>1. /\ allocated' = allocated \cup {s} /\ fds' = fds \cup {s} /\ s \notin allocated
        /\ UNCHANGED <<freed, filters, dispose_cur, dispose_next>>
    BY <1>3 DEF proactor_net_socket_open, restVars, walkVars
  <2>2. Linked' = Linked \cup {s}
    BY <1>0, <1>3, LinkedAfterOpen
  <2>3. NoDuplicates'
    BY <1>0, <1>3, <2>1, OpenedOnce DEF MemInv, proactor_net_socket_open
  <2> QED
    BY <2>1, <2>2, <2>3 DEF MemInv
<1>4. ASSUME NEW s \in Socks, start_receive(s) \/ start_send(s) PROVE MemInv'
  <2>1. UNCHANGED <<sockets, allocated, freed, fds, dispose_cur, dispose_next>> /\ s \in fds
    BY <1>4 DEF start_receive, start_send, memVars, restVars, walkVars
  <2>2. \A r \in Socks : r # s => filters'[r] = filters[r]
    BY <1>0, <1>4 DEF start_receive, start_send
  <2> QED
    BY <2>1, <2>2 DEF MemInv, Linked, NoDuplicates
<1>5. ASSUME NEW s \in Socks, proactor_net_socket_close(s) PROVE MemInv'
  <2>1. /\ Linked' \subseteq Linked /\ Linked \ {s} \subseteq Linked' /\ NoDuplicates'
        /\ s \in Socks \cap allocated /\ Release({s}) /\ UNCHANGED <<dispose_cur, dispose_next>>
    BY <1>0, <1>5, LinkedAfterUnlink, UnlinkedOnce DEF proactor_net_socket_close, MemInv,
       restVars, walkVars
  <2> QED
    BY <1>0, <2>1, ReleaseMem
<1>6. ASSUME NEW l \in Socks, process_accept_ready(l) PROVE MemInv'
  <2>1. UNCHANGED <<sockets, freed, filters, dispose_cur, dispose_next>>
    BY <1>6 DEF process_accept_ready, Handle, restVars, walkVars
  <2>2. CASE UNCHANGED <<allocated, fds>>
    BY <2>1, <2>2 DEF MemInv, Linked, NoDuplicates
  <2>3. CASE ~UNCHANGED <<allocated, fds>>
    <3>1. PICK c \in Streams \ allocated :
             /\ allocated' = allocated \cup {c}
             /\ fds' = fds \cup {c} \/ fds' = fds
      BY <1>6, <2>3 DEF process_accept_ready
    <3>2. c \notin Listeners \cup Datagrams /\ Linked' = Linked /\ NoDuplicates'
      BY <2>1, Kinds DEF Linked, NoDuplicates, MemInv
    <3>3. fds \subseteq fds' /\ fds' \subseteq fds \cup {c} /\ c \notin freed
      BY <3>1 DEF MemInv
    <3>4. fds' \cap freed' = {} /\ fds' \subseteq allocated'
      <4>1. ASSUME NEW x \in fds' PROVE x \notin freed' /\ x \in allocated'
        BY <2>1, <3>1, <3>3 DEF MemInv
      <4> QED
        BY <4>1
    <3>5. \A s \in Socks : filters'[s] # {} => s \in fds'
      BY <2>1, <3>3 DEF MemInv
    <3>6. /\ freed' \subseteq allocated' /\ Linked' \subseteq allocated'
          /\ \A t \in Callers : dispose_cur'[t] \in allocated' \cup {NULL}
          /\ \A t \in Callers : dispose_next'[t] \in allocated' \cup {NULL}
      BY <2>1, <3>1, <3>2 DEF MemInv
    <3>7. \A s \in allocated' \cap (Listeners \cup Datagrams) : s \in Linked' \cup freed'
      BY <2>1, <3>1, <3>2 DEF MemInv
    <3> QED
      BY <3>2, <3>4, <3>5, <3>6, <3>7 DEF MemInv
  <2> QED
    BY <2>2, <2>3
<1>7. ASSUME NEW t \in Callers, dispose_event_cb(t) \/ dispose_socket(t) PROVE MemInv'
  <2>1. UNCHANGED <<sockets, allocated, freed, fds, filters>>
    BY <1>7 DEF dispose_event_cb, dispose_socket, sockVars, memVars
  <2>2. FirstSocket \in allocated \cup {NULL} /\ NextSocket(dispose_cur[t]) \in allocated \cup {NULL}
    BY <1>0, FirstSocketLinked, NextSocketLinked DEF MemInv
  <2>3. \A u \in Callers : dispose_cur'[u] \in allocated \cup {NULL}
                           /\ dispose_next'[u] \in allocated \cup {NULL}
    BY <1>0, <1>7, <2>2 DEF dispose_event_cb, dispose_socket, MemInv
  <2> QED
    BY <2>1, <2>3 DEF MemInv, Linked, NoDuplicates
<1>8. ASSUME NEW t \in Callers, dispose_close_cb(t) PROVE MemInv'
  <2>1. dispose_cur[t] \in Socks \cap allocated
    BY <1>0, <1>8 DEF dispose_close_cb, WalkAt, MemInv
  <2>2. /\ Linked' \subseteq Linked /\ Linked \ {dispose_cur[t]} \subseteq Linked' /\ NoDuplicates'
        /\ Release({dispose_cur[t]}) /\ UNCHANGED <<dispose_cur, dispose_next>>
    BY <1>0, <1>8, LinkedAfterUnlink, UnlinkedOnce DEF dispose_close_cb, MemInv, restVars, walkVars
  <2> QED
    BY <1>0, <2>1, <2>2, ReleaseMem
<1>9. ASSUME NEW t \in Callers, dispose_free(t) PROVE MemInv'
  <2>1. dispose_cur[t] \in Socks \cap allocated
    BY <1>0, <1>9 DEF dispose_free, DisposeStep, WalkAt, MemInv
  <2>2. UNCHANGED <<sockets, dispose_next>> /\ Release({dispose_cur[t]})
    BY <1>9 DEF dispose_free, FreedByWalk
  <2>3. Linked' = Linked /\ NoDuplicates'
    BY <2>2 DEF Linked, NoDuplicates, MemInv
  <2>4. \A u \in Callers : dispose_cur'[u] \in {dispose_cur[u], dispose_next[u]}
    BY <1>0, <1>9 DEF dispose_free
  <2> QED
    BY <1>0, <2>1, <2>2, <2>3, <2>4, ReleaseMem
<1> QED
  BY <1>1, <1>2, <1>3, <1>4, <1>5, <1>6, <1>7, <1>8, <1>9, Movers
  DEF MemMover, Opens, Starts, Closes, Accepts

LEMMA TypeInvariant == Spec => []TypeInv
BY TypeInit, TypeStep, PTL DEF Spec

LEMMA MemInvariant == Spec => []MemInv
<1>1. Init => MemInv
  BY DEF Init, MemInv, Linked, NoDuplicates
<1> QED
  BY TypeInvariant, MemStep, <1>1, PTL DEF Spec

-------------------------------------------------------------------------------
(* The status of create. *)

(* Nothing is called, stopped or disposed before create. *)
DownInv ==
    pc = "down" => /\ stop = FALSE /\ disposes = 0 /\ batch = {} /\ exit = "no"
                   /\ \A t \in Callers : calling[t] = "idle"

LEMMA FromDown ==
    ASSUME DownInv, pc = "down", [Next]_vars
    PROVE  proactor_net_create \/ UNCHANGED <<pc, stop, disposes, batch, exit, calling>>
<1>0. Loop \in Callers
  BY Kinds
<1>1. CASE Setup
  BY <1>1 DEF Setup, proactor_net_socket_open, start_receive, start_send,
     proactor_net_socket_close, InApplication, CanCall, CallbackStates, EventCallbacks
<1>2. CASE Calls
  BY <1>2 DEF Calls, DownInv, proactor_net_stop, proactor_net_wake, CanCall, wake_write,
     wake_broken_pipe
<1>3. CASE Dispose
  BY <1>3 DEF Dispose, DownInv, proactor_net_dispose, CanCall, DisposeStep, dispose_event_cb,
     dispose_socket, dispose_close_cb, dispose_free, dispose_stale, dispose_fds
<1>4. CASE proactor_net_run \/ LoopStep \/ callback_return
  BY <1>4 DEF LoopStep, proactor_net_run, run_check, kevent, kevent_error, wake_read,
     stale_event, process_accept_ready, process_read_ready, process_write_ready,
     Handle, Take, events_done, tick, sock_ticks, sock_tick, callback_return,
     CallbackStates, EventCallbacks
<1>5. CASE Errors \/ Peers \/ UNCHANGED vars
  BY <1>5 DEF Errors, Peers, kevent_interrupted, read_error, Handle, Take, peer_send,
     peer_close, peer_datagram, vars, loopVars, wakeVars, restVars, walkVars
<1> QED
  BY <1>1, <1>2, <1>3, <1>4, <1>5 DEF Next

LEMMA DownStep == DownInv /\ [Next]_vars => DownInv'
<1> SUFFICES ASSUME DownInv, [Next]_vars, pc' = "down" PROVE DownInv'
  BY DEF DownInv
<1>1. pc = "down"
  BY DEF Next, vars, Setup, Calls, Dispose, LoopStep, Errors, Peers,
     proactor_net_create, proactor_net_socket_open, start_receive, start_send,
     proactor_net_socket_close, proactor_net_stop, proactor_net_wake, wake_write,
     wake_broken_pipe, proactor_net_dispose, DisposeStep, dispose_event_cb,
     dispose_socket, dispose_close_cb, dispose_free, dispose_stale, dispose_fds,
     proactor_net_run, run_check, kevent, kevent_error, kevent_interrupted, wake_read,
     stale_event, process_accept_ready, process_read_ready, read_error, process_write_ready,
     Handle, Take, events_done, AfterEvents, tick, sock_ticks, sock_tick, callback_return,
     Crash, peer_send, peer_close, peer_datagram, loopVars
<1>2. ~proactor_net_create
  BY DEF proactor_net_create
<1> QED
  BY <1>1, <1>2, FromDown DEF DownInv

LEMMA DownInvariant == Spec => []DownInv
<1>1. Init => DownInv
  BY DEF Init, DownInv
<1> QED
  BY <1>1, DownStep, PTL DEF Spec

LEMMA DisposesNat == TypeOK => disposes \in Nat
<1>1. TypeOK => disposes \in 0..MaxDisposes
  BY DEF TypeOK, RestTypeOK
<1> QED
  BY <1>1, Sizes

(* A caller inside dispose has called it. *)
DisposeCounted == \A t \in Callers : calling[t] \in DisposeStates => disposes > 0

LEMMA DisposeCountedStep == TypeOK /\ DisposeCounted /\ [Next]_vars => DisposeCounted'
<1> SUFFICES ASSUME TypeOK, DisposeCounted, [Next]_vars PROVE DisposeCounted'
  OBVIOUS
<1>0. /\ calling \in [Callers -> {"idle", "stop", "wake"} \cup DisposeStates]
      /\ disposes \in Nat
  BY DisposesNat DEF TypeOK, WakeTypeOK
<1>1. ASSUME NEW t \in Callers, proactor_net_dispose(t) PROVE disposes' > 0
  BY <1>0, <1>1 DEF proactor_net_dispose
<1>2. disposes > 0 => disposes' > 0
  BY <1>1, Movers
<1>3. CASE UNCHANGED calling
  BY <1>2, <1>3 DEF DisposeCounted
<1>4. ASSUME NEW t \in Callers, proactor_net_stop(t) \/ proactor_net_wake(t)
      PROVE  DisposeCounted'
  BY <1>0, <1>2, <1>4 DEF DisposeCounted, proactor_net_stop, proactor_net_wake, DisposeStates
<1>5. ASSUME NEW t \in Callers, wake_write(t) PROVE DisposeCounted'
  <2>1. \A u \in Callers : calling'[u] \in DisposeStates => calling[u] \in DisposeStates
    BY <1>0, <1>5 DEF wake_write, AfterWakeWrite, DisposeStates
  <2> QED
    BY <1>2, <2>1 DEF DisposeCounted
<1>6. ASSUME NEW t \in Callers, dispose_event_cb(t) \/ dispose_socket(t) \/ dispose_free(t)
                                \/ dispose_fds(t)
      PROVE  DisposeCounted'
  <2>1. \A u \in Callers : calling'[u] \in DisposeStates => calling[u] \in DisposeStates
    BY <1>0, <1>6 DEF dispose_event_cb, dispose_socket, dispose_free, dispose_fds, DisposeStep,
       DisposeStates
  <2> QED
    BY <1>2, <2>1 DEF DisposeCounted
<1> QED
  BY <1>1, <1>3, <1>4, <1>5, <1>6, Movers DEF CallMover, DisposeCounted

LEMMA DisposeCountedInvariant == Spec => []DisposeCounted
<1>1. Init => DisposeCounted
  BY DEF Init, DisposeCounted, DisposeStates
<1> QED
  BY TypeCorrect, <1>1, DisposeCountedStep, PTL DEF Spec

(* proactor_net_get_status says STATUS_OK only of a proactor whose queue, pipe *)
(* and registration are all there, until it is disposed.                       *)
THEOREM StatusIsTrue == Spec => []StatusTells
<1>1. Init => StatusTells
  BY DEF Init, StatusTells, proactor_net_get_status
<1>2. TypeOK /\ DisposeCounted /\ DownInv /\ StatusTells /\ [Next]_vars => StatusTells'
  <2> SUFFICES ASSUME TypeOK, DisposeCounted, DownInv, StatusTells, [Next]_vars PROVE StatusTells'
    OBVIOUS
  <2>1. CASE proactor_net_create
    <3>1. PICK built \in 0..3 :
             /\ kq' = IF built >= 1 THEN "open" ELSE "closed"
             /\ wakeup_fds' = IF built >= 2 THEN "open" ELSE "-1"
             /\ watched' = (built = 3)
             /\ status' = IF built = 3 THEN "STATUS_OK" ELSE "STATUS_INTERNAL_FAILURE"
      BY <2>1 DEF proactor_net_create, CreateStatus
    <3>2. status' = "STATUS_OK" => kq' = "open" /\ wakeup_fds' = "open" /\ watched'
      <4>1. CASE built = 3
        <5>1. 3 >= 1 /\ 3 >= 2
          OBVIOUS
        <5>2. kq' = "open" /\ wakeup_fds' = "open"
          BY <3>1, <4>1, <5>1, Zenon
        <5>3. watched'
          BY <3>1, <4>1, Zenon
        <5> QED
          BY <5>2, <5>3
      <4>2. CASE built # 3
        BY <3>1, <4>2
      <4> QED
        BY <4>1, <4>2
    <3>3. pc' = "up"
      BY <2>1 DEF proactor_net_create
    <3> QED
      BY <3>2, <3>3 DEF StatusTells, proactor_net_get_status
  <2>2. CASE ~proactor_net_create
    <3> SUFFICES ASSUME proactor_net_get_status' = "STATUS_OK", disposes' = 0
                 PROVE  kq' = "open" /\ wakeup_fds' = "open" /\ watched'
      BY DEF StatusTells
    <3>1. disposes = 0
      <4>1. CASE UNCHANGED disposes
        BY <4>1
      <4>2. ASSUME NEW t \in Callers, proactor_net_dispose(t) PROVE FALSE
        <5>1. disposes' = disposes + 1 /\ disposes \in Nat
          BY <4>2, DisposesNat DEF proactor_net_dispose
        <5> QED
          BY <5>1
      <4> QED
        BY <4>1, <4>2, Movers
    <3>2. \A t \in Callers : ~dispose_fds(t)
      BY <3>1 DEF DisposeCounted, dispose_fds, DisposeStep, DisposeStates
    <3>3. UNCHANGED <<kq, wakeup_fds, watched, status>>
      BY <2>2, <3>2, Movers
    <3>4. pc # "down"
      BY <2>2, FromDown DEF proactor_net_get_status
    <3> QED
      BY <3>1, <3>3, <3>4 DEF StatusTells, proactor_net_get_status
  <2> QED
    BY <2>1, <2>2
<1> QED
  BY TypeCorrect, DisposeCountedInvariant, DownInvariant, <1>1, <1>2, PTL DEF Spec

-------------------------------------------------------------------------------
(* The room of the receive buffers. *)

Releases ==
    \/ Closes
    \/ \E t \in Callers : dispose_close_cb(t) \/ dispose_free(t)

(* Whatever frees sockets does it with Release. *)
LEMMA ReleasesSome ==
    ASSUME Releases
    PROVE  \E S : Release(S)
BY DEF Releases, Closes, proactor_net_socket_close, dispose_close_cb, dispose_free

(* Who writes data_length: what is stored is a whole buffer's size or a count  *)
(* that recvfrom has returned, which is positive, unless the socket is freed.  *)
LEMMA RoomStep ==
    ASSUME TypeOK, [Next]_vars, NEW s \in Socks, filters'[s] # {}
    PROVE  \/ data_length'[s] = data_length[s]
           \/ data_length'[s] \in 1..BufferSize
<1>0. data_length \in [Socks -> 0..BufferSize] /\ BufferSize \in 1..BufferSize
  BY Sizes DEF TypeOK, SockTypeOK
<1>1. CASE UNCHANGED data_length
  BY <1>1
<1>2. ASSUME NEW r \in Socks, start_receive(r)
      PROVE  data_length'[s] \in {data_length[s], BufferSize}
  BY <1>0, <1>2 DEF start_receive
<1>3. ASSUME NEW r \in Socks, process_read_ready(r)
      PROVE  data_length'[s] = data_length[s] \/ data_length'[s] \in 1..BufferSize
  <2>1. CASE UNCHANGED data_length
    BY <2>1
  <2>2. CASE ~UNCHANGED data_length
    <3>1. /\ recvfrom(r) /\ Received(r) > 0
          /\ data_length' = [data_length EXCEPT ![r] = Received(r)]
      BY <1>3, <2>2 DEF process_read_ready, LengthReceived
    <3>2. Received(r) \in 1..BufferSize
      BY <1>0, <3>1, ReceivedBounds, Sizes
    <3> QED
      BY <1>0, <3>1, <3>2
  <2> QED
    BY <2>1, <2>2
<1>4. CASE Releases
  <2>1. PICK S : Release(S)
    BY <1>4, ReleasesSome
  <2>2. s \notin S
    BY <2>1 DEF Release, Without
  <2> QED
    BY <2>1, <2>2 DEF Release, Without
<1>5. \/ UNCHANGED data_length
      \/ \E r \in Socks : start_receive(r) \/ process_read_ready(r)
      \/ Releases
  BY DEF Next, vars, Setup, Calls, Dispose, LoopStep, Errors, Peers, Releases, Closes,
     proactor_net_create, proactor_net_socket_open, start_send,
     proactor_net_stop, proactor_net_wake, wake_write, wake_broken_pipe, proactor_net_dispose,
     dispose_event_cb, dispose_socket, dispose_stale, dispose_fds, proactor_net_run, run_check,
     kevent, kevent_error, kevent_interrupted, wake_read, stale_event, process_accept_ready,
     read_error, process_write_ready, events_done, tick, sock_ticks, sock_tick,
     callback_return, Crash, peer_send, peer_close, peer_datagram, sockVars
<1> QED
  BY <1>0, <1>1, <1>2, <1>3, <1>4, <1>5

(* How the filters of a socket change: start_* add one, freeing removes all. *)
LEMMA FiltersStep ==
    ASSUME TypeInv, [Next]_vars, NEW s \in Socks
    PROVE  \/ filters'[s] = filters[s]
           \/ filters'[s] = {} /\ s \in freed'
           \/ \E r \in Socks : start_receive(r) \/ start_send(r)
<1>0. filters \in [Socks -> SUBSET Filters]
  BY DEF TypeInv, TypeOK, SockTypeOK
<1>1. CASE Releases
  <2>1. PICK S : Release(S)
    BY <1>1, ReleasesSome
  <2> QED
    BY <2>1 DEF Release, Without
<1>2. UNCHANGED filters \/ Releases \/ Starts
  BY Movers DEF MemMover, Releases, Opens, Accepts, proactor_net_create,
     proactor_net_socket_open, process_accept_ready, Handle, dispose_event_cb, dispose_socket,
     sockVars
<1> QED
  BY <1>1, <1>2 DEF Starts

(* A socket that receives always has room: recvfrom is never given a length of *)
(* 0, whose result would be taken for the end of the stream, nor one longer    *)
(* than the application's buffer.                                              *)
THEOREM RoomIsUsable == Spec => []RoomUsable
<1>1. Init => RoomUsable
  BY DEF Init, RoomUsable
<1>2. TypeInv /\ RoomUsable /\ [Next]_vars => RoomUsable'
  <2> SUFFICES ASSUME TypeInv, RoomUsable, [Next]_vars,
                      NEW s \in Socks \ Listeners, "EVFILT_READ" \in filters'[s]
               PROVE  data_length'[s] \in 1..BufferSize
    BY DEF RoomUsable
  <2>0. /\ TypeOK /\ filters \in [Socks -> SUBSET Filters]
        /\ data_length \in [Socks -> 0..BufferSize]
    BY DEF TypeInv, TypeOK, SockTypeOK
  <2>1. CASE "EVFILT_READ" \in filters[s]
    BY <2>0, <2>1, RoomStep DEF RoomUsable
  <2>2. CASE "EVFILT_READ" \notin filters[s]
    <3>1. PICK r \in Socks : start_receive(r) \/ start_send(r)
      BY <2>2, FiltersStep
    <3>2. start_receive(r) /\ r = s
      BY <2>0, <2>2, <3>1 DEF start_receive, start_send
    <3> QED
      BY <2>0, <3>2, Sizes DEF start_receive
  <2> QED
    BY <2>1, <2>2
<1> QED
  BY TypeInvariant, <1>1, <1>2, PTL DEF Spec

-------------------------------------------------------------------------------
(* The events of one kevent call. *)

EventStates == {"dispatch", "exited"} \cup EventCallbacks

(* Events are left only while they are dispatched; every event of a socket     *)
(* that is not freed is one it is registered for; and while a handler's        *)
(* callback runs, the read event of its socket has left the batch.             *)
BatchInv ==
    /\ batch # {} => pc \in EventStates
    /\ \A s \in Socks \ freed, f \in Filters : <<s, f>> \in batch => f \in filters[s]
    /\ pc \in EventCallbacks => cur \in Socks /\ <<cur, "EVFILT_READ">> \notin batch

(* What makes an event of a socket ready. *)
LEMMA ReadyMeans ==
    \A s \in Socks, f \in Filters : <<s, f>> \in Ready => f \in filters[s]
BY Kinds DEF Ready, Filters

(* How the events and the place of the loop change together. *)
LEMMA BatchStep ==
    ASSUME [Next]_vars
    PROVE  \/ UNCHANGED <<pc, cur, batch>>
           \/ pc' = "exited" /\ UNCHANGED <<cur, batch>>
           \/ kevent
           \/ pc = "dispatch" /\ pc' = pc /\ cur' = cur /\ batch' \subseteq batch
           \/ /\ pc = "dispatch" /\ pc' \in EventCallbacks /\ cur' \in Socks
              /\ batch' = batch \ {<<cur', "EVFILT_READ">>}
           \/ pc \in EventCallbacks /\ pc' = "dispatch" /\ UNCHANGED batch
           \/ pc = "dispatch" /\ batch = {} /\ batch' = {} /\ pc' \notin EventCallbacks
           \/ pc \notin EventStates /\ pc' \notin EventCallbacks /\ UNCHANGED batch
           \/ pc \notin EventStates /\ pc' = "dispatch" /\ batch' = {}
<1>1. CASE Setup
  BY <1>1 DEF Setup, proactor_net_create, proactor_net_socket_open, start_receive, start_send,
     proactor_net_socket_close, loopVars, EventStates, EventCallbacks
<1>2. CASE Calls
  BY <1>2 DEF Calls, proactor_net_stop, proactor_net_wake, wake_write, wake_broken_pipe, Crash,
     loopVars
<1>3. CASE Dispose
  BY <1>3 DEF Dispose, proactor_net_dispose, DisposeStep, dispose_event_cb, dispose_socket,
     dispose_close_cb, dispose_free, dispose_stale, dispose_fds, Crash, loopVars
<1>4. CASE proactor_net_run \/ run_check \/ kevent_error \/ kevent_interrupted \/ events_done
           \/ tick \/ kevent
  BY <1>4 DEF proactor_net_run, run_check, kevent_error, kevent_interrupted, events_done, tick,
     AfterEvents, EventStates, EventCallbacks
<1>5. CASE wake_read \/ stale_event
  BY <1>5 DEF wake_read, stale_event, Take, Done, Crash
<1>6. ASSUME NEW s \in Socks, process_accept_ready(s)
      PROVE  \/ pc = "dispatch" /\ pc' = pc /\ cur' = cur /\ batch' \subseteq batch
             \/ /\ pc = "dispatch" /\ pc' \in EventCallbacks /\ cur' \in Socks
                /\ batch' = batch \ {<<cur', "EVFILT_READ">>}
  BY <1>6 DEF process_accept_ready, Handle, Take, Done, EventCallbacks
<1>7. ASSUME NEW s \in Socks, process_read_ready(s)
      PROVE  \/ pc = "dispatch" /\ pc' = pc /\ cur' = cur /\ batch' \subseteq batch
             \/ /\ pc = "dispatch" /\ pc' \in EventCallbacks /\ cur' \in Socks
                /\ batch' = batch \ {<<cur', "EVFILT_READ">>}
  BY <1>7 DEF process_read_ready, Handle, Take, Done, EventCallbacks
<1>8. ASSUME NEW s \in Socks, read_error(s) \/ process_write_ready(s)
      PROVE  pc = "dispatch" /\ pc' = pc /\ cur' = cur /\ batch' \subseteq batch
  BY <1>8 DEF read_error, process_write_ready, Handle, Take, Done
<1>9. CASE sock_ticks \/ sock_tick \/ callback_return
  BY <1>9 DEF sock_ticks, sock_tick, callback_return, Crash, EventStates, EventCallbacks,
     CallbackStates
<1>10. CASE Peers \/ UNCHANGED vars
  BY <1>10 DEF Peers, peer_send, peer_close, peer_datagram, vars, loopVars
<1> QED
  BY <1>1, <1>2, <1>3, <1>4, <1>5, <1>6, <1>7, <1>8, <1>9, <1>10 DEF Next, LoopStep, Errors

(* Events come from kevent only; handlers take them out one by one. *)
LEMMA EventsFromKevent == ASSUME [Next]_vars PROVE batch' \subseteq batch \/ kevent
BY BatchStep

(* What is freed stays freed. *)
LEMMA FreedGrows == ASSUME [Next]_vars PROVE freed \subseteq freed'
<1>1. CASE Releases
  BY <1>1, ReleasesSome DEF Release
<1>2. UNCHANGED freed \/ Releases
  BY Movers DEF MemMover, Releases, Opens, Starts, Accepts, proactor_net_create,
     proactor_net_socket_open, start_receive, start_send, process_accept_ready, Handle,
     dispose_event_cb, dispose_socket, sockVars, memVars
<1> QED
  BY <1>1, <1>2

(* Filters of a socket are only added to, except when it is freed. *)
LEMMA FiltersGrow ==
    ASSUME TypeInv, [Next]_vars, NEW s \in Socks \ freed'
    PROVE  s \notin freed /\ filters[s] \subseteq filters'[s]
<1>0. filters \in [Socks -> SUBSET Filters]
  BY DEF TypeInv, TypeOK, SockTypeOK
<1>1. filters[s] \subseteq filters'[s]
  BY <1>0, FiltersStep DEF start_receive, start_send
<1> QED
  BY <1>1, FreedGrows

LEMMA BatchInvStep == TypeInv /\ BatchInv /\ [Next]_vars => BatchInv'
<1> SUFFICES ASSUME TypeInv, BatchInv, [Next]_vars PROVE BatchInv'
  OBVIOUS
<1>0. kevent => pc' = "dispatch" /\ batch' \subseteq Ready
  BY DEF kevent
<1>1. (batch # {} => pc \in EventStates)' 
  BY <1>0, BatchStep DEF BatchInv, EventStates, EventCallbacks
<1>2. (pc \in EventCallbacks => cur \in Socks /\ <<cur, "EVFILT_READ">> \notin batch)'
  BY <1>0, BatchStep DEF BatchInv, EventStates, EventCallbacks
<1>3. (\A s \in Socks \ freed, f \in Filters : <<s, f>> \in batch => f \in filters[s])'
  <2> SUFFICES ASSUME NEW s \in Socks \ freed', NEW f \in Filters, <<s, f>> \in batch'
               PROVE  f \in filters'[s]
    OBVIOUS
  <2>1. s \notin freed /\ filters[s] \subseteq filters'[s]
    BY FiltersGrow
  <2>2. CASE batch' \subseteq batch
    BY <2>1, <2>2 DEF BatchInv
  <2>3. CASE kevent
    BY <1>0, <2>1, <2>3, ReadyMeans
  <2> QED
    BY <2>2, <2>3, EventsFromKevent
<1> QED
  BY <1>1, <1>2, <1>3 DEF BatchInv

LEMMA BatchInvariant == Spec => []BatchInv
<1>1. Init => BatchInv
  BY DEF Init, BatchInv, EventCallbacks
<1> QED
  BY TypeInvariant, <1>1, BatchInvStep, PTL DEF Spec

-------------------------------------------------------------------------------
(* Dispose and freed memory, under the rules of Disciplined. *)

(* Only the loop's thread disposes, outside run, once the loop is stopped. *)
RulesInv ==
    Disciplined =>
       /\ \A t \in Callers : calling[t] \in DisposeStates => t = Loop
       /\ calling[Loop] \in DisposeStates => pc \in {"up", "exited"}
       /\ disposes > 0 => stop /\ pc \in {"up", "check", "exited"}

(* From "up" and from a check that finds stop set, the loop goes nowhere. *)
LEMMA StoppedStays ==
    ASSUME [Next]_vars, stop, pc \in {"up", "check", "exited"}
    PROVE  /\ stop' /\ pc' \in {"up", "check", "exited"}
           /\ calling[Loop] # "idle" /\ pc # "check" => pc' \in {pc, "exited"}
<1>1. CASE Setup
  BY <1>1 DEF Setup, proactor_net_create, proactor_net_socket_open, start_receive, start_send,
     proactor_net_socket_close, loopVars, wakeVars
<1>2. CASE Calls
  BY <1>2 DEF Calls, proactor_net_stop, proactor_net_wake, wake_write, wake_broken_pipe, Crash,
     loopVars, wakeVars
<1>3. CASE Dispose
  BY <1>3 DEF Dispose, proactor_net_dispose, DisposeStep, dispose_event_cb, dispose_socket,
     dispose_close_cb, dispose_free, dispose_stale, dispose_fds, Crash, loopVars, wakeVars
<1>4. CASE proactor_net_run \/ LoopStep \/ callback_return
  BY <1>4 DEF proactor_net_run, InApplication, LoopStep, run_check, GoOn, kevent, kevent_error,
     wake_read, stale_event, process_accept_ready, process_read_ready, process_write_ready,
     Handle, Take, events_done, tick, sock_ticks, sock_tick, callback_return, CallbackStates,
     EventCallbacks, wakeVars
<1>5. CASE Errors \/ Peers \/ UNCHANGED vars
  BY <1>5 DEF Errors, Peers, kevent_interrupted, read_error, Handle, Take, peer_send,
     peer_close, peer_datagram, vars, loopVars, wakeVars
<1> QED
  BY <1>1, <1>2, <1>3, <1>4, <1>5 DEF Next

(* Under the rules nobody disposes from a callback, or twice. *)
LEMMA DisposeByTheRules ==
    ASSUME TypeOK, Disciplined, NEW t \in Callers, proactor_net_dispose(t)
    PROVE  t = Loop /\ pc = "up" /\ pc' = "up" /\ stop' /\ disposes = 0 /\ disposes' = 1
<1>1. t = Loop /\ MaxDisposes <= 1 /\ "dispose" \notin LoopCalls
  BY DEF Disciplined, proactor_net_dispose
<1>2. pc = "up" /\ pc' = "up" /\ stop'
  BY <1>1 DEF proactor_net_dispose, CanCall, loopVars
<1>3. disposes \in Nat /\ disposes < MaxDisposes /\ disposes' = disposes + 1
  BY DisposesNat DEF proactor_net_dispose
<1> QED
  BY <1>1, <1>2, <1>3, Sizes

(* How one caller moves: into dispose by calling it, within it, or outside. *)
LEMMA CallerStep ==
    ASSUME TypeOK, [Next]_vars, NEW u \in Callers
    PROVE  \/ calling'[u] = calling[u]
           \/ calling[u] \notin DisposeStates /\ calling'[u] \notin DisposeStates
           \/ calling[u] = "idle" /\ proactor_net_dispose(u)
           \/ calling[u] = "dispose_wake" /\ calling'[u] = "dispose_cb" /\ wake_write(u)
           \/ dispose_event_cb(u) \/ dispose_socket(u) \/ dispose_free(u) \/ dispose_fds(u)
<1>0. calling \in [Callers -> {"idle", "stop", "wake"} \cup DisposeStates]
  BY DEF TypeOK, WakeTypeOK
<1>1. CASE UNCHANGED calling
  BY <1>1
<1>2. CASE CallMover
  <2>1. PICK t \in Callers : \/ proactor_net_stop(t) \/ proactor_net_wake(t) \/ wake_write(t)
                             \/ proactor_net_dispose(t) \/ dispose_event_cb(t)
                             \/ dispose_socket(t) \/ dispose_free(t) \/ dispose_fds(t)
    BY <1>2 DEF CallMover
  <2>2. CASE t # u
    <3>1. calling'[u] = calling[u]
      BY <1>0, <2>1, <2>2 DEF proactor_net_stop, proactor_net_wake, wake_write,
         proactor_net_dispose, DisposeStep, dispose_event_cb, dispose_socket, dispose_free,
         dispose_fds
    <3> QED
      BY <3>1
  <2>3. CASE t = u
    <3>1. CASE proactor_net_stop(u) \/ proactor_net_wake(u)
      BY <1>0, <3>1 DEF proactor_net_stop, proactor_net_wake, CanCall, DisposeStates
    <3>2. CASE wake_write(u)
      BY <1>0, <3>2 DEF wake_write, AfterWakeWrite, DisposeStates
    <3>3. CASE proactor_net_dispose(u)
      BY <3>3 DEF proactor_net_dispose, CanCall
    <3> QED
      BY <2>1, <2>3, <3>1, <3>2, <3>3
  <2> QED
    BY <2>2, <2>3
<1> QED
  BY <1>1, <1>2, Movers

LEMMA RulesStep == TypeOK /\ DisposeCounted /\ RulesInv /\ [Next]_vars => RulesInv'
<1> SUFFICES ASSUME TypeOK, DisposeCounted, RulesInv, [Next]_vars, Disciplined
             PROVE  /\ \A t \in Callers : calling'[t] \in DisposeStates => t = Loop
                    /\ calling'[Loop] \in DisposeStates => pc' \in {"up", "exited"}
                    /\ disposes' > 0 => stop' /\ pc' \in {"up", "check", "exited"}
  BY DEF RulesInv, Disciplined
<1>0. Loop \in Callers /\ "idle" \notin DisposeStates
  BY Kinds DEF DisposeStates
<1>1. ASSUME NEW t \in Callers, calling'[t] \in DisposeStates PROVE t = Loop
  <2>1. CASE proactor_net_dispose(t)
    BY <2>1, DisposeByTheRules
  <2>2. CASE ~proactor_net_dispose(t)
    <3>1. calling[t] \in DisposeStates
      BY <1>1, <2>2, CallerStep DEF dispose_event_cb, dispose_socket, dispose_free, dispose_fds,
         DisposeStep, DisposeStates
    <3> QED
      BY <3>1 DEF RulesInv
  <2> QED
    BY <2>1, <2>2
<1>2. ASSUME calling'[Loop] \in DisposeStates PROVE pc' \in {"up", "exited"}
  <2>1. CASE proactor_net_dispose(Loop)
    BY <1>0, <2>1, DisposeByTheRules
  <2>2. CASE ~proactor_net_dispose(Loop)
    <3>1. calling[Loop] \in DisposeStates
      BY <1>0, <1>2, <2>2, CallerStep DEF dispose_event_cb, dispose_socket, dispose_free,
         dispose_fds, DisposeStep, DisposeStates
    <3>2. pc \in {"up", "exited"} /\ disposes > 0
      BY <1>0, <3>1 DEF RulesInv, DisposeCounted
    <3>3. stop /\ pc \in {"up", "check", "exited"}
      BY <3>2 DEF RulesInv
    <3> QED
      BY <1>0, <3>1, <3>2, <3>3, StoppedStays
  <2> QED
    BY <2>1, <2>2
<1>3. ASSUME disposes' > 0 PROVE stop' /\ pc' \in {"up", "check", "exited"}
  <2>1. ASSUME NEW t \in Callers, proactor_net_dispose(t) PROVE stop' /\ pc' = "up"
    BY <2>1, DisposeByTheRules
  <2>2. CASE disposes > 0
    BY <2>2, StoppedStays DEF RulesInv
  <2>3. CASE ~(disposes > 0)
    BY <1>3, <2>1, <2>3, Movers
  <2> QED
    BY <2>2, <2>3
<1> QED
  BY <1>1, <1>2, <1>3

LEMMA RulesInvariant == Spec => []RulesInv
<1>1. Init => RulesInv
  BY Kinds DEF Init, RulesInv, DisposeStates
<1> QED
  BY TypeCorrect, DisposeCountedInvariant, <1>1, RulesStep, PTL DEF Spec

(* The walk of dispose has freed the first k sockets of the list. *)
Walked(k) ==
    /\ k \in 0..Len(sockets)
    /\ \A i \in 1..Len(sockets) : sockets[i] \in freed <=> i <= k

(* The pointer behind them. *)
At(k) == IF k < Len(sockets) THEN sockets[k + 1] ELSE NULL

AtSocket(k) == Walked(k) /\ dispose_cur[Loop] = At(k)

InCloseCb(k) == AtSocket(k) /\ k < Len(sockets) /\ dispose_next[Loop] = At(k + 1)

Clean == Linked \cap freed = {}
AllFreed == Linked \subseteq freed
FdsClosed == kq = "closed" /\ wakeup_fds \in {"-1", "closed"}

(* No freed socket is on the list before the walk, the walk frees them in the  *)
(* order of the list, and after it all of them are freed.                      *)
WalkInv ==
    Disciplined =>
       /\ disposes = 0 \/ calling[Loop] \in {"dispose_wake", "dispose_cb"} => Clean
       /\ calling[Loop] = "dispose_sockets" => \E k \in Nat : AtSocket(k)
       /\ calling[Loop] = "dispose_close_cb" => \E k \in Nat : InCloseCb(k)
       /\ calling[Loop] \in {"dispose_read_end", "dispose_write_end", "dispose_kq"} => AllFreed
       /\ calling[Loop] = "dispose_write_end" => wakeup_fds # "open"
       /\ calling[Loop] = "dispose_kq" => wakeup_fds \in {"-1", "closed"}
       /\ disposes > 0 /\ calling[Loop] \notin DisposeStates => AllFreed /\ FdsClosed

LEMMA ListIs ==
    ASSUME TypeOK
    PROVE  /\ Len(sockets) \in Nat /\ DOMAIN sockets = 1..Len(sockets)
           /\ sockets = <<>> <=> Len(sockets) = 0
           /\ \A i \in 1..Len(sockets) : sockets[i] \in Socks /\ sockets[i] # NULL
           /\ \A i \in 1..Len(sockets) : sockets[i] \in Linked
           /\ \A s \in Linked : \E i \in 1..Len(sockets) : s = sockets[i]
           /\ NULL \notin freed
<1>1. sockets \in Seq(Socks)
  BY DEF TypeOK, SockTypeOK
<1>2. /\ Len(sockets) \in Nat /\ DOMAIN sockets = 1..Len(sockets)
      /\ sockets = <<>> <=> Len(sockets) = 0
      /\ \A i \in 1..Len(sockets) : sockets[i] \in Socks
  BY <1>1
<1>3. /\ \A i \in 1..Len(sockets) : sockets[i] \in Linked
      /\ \A s \in Linked : \E i \in 1..Len(sockets) : s = sockets[i]
  BY <1>2 DEF Linked
<1>4. NULL \notin freed
  BY Kinds DEF TypeOK, SockTypeOK
<1> QED
  BY <1>2, <1>3, <1>4, Kinds

(* cur = proactor->sockets starts a walk of a list that is whole. *)
LEMMA WalkStarts ==
    ASSUME TypeOK, Clean, UNCHANGED <<sockets, freed>>, dispose_cur'[Loop] = FirstSocket
    PROVE  (\E k \in Nat : AtSocket(k))'
<1>1. Walked(0)
  <2>1. \A i \in 1..Len(sockets) : sockets[i] \notin freed
    BY ListIs DEF Clean
  <2> QED
    BY <2>1, ListIs DEF Walked
<1>2. FirstSocket = At(0)
  BY ListIs DEF FirstSocket, At
<1>3. AtSocket(0)'
  BY <1>1, <1>2 DEF AtSocket, Walked, At
<1> QED
  BY <1>3

(* next = cur->next is the socket after the one at hand. *)
LEMMA WalkReadsNext ==
    ASSUME TypeOK, NoDuplicates, NEW k \in Nat, AtSocket(k), dispose_cur[Loop] # NULL
    PROVE  /\ k < Len(sockets) /\ dispose_cur[Loop] = sockets[k + 1]
           /\ NextSocket(dispose_cur[Loop]) = At(k + 1)
<1>1. k < Len(sockets) /\ dispose_cur[Loop] = sockets[k + 1]
  BY DEF AtSocket, At
<1>2. k + 1 \in 1..Len(sockets)
  BY <1>1, ListIs
<1>3. dispose_cur[Loop] \in Linked
  BY <1>1, <1>2, ListIs
<1>4. PositionOf(dispose_cur[Loop]) = k + 1
  <2>1. /\ PositionOf(dispose_cur[Loop]) \in DOMAIN sockets
        /\ sockets[PositionOf(dispose_cur[Loop])] = sockets[k + 1]
    BY <1>1, <1>3, PositionIs
  <2> QED
    BY <1>2, <2>1, ListIs DEF NoDuplicates
<1> QED
  BY <1>1, <1>3, <1>4 DEF NextSocket, At

(* Behind the last socket all of them are freed. *)
LEMMA WalkEnds ==
    ASSUME TypeOK, NEW k \in Nat, AtSocket(k), dispose_cur[Loop] = NULL
    PROVE  AllFreed
<1>1. ~(k < Len(sockets))
  <2> SUFFICES ASSUME k < Len(sockets) PROVE FALSE
    OBVIOUS
  <2>1. k + 1 \in 1..Len(sockets) /\ sockets[k + 1] = NULL
    BY ListIs DEF AtSocket, At
  <2> QED
    BY <2>1, ListIs
<1>2. \A i \in 1..Len(sockets) : sockets[i] \in freed
  BY <1>1, ListIs DEF AtSocket, Walked
<1> QED
  BY <1>2, ListIs DEF AllFreed

(* Freeing the socket at hand moves the walk on by one. *)
LEMMA WalkFrees ==
    ASSUME TypeOK, NoDuplicates, NEW k \in Nat, InCloseCb(k), UNCHANGED sockets,
           freed' = freed \cup {dispose_cur[Loop]}, dispose_cur'[Loop] = dispose_next[Loop]
    PROVE  (\E j \in Nat : AtSocket(j))'
<1>1. /\ k < Len(sockets) /\ dispose_cur[Loop] = sockets[k + 1]
      /\ \A i \in 1..Len(sockets) : sockets[i] \in freed <=> i <= k
  BY DEF InCloseCb, AtSocket, Walked, At
<1>2. k + 1 \in 1..Len(sockets) /\ k + 1 \in 0..Len(sockets) /\ k + 1 \in Nat
  BY <1>1, ListIs
<1>3. ASSUME NEW i \in 1..Len(sockets)
      PROVE  sockets[i] \in freed' <=> i <= k + 1
  <2>1. sockets[i] = sockets[k + 1] <=> i = k + 1
    BY <1>2, ListIs DEF NoDuplicates
  <2>2. sockets[i] \in freed' <=> i <= k \/ i = k + 1
    BY <1>1, <2>1
  <2>3. i \in Nat
    BY ListIs
  <2> QED
    BY <2>2, <2>3
<1>4. AtSocket(k + 1)'
  BY <1>2, <1>3 DEF AtSocket, InCloseCb, Walked, At
<1> QED
  BY <1>2, <1>4

(* The socket of the walk is not freed. *)
LEMMA WalkNotStale ==
    ASSUME TypeOK, NEW k \in Nat, AtSocket(k)
    PROVE  dispose_cur[Loop] \notin freed
<1>1. CASE k < Len(sockets)
  <2>1. k + 1 \in 1..Len(sockets) /\ ~(k + 1 <= k) /\ dispose_cur[Loop] = sockets[k + 1]
    BY <1>1, ListIs DEF AtSocket, At
  <2> QED
    BY <2>1 DEF AtSocket, Walked
<1>2. CASE ~(k < Len(sockets))
  BY <1>2, ListIs DEF AtSocket, At
<1> QED
  BY <1>1, <1>2

LEMMA WalkFrame ==
    ASSUME UNCHANGED <<sockets, freed, dispose_cur, dispose_next>>
    PROVE  /\ Clean' <=> Clean
           /\ AllFreed' <=> AllFreed
           /\ \A k : AtSocket(k)' <=> AtSocket(k)
           /\ \A k : InCloseCb(k)' <=> InCloseCb(k)
BY DEF Clean, AllFreed, Linked, AtSocket, InCloseCb, Walked, At

LEMMA WalkStep ==
    TypeInv /\ MemInv /\ DownInv /\ DisposeCounted /\ RulesInv /\ WalkInv /\ [Next]_vars
       => WalkInv'
<1> SUFFICES ASSUME TypeInv, MemInv, DownInv, DisposeCounted, RulesInv, WalkInv, [Next]_vars,
                    Disciplined
             PROVE  WalkInv'
  BY DEF WalkInv, Disciplined
<1>0. /\ TypeOK /\ Loop \in Callers /\ disposes \in Nat /\ NoDuplicates
      /\ calling \in [Callers -> {"idle", "stop", "wake"} \cup DisposeStates]
      /\ dispose_cur \in [Callers -> Socks \cup {NULL}]
      /\ dispose_next \in [Callers -> Socks \cup {NULL}]
      /\ "idle" \notin DisposeStates
  BY Kinds, DisposesNat DEF TypeInv, TypeOK, WakeTypeOK, RestTypeOK, MemInv, DisposeStates
<1>1. ASSUME NEW t \in Callers, proactor_net_dispose(t) PROVE WalkInv'
  <2>1. t = Loop /\ disposes = 0 /\ disposes' = 1
    BY <1>0, <1>1, DisposeByTheRules
  <2>2. Clean /\ UNCHANGED <<sockets, freed>> /\ calling'[Loop] = "dispose_wake"
    BY <1>0, <1>1, <2>1 DEF WalkInv, proactor_net_dispose, sockVars, memVars
  <2>3. Clean'
    BY <2>2 DEF Clean, Linked
  <2> QED
    BY <2>2, <2>3 DEF WalkInv, DisposeStates
<1>2. ASSUME NEW t \in Callers, dispose_event_cb(t) PROVE WalkInv'
  <2>1. t = Loop /\ calling[Loop] = "dispose_cb"
    BY <1>2 DEF dispose_event_cb, DisposeStep, RulesInv, DisposeStates
  <2>2. /\ Clean /\ UNCHANGED <<sockets, freed, disposes>> /\ dispose_cur'[Loop] = FirstSocket
        /\ calling'[Loop] = "dispose_sockets"
    BY <1>0, <1>2, <2>1 DEF WalkInv, dispose_event_cb, DisposeStep, sockVars, memVars
  <2>3. (\E k \in Nat : AtSocket(k))'
    BY <1>0, <2>2, WalkStarts
  <2>4. disposes' # 0
    BY <1>0, <2>1, <2>2 DEF DisposeCounted, DisposeStates
  <2> QED
    BY <2>2, <2>3, <2>4 DEF WalkInv, DisposeStates
<1>3. ASSUME NEW t \in Callers, dispose_socket(t) PROVE WalkInv'
  <2>1. t = Loop /\ calling[Loop] = "dispose_sockets"
    BY <1>3 DEF dispose_socket, DisposeStep, RulesInv, DisposeStates
  <2>2. PICK k \in Nat : AtSocket(k)
    BY <2>1 DEF WalkInv
  <2>3. UNCHANGED <<sockets, freed, dispose_cur, disposes>> /\ disposes' # 0
    BY <1>0, <1>3, <2>1 DEF dispose_socket, DisposeStep, sockVars, memVars, DisposeCounted,
       DisposeStates
  <2>4. CASE dispose_cur[Loop] = NULL
    <3>1. AllFreed
      BY <1>0, <2>2, <2>4, WalkEnds
    <3>2. AllFreed' /\ calling'[Loop] = "dispose_read_end"
      BY <1>0, <1>3, <2>1, <2>3, <2>4, <3>1 DEF dispose_socket, DisposeStep, AllFreed, Linked
    <3> QED
      BY <2>3, <3>2 DEF WalkInv, DisposeStates
  <2>5. CASE dispose_cur[Loop] # NULL
    <3>1. k < Len(sockets) /\ NextSocket(dispose_cur[Loop]) = At(k + 1)
      BY <1>0, <2>2, <2>5, WalkReadsNext
    <3>2. calling'[Loop] = "dispose_close_cb" /\ dispose_next'[Loop] = NextSocket(dispose_cur[Loop])
      BY <1>0, <1>3, <2>1, <2>5 DEF dispose_socket, DisposeStep
    <3>3. InCloseCb(k)'
      BY <2>2, <2>3, <3>1, <3>2 DEF InCloseCb, AtSocket, Walked, At
    <3> QED
      BY <2>3, <3>2, <3>3 DEF WalkInv, DisposeStates
  <2> QED
    BY <2>4, <2>5
<1>4. ASSUME NEW t \in Callers, dispose_free(t) PROVE WalkInv'
  <2>1. t = Loop /\ calling[Loop] = "dispose_close_cb"
    BY <1>4 DEF dispose_free, DisposeStep, RulesInv, DisposeStates
  <2>2. PICK k \in Nat : InCloseCb(k)
    BY <2>1 DEF WalkInv
  <2>3. /\ UNCHANGED <<sockets, disposes>> /\ disposes' # 0
        /\ freed' = freed \cup {dispose_cur[Loop]} /\ dispose_cur'[Loop] = dispose_next[Loop]
        /\ calling'[Loop] = "dispose_sockets"
    BY <1>0, <1>4, <2>1 DEF dispose_free, DisposeStep, Release, FreedByWalk, DisposeCounted,
       DisposeStates
  <2>4. (\E j \in Nat : AtSocket(j))'
    BY <1>0, <2>2, <2>3, WalkFrees
  <2> QED
    BY <2>3, <2>4 DEF WalkInv, DisposeStates
<1>5. ASSUME NEW t \in Callers, dispose_fds(t) PROVE WalkInv'
  <2>1. t = Loop /\ calling[Loop] \in {"dispose_read_end", "dispose_write_end", "dispose_kq"}
    BY <1>5 DEF dispose_fds, DisposeStep, RulesInv, DisposeStates
  <2>2. UNCHANGED <<sockets, freed, disposes>> /\ disposes' # 0 /\ AllFreed
    BY <1>0, <1>5, <2>1 DEF dispose_fds, DisposeStep, sockVars, memVars, DisposeCounted,
       DisposeStates, WalkInv
  <2>3. AllFreed'
    BY <2>2 DEF AllFreed, Linked
  <2>4. wakeup_fds \in {"-1", "open", "half", "closed"}
    BY <1>0 DEF TypeOK, WakeTypeOK
  <2>5. \/ calling'[Loop] = "dispose_write_end" /\ wakeup_fds' # "open"
        \/ calling'[Loop] = "dispose_kq" /\ wakeup_fds' \in {"-1", "closed"}
        \/ calling'[Loop] = "idle" /\ FdsClosed'
    BY <1>0, <1>5, <2>1, <2>4 DEF dispose_fds, DisposeStep, WalkInv, FdsClosed
  <2> QED
    BY <1>0, <2>2, <2>3, <2>5 DEF WalkInv, DisposeStates
<1>6. ASSUME NEW s \in Socks, NEW given \in SUBSET CallbacksOf(s),
             proactor_net_socket_open(s, given)
      PROVE  WalkInv'
  <2>1. calling[Loop] = "idle" /\ kq = "open" /\ UNCHANGED <<calling, disposes>>
    BY <1>6 DEF proactor_net_socket_open, CanCall, InApplication, wakeVars, restVars, walkVars
  <2>2. disposes = 0 /\ Clean
    BY <1>0, <2>1 DEF WalkInv, FdsClosed
  <2>3. Linked' = Linked \cup {s} /\ UNCHANGED freed /\ s \notin freed
    BY <1>0, <1>6, LinkedAfterOpen DEF proactor_net_socket_open, MemInv
  <2>4. Clean'
    BY <2>2, <2>3 DEF Clean
  <2> QED
    BY <1>0, <2>1, <2>2, <2>4 DEF WalkInv
<1>7. ASSUME NEW s \in Socks, proactor_net_socket_close(s) PROVE WalkInv'
  <2>1. /\ calling[Loop] = "idle" /\ UNCHANGED <<calling, disposes, kq, wakeup_fds>>
        /\ s \notin freed /\ freed' = freed \cup {s} /\ sockets' = Unlinked(s)
    BY <1>7 DEF proactor_net_socket_close, InApplication, Release, wakeVars, restVars, walkVars
  <2>2. Linked' \subseteq Linked /\ s \notin Linked'
    BY <1>0, <2>1, LinkedAfterUnlink, UnlinkedOnce
  <2>3. Clean => Clean'
    BY <2>1, <2>2 DEF Clean
  <2>4. AllFreed => AllFreed'
    BY <2>1, <2>2 DEF AllFreed
  <2> QED
    BY <1>0, <2>1, <2>3, <2>4 DEF WalkInv, FdsClosed
<1>8. CASE proactor_net_create
  <2>1. disposes = 0 /\ calling[Loop] = "idle" /\ UNCHANGED <<calling, disposes, sockets, freed>>
    BY <1>0, <1>8 DEF proactor_net_create, DownInv, walkVars
  <2>2. Clean'
    BY <2>1 DEF WalkInv, Clean, Linked
  <2> QED
    BY <1>0, <2>1, <2>2 DEF WalkInv
<1>9. CASE /\ UNCHANGED <<sockets, freed, dispose_cur, dispose_next, kq, wakeup_fds, disposes>>
           /\ \/ calling'[Loop] = calling[Loop]
              \/ calling[Loop] \notin DisposeStates /\ calling'[Loop] \notin DisposeStates
              \/ calling[Loop] = "dispose_wake" /\ calling'[Loop] = "dispose_cb"
  <2>1. FdsClosed' <=> FdsClosed
    BY <1>9 DEF FdsClosed
  <2> QED
    BY <1>9, <2>1, WalkFrame DEF WalkInv, DisposeStates
<1>10. ASSUME NEW t \in Callers, dispose_close_cb(t) PROVE FALSE
  BY <1>10 DEF dispose_close_cb, Disciplined, EventCallbacks
<1>11. ASSUME Starts \/ Accepts
       PROVE  UNCHANGED <<sockets, freed, dispose_cur, dispose_next>>
  BY <1>11 DEF Starts, Accepts, start_receive, start_send, process_accept_ready, Handle,
     memVars, restVars, walkVars
<1> QED
  BY <1>0, <1>1, <1>2, <1>3, <1>4, <1>5, <1>6, <1>7, <1>8, <1>9, <1>10, <1>11, Movers,
     CallerStep DEF MemMover, Opens, Closes

LEMMA WalkInvariant == Spec => []WalkInv
<1>1. Init => WalkInv
  BY Kinds DEF Init, WalkInv, Clean
<1> QED
  BY TypeInvariant, MemInvariant, DownInvariant, DisposeCountedInvariant, RulesInvariant,
     <1>1, WalkStep, PTL DEF Spec

(* When proactor_net_dispose returns to an application that keeps the rules,   *)
(* its walk has freed the whole list, in whatever order sockets were opened,   *)
(* accepted and closed: of what was allocated only the proactor and accepted   *)
(* clients are left.  The wake pipe and the queue are closed.                  *)
THEOREM DisposeIsComplete == Spec => []DisposeComplete
<1>1. TypeOK /\ MemInv /\ WalkInv => DisposeComplete
  <2> SUFFICES ASSUME TypeOK, MemInv, WalkInv, Disciplined, DisposeReturned
               PROVE  /\ Linked \subseteq freed /\ fds \cap freed = {}
                      /\ Object \notin freed
                      /\ allocated \ freed \subseteq {Object} \cup Streams
                      /\ kq = "closed" /\ wakeup_fds \in {"-1", "closed"}
    BY DEF DisposeComplete
  <2>1. AllFreed /\ FdsClosed
    BY Kinds DEF DisposeReturned, WalkInv
  <2>2. Object \notin freed
    BY Kinds DEF TypeOK, SockTypeOK
  <2>3. ASSUME NEW x \in allocated, x \notin freed, x # Object PROVE x \in Streams
    <3>1. x \in Listeners \cup Datagrams \cup Streams
      BY <2>3 DEF TypeOK, SockTypeOK, Socks
    <3>2. x \notin Linked
      BY <2>1, <2>3 DEF AllFreed
    <3> QED
      BY <2>3, <3>1, <3>2 DEF MemInv
  <2> QED
    BY <2>1, <2>2, <2>3 DEF AllFreed, FdsClosed, MemInv
<1> QED
  BY TypeCorrect, MemInvariant, WalkInvariant, <1>1, PTL

(* Nothing that the loop will read of a socket is freed: the read events of    *)
(* the batch and the socket of the tick loop.                                  *)
StaleInv ==
    Disciplined =>
       /\ \A s \in Socks : <<s, "EVFILT_READ">> \in batch => s \notin freed
       /\ pc \in {"sock_tick", "sock_tick_cb"} => cur \notin freed
       /\ exit # "use after free"

(* Under the rules sockets are freed when no event of theirs is left to be     *)
(* looked at: outside run, or in a callback that has taken the event out.      *)
LEMMA FreedUnderTheRules ==
    ASSUME TypeInv, MemInv, DisposeCounted, RulesInv, BatchInv, Disciplined, [Next]_vars
    PROVE  \/ UNCHANGED freed
           \/ pc \in {"up"} \cup EventCallbacks /\ pc' = pc /\ batch' = batch
              /\ \E s \in Socks : freed' = freed \cup {s} /\ <<s, "EVFILT_READ">> \notin batch
<1>0. TypeOK /\ "up" \notin EventStates
  BY DEF TypeInv, EventStates, EventCallbacks
<1>1. ASSUME NEW s \in Socks, proactor_net_socket_close(s)
      PROVE  /\ pc \in {"up"} \cup EventCallbacks /\ pc' = pc /\ batch' = batch
             /\ freed' = freed \cup {s} /\ <<s, "EVFILT_READ">> \notin batch
  <2>1. /\ freed' = freed \cup {s} /\ s \notin freed /\ UNCHANGED <<pc, batch>>
        /\ pc = "up" \/ (pc \in EventCallbacks /\ (s = cur \/ filters[s] = {}))
    BY <1>1 DEF proactor_net_socket_close, Release, loopVars, Disciplined
  <2>2. <<s, "EVFILT_READ">> \notin batch
    BY <1>0, <2>1 DEF BatchInv, Filters
  <2> QED
    BY <2>1, <2>2
<1>2. ASSUME NEW t \in Callers, dispose_free(t)
      PROVE  /\ pc = "up" /\ pc' = pc /\ batch' = batch
             /\ dispose_cur[t] \in Socks /\ freed' = freed \cup {dispose_cur[t]}
             /\ <<dispose_cur[t], "EVFILT_READ">> \notin batch
  <2>1. /\ calling[t] = "dispose_close_cb" /\ pc # "exited" /\ UNCHANGED <<pc, batch>>
        /\ freed' = freed \cup {dispose_cur[t]}
    BY <1>2 DEF dispose_free, DisposeStep, Release, FreedByWalk, loopVars
  <2>2. dispose_cur[t] \in Socks
    BY <2>1 DEF TypeInv, TypeOK, RestTypeOK, WalkAt
  <2>3. pc = "up"
    BY <2>1 DEF RulesInv, DisposeStates
  <2> QED
    BY <1>0, <2>1, <2>2, <2>3 DEF BatchInv
<1>3. ASSUME NEW t \in Callers, dispose_close_cb(t) PROVE FALSE
  BY <1>3 DEF dispose_close_cb, Disciplined, EventCallbacks
<1>4. UNCHANGED freed \/ Releases
  BY Movers DEF MemMover, Releases, Opens, Starts, Accepts, proactor_net_create,
     proactor_net_socket_open, start_receive, start_send, process_accept_ready, Handle,
     dispose_event_cb, dispose_socket, sockVars, memVars
<1> QED
  BY <1>1, <1>2, <1>3, <1>4 DEF Releases, Closes

(* The tick loop follows pointers of the list. *)
LEMMA TickPointer ==
    ASSUME TypeOK, [Next]_vars, pc' \in {"sock_tick", "sock_tick_cb"}
    PROVE  \/ pc \in {"sock_tick", "sock_tick_cb"} /\ UNCHANGED cur
           \/ pc \in {"sock_tick", "sock_tick_cb"} /\ cur' \in Linked \cup {NULL}
           \/ cur' \in {NULL} \cup (Socks \ freed)
<1>0. NextSocket(cur) \in Linked \cup {NULL}
  BY NextSocketLinked
<1>1. CASE sock_ticks \/ sock_tick \/ callback_return
  BY <1>0, <1>1 DEF sock_ticks, sock_tick, callback_return, Crash, EventCallbacks
<1>2. CASE ~(sock_ticks \/ sock_tick \/ callback_return)
  BY <1>2 DEF Next, vars, Setup, Calls, Dispose, LoopStep, Errors, Peers,
     proactor_net_create, proactor_net_socket_open, start_receive, start_send,
     proactor_net_socket_close, proactor_net_stop, proactor_net_wake, wake_write,
     wake_broken_pipe, proactor_net_dispose, DisposeStep, dispose_event_cb,
     dispose_socket, dispose_close_cb, dispose_free, dispose_stale, dispose_fds,
     proactor_net_run, run_check, kevent, kevent_error, kevent_interrupted, wake_read,
     stale_event, process_accept_ready, process_read_ready, read_error, process_write_ready,
     Handle, Take, events_done, AfterEvents, tick, Crash, peer_send, peer_close,
     peer_datagram, loopVars
<1> QED
  BY <1>1, <1>2

LEMMA StaleStep ==
    TypeInv /\ MemInv /\ DisposeCounted /\ RulesInv /\ WalkInv /\ BatchInv /\ StaleInv
       /\ [Next]_vars => StaleInv'
<1> SUFFICES ASSUME TypeInv, MemInv, DisposeCounted, RulesInv, WalkInv, BatchInv, StaleInv,
                    [Next]_vars, Disciplined
             PROVE  StaleInv'
  BY DEF StaleInv, Disciplined
<1>0. TypeOK /\ NULL \notin freed /\ freed \subseteq Socks /\ disposes \in Nat
  BY ListIs, DisposesNat DEF TypeInv, TypeOK, SockTypeOK
<1>1. ASSUME NEW s \in Socks, <<s, "EVFILT_READ">> \in batch' PROVE s \notin freed'
  <2>1. CASE kevent
    <3>1. <<s, "EVFILT_READ">> \in Ready /\ UNCHANGED freed
      BY <1>1, <2>1 DEF kevent, sockVars, memVars
    <3>2. filters[s] # {}
      BY <3>1, ReadyMeans DEF Filters
    <3> QED
      BY <3>1, <3>2 DEF MemInv
  <2>2. CASE ~kevent
    <3>1. <<s, "EVFILT_READ">> \in batch /\ s \notin freed
      BY <1>1, <2>2, EventsFromKevent DEF StaleInv
    <3> QED
      BY <3>1, FreedUnderTheRules
  <2> QED
    BY <2>1, <2>2
<1>2. ASSUME pc' \in {"sock_tick", "sock_tick_cb"} PROVE cur' \notin freed'
  <2>1. UNCHANGED freed
    BY <1>2, FreedUnderTheRules DEF EventCallbacks
  <2>2. CASE pc \in {"sock_tick", "sock_tick_cb"}
    <3>1. disposes = 0 /\ Clean
      BY <1>0, <2>2 DEF RulesInv, WalkInv
    <3> QED
      BY <1>0, <1>2, <2>1, <2>2, <3>1, TickPointer DEF StaleInv, Clean
  <2>3. CASE pc \notin {"sock_tick", "sock_tick_cb"}
    BY <1>0, <1>2, <2>1, <2>3, TickPointer
  <2> QED
    BY <2>2, <2>3
<1>3. exit' # "use after free"
  <2>1. ASSUME stale_event PROVE FALSE
    <3>1. PICK e \in batch : e[1] \in freed /\ e[2] = "EVFILT_READ"
      BY <2>1 DEF stale_event, Touches
    <3>2. e \in Kevents
      BY <1>0, <3>1 DEF TypeOK, LoopTypeOK
    <3>3. e = <<e[1], "EVFILT_READ">>
      BY <3>1, <3>2 DEF Kevents
    <3> QED
      BY <1>0, <3>1, <3>3 DEF StaleInv
  <2>2. ASSUME (sock_tick \/ callback_return) /\ Crash("use after free") PROVE FALSE
    BY <2>2 DEF sock_tick, callback_return, Crash, StaleInv
  <2>3. ASSUME NEW t \in Callers, dispose_stale(t) PROVE FALSE
    <3>1. /\ calling[t] \in {"dispose_sockets", "dispose_close_cb"} /\ dispose_cur[t] \in freed
      BY <2>3 DEF dispose_stale
    <3>2. t = Loop
      BY <3>1 DEF RulesInv, DisposeStates
    <3>3. \E k \in Nat : AtSocket(k)
      BY <3>1, <3>2 DEF WalkInv, InCloseCb
    <3> QED
      BY <1>0, <3>1, <3>2, <3>3, WalkNotStale
  <2>4. ASSUME NEW t \in Callers, wake_broken_pipe(t) PROVE exit' = "SIGPIPE"
    BY <2>4 DEF wake_broken_pipe, Crash
  <2>5. Crash("wild pointer") => exit' = "wild pointer"
    BY DEF Crash
  <2> QED
    BY <2>1, <2>2, <2>3, <2>4, <2>5, Movers DEF Crashes, StaleInv
<1> QED
  BY <1>1, <1>2, <1>3 DEF StaleInv

(* An application that keeps the rules makes proactor_net_run and dispose read *)
(* no freed socket: the events of a closed socket that are still in the batch  *)
(* are write events, which are not looked at; the tick loop and the walk of    *)
(* dispose follow pointers to sockets that are there; and a run after dispose, *)
(* whose list points to freed sockets, returns at its first check.             *)
THEOREM NothingFreedIsRead == Spec => []NoUseAfterFree
<1>1. Init => StaleInv
  BY DEF Init, StaleInv
<1>2. StaleInv => NoUseAfterFree
  BY DEF StaleInv, NoUseAfterFree
<1> QED
  BY TypeInvariant, MemInvariant, DisposeCountedInvariant, RulesInvariant, WalkInvariant,
     BatchInvariant, <1>1, <1>2, StaleStep, PTL DEF Spec

-------------------------------------------------------------------------------
(* The end of a stream. *)

(* The state of a stream whose peer has closed and whose data was all read     *)
(* does not change any more, until the stream is closed and freed.             *)
LEMMA EndOfStreamStays ==
    ASSUME TypeOK, [Next]_vars, NEW s \in Streams, eof[s], rx[s] = 0, s \notin freed'
    PROVE  eof'[s] /\ rx'[s] = 0
<1>0. /\ rx \in [Socks -> 0..RcvBuf] /\ eof \in [Socks -> BOOLEAN]
      /\ s \in Socks /\ s \notin Listeners /\ s \notin Datagrams
  BY Kinds DEF TypeOK, NetTypeOK
<1>1. CASE UNCHANGED <<rx, eof>>
  BY <1>1
<1>2. ASSUME NEW r \in Socks, process_accept_ready(r) PROVE rx'[s] = rx[s] /\ UNCHANGED eof
  BY <1>0, <1>2 DEF process_accept_ready
<1>3. ASSUME NEW r \in Socks, process_read_ready(r) PROVE rx'[s] = 0 /\ UNCHANGED eof
  <2>1. CASE "receive" \notin cbs[r]
    BY <1>3, <2>1 DEF process_read_ready
  <2>2. CASE "receive" \in cbs[r]
    <3>1. recvfrom(r) /\ UNCHANGED eof
      BY <1>3, <2>2 DEF process_read_ready
    <3>2. CASE r = s
      <4>1. Received(s) \in Nat /\ Received(s) <= rx[s]
        BY <1>0, <3>1, <3>2, ReceivedBounds
      <4>2. rx' = [rx EXCEPT ![s] = rx[s] - Received(s)]
        BY <1>0, <3>1, <3>2 DEF recvfrom
      <4> QED
        BY <1>0, <3>1, <4>1, <4>2
    <3>3. CASE r # s
      BY <1>0, <3>1, <3>3 DEF recvfrom
    <3> QED
      BY <3>2, <3>3
  <2> QED
    BY <2>1, <2>2
<1>4. ASSUME NEW r \in Socks, peer_send(r) PROVE rx'[s] = rx[s] /\ UNCHANGED eof
  BY <1>0, <1>4 DEF peer_send
<1>5. ASSUME NEW r \in Socks, peer_close(r) PROVE UNCHANGED rx /\ eof'[s]
  BY <1>0, <1>5 DEF peer_close
<1>6. CASE Releases
  <2>1. PICK S : Release(S)
    BY <1>6, ReleasesSome
  <2> QED
    BY <1>0, <2>1 DEF Release, Without
<1>7. \/ UNCHANGED <<rx, eof>> \/ Releases
      \/ \E r \in Socks : \/ process_accept_ready(r) \/ process_read_ready(r)
                          \/ peer_send(r) \/ peer_close(r)
  BY DEF Releases, Closes, Next, vars, Setup, Calls, Dispose, LoopStep, Errors, Peers,
     proactor_net_create, proactor_net_socket_open, start_receive, start_send,
     proactor_net_stop, proactor_net_wake, wake_write, wake_broken_pipe, proactor_net_dispose,
     dispose_event_cb, dispose_socket, dispose_stale, dispose_fds, proactor_net_run, run_check,
     kevent, kevent_error, kevent_interrupted, wake_read, stale_event, read_error,
     process_write_ready, events_done, tick, sock_ticks, sock_tick, callback_return, Crash,
     peer_datagram, netVars
<1> QED
  BY <1>1, <1>2, <1>3, <1>4, <1>5, <1>6, <1>7

(* close_cb is entered by process_read_ready only. *)
LEMMA EntersClose ==
    ASSUME [Next]_vars, pc' = "close_cb"
    PROVE  \/ pc = "close_cb" /\ UNCHANGED cur
           \/ \E s \in Socks : process_read_ready(s)
BY DEF Next, vars, Setup, Calls, Dispose, LoopStep, Errors, Peers,
   proactor_net_create, proactor_net_socket_open, start_receive, start_send,
   proactor_net_socket_close, proactor_net_stop, proactor_net_wake, wake_write,
   wake_broken_pipe, proactor_net_dispose, DisposeStep, dispose_event_cb,
   dispose_socket, dispose_close_cb, dispose_free, dispose_stale, dispose_fds,
   proactor_net_run, run_check, kevent, kevent_error, kevent_interrupted, wake_read,
   stale_event, process_accept_ready, read_error, process_write_ready,
   Handle, Take, events_done, AfterEvents, tick, sock_ticks, sock_tick, callback_return,
   Crash, peer_send, peer_close, peer_datagram, loopVars

(* When process_read_ready calls the close callback of a stream, the peer has  *)
(* closed and nothing it had sent is left.  The room of the buffer             *)
(* (RoomUsable) and the registration of the events at hand (BatchInv) rule out *)
(* the other causes of a count of 0, whatever sockets are closed and disposed  *)
(* of meanwhile.  The calls that dispose makes of the same function are not    *)
(* among these.                                                                *)
THEOREM CloseIsEof == Spec => []CloseMeansEof
<1>1. Init => CloseMeansEof
  BY DEF Init, CloseMeansEof
<1>2. TypeInv /\ RoomUsable /\ BatchInv /\ CloseMeansEof /\ [Next]_vars => CloseMeansEof'
  <2> SUFFICES ASSUME TypeInv, RoomUsable, BatchInv, CloseMeansEof, [Next]_vars,
                      pc' = "close_cb", cur' \in Streams, cur' \notin freed'
               PROVE  eof'[cur'] /\ rx'[cur'] = 0
    BY DEF CloseMeansEof
  <2>0. TypeOK /\ cur' \notin freed
    BY Kinds, FreedGrows DEF TypeInv
  <2>1. CASE pc = "close_cb" /\ UNCHANGED cur
    BY <2>0, <2>1, EndOfStreamStays DEF CloseMeansEof
  <2>2. ASSUME NEW s \in Socks, process_read_ready(s), ~(pc = "close_cb" /\ UNCHANGED cur)
        PROVE  eof'[cur'] /\ rx'[cur'] = 0
    <3>1. pc = "dispatch" /\ <<s, "EVFILT_READ">> \in batch /\ s \notin freed
      BY <2>2 DEF process_read_ready, Handle, Take
    <3>2. recvfrom(s) /\ ~(Received(s) > 0) /\ cur' = s /\ UNCHANGED eof
      BY <2>2, <3>1 DEF process_read_ready
    <3>3. s \in Streams /\ s \in Socks \ Listeners /\ s \notin Datagrams
      BY <3>2, Kinds
    <3>4. data_length[s] \in 1..BufferSize
      BY <3>1, <3>3 DEF BatchInv, RoomUsable, Filters
    <3>5. rx \in [Socks -> 0..RcvBuf]
      BY <2>0 DEF TypeOK, NetTypeOK
    <3>6. Received(s) = 0 /\ rx[s] = 0
      BY <2>0, <3>2, <3>3, <3>4, <3>5, ReceivedBounds, Sizes
    <3>7. eof[s] /\ rx' = [rx EXCEPT ![s] = rx[s] - Received(s)]
      BY <3>2, <3>3, <3>6 DEF recvfrom
    <3> QED
      BY <3>2, <3>5, <3>6, <3>7
  <2> QED
    BY <2>1, <2>2, EntersClose
<1> QED
  BY TypeInvariant, RoomIsUsable, BatchInvariant, <1>1, <1>2, PTL DEF Spec

-------------------------------------------------------------------------------
(* The event loop's contract. *)

(* run of the Darwin back end refines the safety part of EventLoop: it returns *)
(* only after stop was called, by any thread or by dispose, a stop is never    *)
(* taken back, and only a memory fault or a signal ends it otherwise.          *)
THEOREM RunReturnsOnlyAfterStop == Spec => EL!Safety
<1>1. Init => EL!Init
  BY DEF Init, EL!Init, RunStates, CallbackStates, EventCallbacks
<1>2. DownInv /\ [Next]_vars => [EL!Next]_(EL!vars)
  <2> SUFFICES ASSUME DownInv, [Next]_vars PROVE EL!Next \/ UNCHANGED EL!vars
    OBVIOUS
  <2>a. ASSUME pc \in RunStates, pc' \in RunStates, UNCHANGED stop
        PROVE  UNCHANGED EL!vars
    BY <2>a DEF EL!vars, RunStates, CallbackStates, EventCallbacks
  <2>b. ASSUME UNCHANGED <<pc, stop>> PROVE UNCHANGED EL!vars
    BY <2>b DEF EL!vars
  <2>c. ASSUME NEW why, Crash(why) PROVE EL!Next
    BY <2>c DEF Crash, wakeVars, EL!Next, EL!End, RunStates, CallbackStates, EventCallbacks
  <2>1. CASE Setup
    <3>1. CASE proactor_net_create
      <4>1. pc = "down" /\ pc' = "up" /\ stop' = stop
        BY <3>1 DEF proactor_net_create, DownInv
      <4>2. pc \notin RunStates /\ pc' \notin RunStates /\ pc # "exited" /\ pc' # "exited"
        BY <4>1 DEF RunStates, CallbackStates, EventCallbacks
      <4> QED
        BY <4>1, <4>2 DEF EL!vars
    <3>2. CASE ~proactor_net_create
      BY <2>1, <3>2, <2>b DEF Setup, proactor_net_socket_open, start_receive, start_send,
         proactor_net_socket_close, loopVars, wakeVars
    <3> QED
      BY <3>1, <3>2
  <2>2. CASE Calls \/ Dispose
    <3>1. CASE \E t \in Callers : wake_broken_pipe(t) \/ dispose_stale(t)
      BY <3>1, <2>c DEF wake_broken_pipe, dispose_stale
    <3>2. CASE ~\E t \in Callers : wake_broken_pipe(t) \/ dispose_stale(t)
      <4>1. UNCHANGED pc /\ (stop' = TRUE \/ UNCHANGED stop)
        BY <2>2, <3>2 DEF Calls, Dispose, proactor_net_stop, proactor_net_wake, wake_write,
           proactor_net_dispose, DisposeStep, dispose_event_cb, dispose_socket,
           dispose_close_cb, dispose_free, dispose_fds, loopVars, wakeVars
      <4> QED
        BY <4>1, <2>b DEF EL!Next, EL!Stop
    <3> QED
      BY <3>1, <3>2
  <2>3. CASE proactor_net_run
    BY <2>3 DEF proactor_net_run, wakeVars, EL!Next, EL!Run, RunStates, CallbackStates, EventCallbacks
  <2>4. CASE run_check
    <3>1. CASE stop
      BY <2>4, <3>1 DEF run_check, GoOn, wakeVars, EL!Next, EL!Return, RunStates, CallbackStates, EventCallbacks
    <3>2. CASE ~stop
      BY <2>4, <3>2, <2>a DEF run_check, GoOn, wakeVars, RunStates
    <3> QED
      BY <3>1, <3>2
  <2>5. CASE stale_event
    BY <2>5, <2>c DEF stale_event
  <2>6. CASE kevent \/ kevent_error \/ kevent_interrupted \/ wake_read \/ events_done \/ tick
    BY <2>6, <2>a DEF kevent, kevent_error, kevent_interrupted, wake_read, Take, events_done,
       AfterEvents, tick, wakeVars, RunStates, CallbackStates, EventCallbacks
  <2>7. ASSUME NEW s \in Socks,
               \/ process_accept_ready(s) \/ process_read_ready(s)
               \/ process_write_ready(s) \/ read_error(s)
        PROVE  UNCHANGED EL!vars
    BY <2>7, <2>a DEF process_accept_ready, process_read_ready, process_write_ready, read_error,
       Handle, Take, wakeVars, RunStates, CallbackStates, EventCallbacks
  <2>8. CASE sock_ticks
    BY <2>8, <2>a, <2>c DEF sock_ticks, wakeVars, RunStates
  <2>9. CASE sock_tick
    BY <2>9, <2>a, <2>c DEF sock_tick, wakeVars, RunStates, CallbackStates, EventCallbacks
  <2>10. CASE callback_return
    BY <2>10, <2>a, <2>c DEF callback_return, wakeVars, RunStates, CallbackStates, EventCallbacks
  <2>11. CASE Peers \/ UNCHANGED vars
    BY <2>11, <2>b DEF Peers, peer_send, peer_close, peer_datagram, vars, loopVars, wakeVars
  <2> QED
    BY <2>1, <2>2, <2>3, <2>4, <2>5, <2>6, <2>7, <2>8, <2>9, <2>10, <2>11
    DEF Next, LoopStep, Errors
<1> QED
  BY DownInvariant, <1>1, <1>2, PTL DEF Spec, EL!Safety

===============================================================================
